--------------------------- MODULE AccountsTheorems ---------------------------
(***************************************************************************)
(* Theorems about accounts, the ways into them and their second factor,    *)
(* for any accounts, requests and codes, any start the requests before may *)
(* have left, and every interleaving; and about the queue of the mails they*)
(* cause.                                                                  *)
(***************************************************************************)
EXTENDS SecondFactor, EmailQueue, FiniteSetTheorems, SequenceTheorems, WellFoundedInduction,
        TLAPS

Addressed == Emails \cup {NoEmail}
Kinds == {"full", "second", "enrol"}
RecoveryCode == Requests \X Nat
Registration == [request : Requests, email : Addressed]
Change == [request : Requests, user : Nat, email : Addressed]
Reset == [request : Requests, user : Nat, used : BOOLEAN, times : Nat]
Pending == {NoPending} \cup Registration \cup Change \cup Reset
MailedCode ==
  [email : Addressed, purpose : Ops, attempts : Nat, open : BOOLEAN, passes : Nat]

(* Where a request without an account may be.                              *)
Nobodys == {"ready", "done", "issue", "pend", "spend", "write", "owner", "stale", "email", "create"}
Pcs ==
  Nobodys \cup Ops \cup {"in", "check", "others", "find", "prove", "session", "look", "push", "replace",
                         "enable", "totp", "recovery", "rotate"}

LocalState ==
  [pc : Pcs, user : Nat, admin : BOOLEAN, pending : Pending, row : Identity \cup {NoRow},
   kind : Kinds, token : Session \cup {NoSession}, code : RecoveryCode \cup {<<>>}]

AccountTypes ==
  /\ users \in Seq(Account) /\ idents \subseteq Identity /\ made \in Nat
  /\ codes \in Seq(MailedCode)
  /\ pendReg \subseteq Registration /\ pendChange \subseteq Change /\ resets \subseteq Reset
  /\ enrolling \subseteq Nat /\ sessions \subseteq Session
  /\ DOMAIN local \subseteq Requests /\ local \in [DOMAIN local -> LocalState]
  /\ passed \subseteq DOMAIN local /\ overlapped \in BOOLEAN

(* An account that is not deleted, or that an admin has meddled with.      *)
Lives(u) == users[u].live \/ users[u].toggled

-----------------------------------------------------------------------------
(* What is true of a request however others interleave.                    *)
UserFits(q) ==
  /\ local[q].user \in 0..Len(users)
  /\ local[q].pc \notin Nobodys => local[q].user # 0
  /\ local[q].pc = "ready" => local[q].user = 0

RowFits(q) ==
  local[q].pc \in {"owner", "stale"} =>
    /\ local[q].row \in Identity
    /\ local[q].row.ident = q.ident
    /\ local[q].row.user \in DOMAIN users /\ local[q].row.id <= made
    /\ \A row \in idents : row.id = local[q].row.id => row = local[q].row
    /\ local[q].pc = "stale" => local[q].row.user \notin Untouched

StepFits(q) ==
  /\ local[q].pc = "spend" => q.op \in {"verify", "confirmChange"}
  /\ local[q].pc \in {"spend", "write"} =>
       /\ q.op = "verify" => local[q].pending \in Registration
       /\ q.op = "confirmChange" => local[q].pending \in Change
       /\ q.op = "reset" => local[q].pending \in Reset
  /\ local[q].pc = "others" => q.op \in Admin \cup {"delete"}
  /\ local[q].pc = "prove" => q.op \in {"delete", "password", "disable"}
  /\ local[q].pc = "session" => q.op \in {"login", "oauth"}
  /\ local[q].pc = "in" => q.op \in {"second", "confirmFactor"}

Spent(r) == r \in DOMAIN local => local[r].pc \in {"done", "in"}

TokenFits(q) ==
  /\ local[q].token # NoSession => local[q].token \in Session /\ Spent(local[q].token.request)
  /\ local[q].pc \in {"confirmFactor", "enable", "totp", "recovery", "rotate", "in"} =>
       local[q].token # NoSession /\ local[q].token.user = local[q].user
  /\ local[q].pc \in {"totp", "recovery"} => local[q].token.kind = "second"
  /\ local[q].pc = "rotate" =>
       local[q].token.kind \in {"second", "enrol"} /\ q.op \in {"second", "confirmFactor"}
  /\ local[q].pc = "enable" => q.op = "confirmFactor"
  /\ local[q].pc = "in" => local[q].token \notin sessions

RequestsFit ==
  \A q \in DOMAIN local : UserFits(q) /\ RowFits(q) /\ StepFits(q) /\ TokenFits(q)

RowsFit ==
  /\ \A row \in idents : row.user \in DOMAIN users /\ row.id <= made
  /\ \A one, two \in idents : one.id = two.id => one = two

SessionsFit == \A s \in sessions : s.user \in DOMAIN users /\ Spent(s.request)

EntriesDiffer ==
  \A one, two \in {q \in DOMAIN local : local[q].pc = "in"} :
    one # two => local[one].token # local[two].token

(* A mailed code.                                                          *)
MailedCodesFit ==
  \A c \in DOMAIN codes :
    /\ codes[c].passes <= 1 /\ codes[c].attempts <= MaxAttempts
    /\ codes[c].open => codes[c].passes = 0 /\ codes[c].attempts < MaxAttempts
    /\ codes[c].passes = 1 => codes[c].attempts < MaxAttempts

(* A recovery code belongs to one account, or to the request it let in.    *)
MadeBy(r) == r \in DOMAIN local => local[r].pc \in {"rotate", "done", "in"}
Owns(u, code) == code \in users[u].factor.codes

RecoveryCodesFit ==
  /\ \A u \in DOMAIN users : \A code \in users[u].factor.codes : MadeBy(code[1])
  /\ \A u, v \in DOMAIN users : \A code \in users[u].factor.codes : Owns(v, code) => u = v
  /\ \A q \in DOMAIN local : local[q].code # <<>> =>
       /\ MadeBy(local[q].code[1])
       /\ \A u \in DOMAIN users : ~Owns(u, local[q].code)
       /\ \A r \in DOMAIN local : local[r].code = local[q].code => r = q

ResetsFit ==
  /\ \A r \in resets : Spent(r.request) /\ (~r.used => r.times = 0)
  /\ \A one, two \in resets : one.request = two.request => one = two

-----------------------------------------------------------------------------
(* What a request knows as long as no other one has written meanwhile, when*)
(* it is where l says.                                                     *)
KnowsEmail(q, l) ==
  /\ q.op = "verify" /\ l.pc \in {"spend", "write"} => ~Taken(l.pending.email)
  /\ q.op = "confirmChange" /\ l.pc \in {"spend", "write"} =>
       ~TakenByOther(l.pending.email, l.pending.user)
  /\ l.pc = "create" => q.email = NoEmail \/ ~Taken(q.email)

KnowsIdent(q, l) ==
  /\ l.pc \in {"email", "create", "push"} => \A row \in idents : row.ident # q.ident
  /\ l.pc \in {"owner", "stale"} => \A row \in idents : row.ident = q.ident => row.id = l.row.id

KnowsReset(q, l) == q.op = "reset" /\ l.pc = "write" => l.pending \in resets /\ ~l.pending.used

KnowsUser(q, l) ==
  /\ q.op = "oauth" /\ l.user # 0 /\ l.pc # "done" => Lives(l.user)
  /\ l.pc = "session" => Lives(l.user)
  /\ l.pc = "session" /\ l.kind = "full" =>
       ~On(l.user) /\ (q.op = "login" => q.email \notin AdminEmails)
  /\ q.op = "enroll" /\ l.pc = "enroll" => ~On(l.user)
  /\ l.pc = "rotate" /\ l.token.kind = "enrol" => On(l.user)

KnowsAdmin(q, l) ==
  /\ q.op \in Admin /\ l.pc \in Admin \cup {"others"} => users[l.user].admin /\ Lives(l.user)
  /\ q.op = "demote" /\ l.pc = "demote" /\ q.user = l.user => OtherAdmins(l.user) # {}
  /\ q.op = "delete" /\ l.pc = "prove" => l.admin = users[l.user].admin
  /\ q.op = "delete" /\ l.pc = "delete" => ~users[l.user].admin \/ OtherAdmins(l.user) # {}

KnowsAs(q, l) ==
  KnowsEmail(q, l) /\ KnowsIdent(q, l) /\ KnowsReset(q, l) /\ KnowsUser(q, l) /\ KnowsAdmin(q, l)

Knows(q) == KnowsAs(q, local[q])

SerialFacts ==
  /\ \A u, v \in Untouched : u # v => users[u].email # users[v].email \/ users[u].email = NoEmail
  /\ \A one, two \in idents : one.ident = two.ident => one = two
  /\ \A r \in resets : r.times <= 1
  /\ \A s \in sessions : Lives(s.user)
  /\ \A u \in enrolling : u \in DOMAIN users /\ ~On(u)
  /\ (\E u \in DOMAIN users : users[u].admin) =>
       \E u \in DOMAIN users : users[u].toggled \/ (users[u].live /\ users[u].admin)

Serial == ~overlapped => SerialFacts /\ \A q \in DOMAIN local \ passed : Knows(q)

(* An account has something to log in with.                                *)
KeepsACredential ==
  \A u \in Untouched : users[u].password \/ \E row \in idents : row.user = u

Fits ==
  /\ AccountTypes /\ RequestsFit /\ RowsFit /\ SessionsFit /\ EntriesDiffer
  /\ MailedCodesFit /\ RecoveryCodesFit /\ ResetsFit /\ KeepsACredential

AccountInv == Fits /\ Serial

-----------------------------------------------------------------------------
(* Data.                                                                   *)
LEMMA OpsAreOps ==
  /\ Admin = {"promote", "demote", "lock"} /\ Enrols = {"enroll", "confirmFactor"}
  /\ \A op \in Private : op \in Ops
BY DEF Admin, Enrols, Private, Ops

LEMMA RequestTyped ==
  ASSUME NEW q \in Requests
  PROVE  q.op \in Ops /\ q.email \in Addressed /\ q.ident \in Idents /\ q.user \in Nat
BY AccountsAssumptions DEF Addressed

(* A value put in place of an entry of a sequence.                         *)
LEMMA SetEntry ==
  ASSUME NEW S, NEW s \in Seq(S), NEW u, NEW x, u \in DOMAIN s => x \in S,
         NEW t, t = [s EXCEPT ![u] = x]
  PROVE  /\ t \in Seq(S) /\ DOMAIN t = DOMAIN s /\ Len(t) = Len(s)
         /\ \A v \in DOMAIN s : t[v] = IF v = u THEN x ELSE s[v]
<1>1. Len(s) \in Nat /\ DOMAIN s = 1..Len(s) /\ \A v \in DOMAIN s : s[v] \in S
  OBVIOUS
<1>2. DOMAIN t = 1..Len(s) /\ \A v \in 1..Len(s) : t[v] \in S
  BY <1>1
<1>3. t = [v \in 1..Len(s) |-> t[v]]
  BY <1>2
<1>4. t \in [1..Len(s) -> S]
  BY <1>2, <1>3
<1>5. t \in Seq(S) /\ Len(t) = Len(s)
  BY <1>1, <1>2, <1>4, IsASeq
<1> QED BY <1>1, <1>5

(* The naturals are well-founded: Min and Max are in their sets.           *)
NatLess == {p \in Nat \X Nat : p[1] < p[2]}

LEMMA LeastNatural ==
  ASSUME NEW S \in SUBSET Nat, S # {}
  PROVE  \E n \in S : \A m \in S : n <= m
<1>1. OpToRel(<, Nat) = NatLess
  BY DEF OpToRel, NatLess
<1>2. PICK n \in S : \A m \in S : ~(<<m, n>> \in NatLess)
  BY <1>1, NatLessThanWellFounded, WFMin
<1>3. \A m \in S : ~(m < n)
  <2>1. \A m \in S : <<m, n>> \in Nat \X Nat
    OBVIOUS
  <2> QED BY <1>2, <2>1 DEF NatLess
<1> QED BY <1>3

LEMMA MinIsIn ==
  ASSUME NEW S \in SUBSET Nat, S # {}
  PROVE  Min(S) \in S
BY LeastNatural DEF Min

LEMMA MaxIsIn ==
  ASSUME NEW n \in Nat, NEW S \in SUBSET (1..n), S # {}
  PROVE  Max(S) \in S
<1> DEFINE T == {k \in Nat : n - k \in S}
<1>1. \A x \in S : x \in Nat /\ n - x \in Nat /\ n - (n - x) = x
  OBVIOUS
<1>2. T # {} /\ T \in SUBSET Nat
  BY <1>1
<1> HIDE DEF T
<1>3. PICK m \in T : \A k \in T : m <= k
  BY <1>2, LeastNatural
<1> USE DEF T
<1>4. n - m \in S /\ \A x \in S : n - m >= x
  BY <1>1, <1>3
<1> QED BY <1>4 DEF Max

-----------------------------------------------------------------------------
(* Where a request goes.                                                   *)
StateOf(pc, user, admin, pending, row, kind, token, code) ==
  [pc |-> pc, user |-> user, admin |-> admin, pending |-> pending, row |-> row,
   kind |-> kind, token |-> token, code |-> code]

(* q alone moves, to this state.                                           *)
Gets(q, state) ==
  /\ local'[q] = state /\ local' = [r \in DOMAIN local |-> local'[r]]
  /\ DOMAIN local' = DOMAIN local /\ \A r \in DOMAIN local \ {q} : local'[r] = local[r]

LEMMA FieldsOf ==
  ASSUME NEW state \in LocalState
  PROVE  state = StateOf(state.pc, state.user, state.admin, state.pending, state.row, state.kind,
                         state.token, state.code)
BY DEF LocalState, StateOf

LEMMA MovesTo ==
  ASSUME AccountTypes, NEW q \in DOMAIN local, NEW pc,
         NEW new, local' = [local EXCEPT ![q] = new]
  PROVE  Gets(q, new)
BY DEF Gets, AccountTypes

LEMMA GoesTo ==
  ASSUME AccountTypes, NEW q \in DOMAIN local, NEW pc, Goes(q, pc)
  PROVE  LET l == local[q] IN
         Gets(q, StateOf(pc, l.user, l.admin, l.pending, l.row, l.kind, l.token, l.code))
<1>1. local[q] \in LocalState /\ local' = [local EXCEPT ![q] = [local[q] EXCEPT !.pc = pc]]
  BY DEF AccountTypes, Goes
<1>2. [local[q] EXCEPT !.pc = pc] =
        StateOf(pc, local[q].user, local[q].admin, local[q].pending, local[q].row, local[q].kind,
                local[q].token, local[q].code)
  BY <1>1 DEF LocalState, StateOf
<1> QED BY <1>1, <1>2, MovesTo

LEMMA ReadsUserTo ==
  ASSUME AccountTypes, NEW q \in DOMAIN local, NEW pc, NEW user, ReadsUser(q, pc, user)
  PROVE  LET l == local[q] IN
         Gets(q, StateOf(pc, user, l.admin, l.pending, l.row, l.kind, l.token, l.code))
<1> DEFINE l == local[q]
           first == [l EXCEPT !.pc = pc]
<1>1. l \in LocalState
  BY DEF AccountTypes
<1>2. first = StateOf(pc, l.user, l.admin, l.pending, l.row, l.kind, l.token, l.code)
  BY <1>1 DEF LocalState, StateOf
<1>3. [StateOf(pc, l.user, l.admin, l.pending, l.row, l.kind, l.token, l.code) EXCEPT !.user = user]
        = StateOf(pc, user, l.admin, l.pending, l.row, l.kind, l.token, l.code)
  BY DEF StateOf
<1>4. Gets(q, [first EXCEPT !.user = user])
  BY DEF Gets, AccountTypes, ReadsUser
<1> HIDE DEF first
<1> QED BY <1>2, <1>3, <1>4

LEMMA ReadsPendingTo ==
  ASSUME AccountTypes, NEW q \in DOMAIN local, NEW pc, NEW p, ReadsPending(q, pc, p)
  PROVE  LET l == local[q] IN
         Gets(q, StateOf(pc, l.user, l.admin, p, l.row, l.kind, l.token, l.code))
<1> DEFINE l == local[q]
           first == [l EXCEPT !.pc = pc]
<1>1. l \in LocalState
  BY DEF AccountTypes
<1>2. first = StateOf(pc, l.user, l.admin, l.pending, l.row, l.kind, l.token, l.code)
  BY <1>1 DEF LocalState, StateOf
<1>3. [StateOf(pc, l.user, l.admin, l.pending, l.row, l.kind, l.token, l.code) EXCEPT !.pending = p]
        = StateOf(pc, l.user, l.admin, p, l.row, l.kind, l.token, l.code)
  BY DEF StateOf
<1>4. Gets(q, [first EXCEPT !.pending = p])
  BY DEF Gets, AccountTypes, ReadsPending
<1> HIDE DEF first
<1> QED BY <1>2, <1>3, <1>4

LEMMA ReadsRowTo ==
  ASSUME AccountTypes, NEW q \in DOMAIN local, NEW pc, NEW found, ReadsRow(q, pc, found)
  PROVE  LET l == local[q] IN
         Gets(q, StateOf(pc, l.user, l.admin, l.pending, found, l.kind, l.token, l.code))
<1> DEFINE l == local[q]
           first == [l EXCEPT !.pc = pc]
<1>1. l \in LocalState
  BY DEF AccountTypes
<1>2. first = StateOf(pc, l.user, l.admin, l.pending, l.row, l.kind, l.token, l.code)
  BY <1>1 DEF LocalState, StateOf
<1>3. [StateOf(pc, l.user, l.admin, l.pending, l.row, l.kind, l.token, l.code) EXCEPT !.row = found]
        = StateOf(pc, l.user, l.admin, l.pending, found, l.kind, l.token, l.code)
  BY DEF StateOf
<1>4. Gets(q, [first EXCEPT !.row = found])
  BY DEF Gets, AccountTypes, ReadsRow
<1> HIDE DEF first
<1> QED BY <1>2, <1>3, <1>4

LEMMA AuthenticatesTo ==
  ASSUME AccountTypes, NEW q \in DOMAIN local, NEW pc, NEW u, NEW a, NEW t,
         local' = [local EXCEPT ![q].pc = pc, ![q].user = u, ![q].admin = a, ![q].token = t]
  PROVE  LET l == local[q] IN
         Gets(q, StateOf(pc, u, a, l.pending, l.row, l.kind, t, l.code))
<1> DEFINE l == local[q]
           first == [l EXCEPT !.pc = pc]
<1>1. l \in LocalState
  BY DEF AccountTypes
<1>2. first = StateOf(pc, l.user, l.admin, l.pending, l.row, l.kind, l.token, l.code)
  BY <1>1 DEF LocalState, StateOf
<1>3. [StateOf(pc, l.user, l.admin, l.pending, l.row, l.kind, l.token, l.code) EXCEPT !.user = u]
        = StateOf(pc, u, l.admin, l.pending, l.row, l.kind, l.token, l.code)
  BY DEF StateOf
<1>4. [StateOf(pc, u, l.admin, l.pending, l.row, l.kind, l.token, l.code) EXCEPT !.admin = a]
        = StateOf(pc, u, a, l.pending, l.row, l.kind, l.token, l.code)
  BY DEF StateOf
<1>5. [StateOf(pc, u, a, l.pending, l.row, l.kind, l.token, l.code) EXCEPT !.token = t]
        = StateOf(pc, u, a, l.pending, l.row, l.kind, t, l.code)
  BY DEF StateOf
<1>6. Gets(q, [[[first EXCEPT !.user = u] EXCEPT !.admin = a] EXCEPT !.token = t])
  BY DEF Gets, AccountTypes
<1> HIDE DEF first
<1> QED BY <1>2, <1>3, <1>4, <1>5, <1>6

LEMMA LogsInTo ==
  ASSUME AccountTypes, NEW q \in DOMAIN local, NEW pc, NEW u, NEW k, NEW a,
         local' = [local EXCEPT ![q].pc = pc, ![q].user = u, ![q].kind = k, ![q].admin = a]
  PROVE  LET l == local[q] IN
         Gets(q, StateOf(pc, u, a, l.pending, l.row, k, l.token, l.code))
<1> DEFINE l == local[q]
           first == [l EXCEPT !.pc = pc]
<1>1. l \in LocalState
  BY DEF AccountTypes
<1>2. first = StateOf(pc, l.user, l.admin, l.pending, l.row, l.kind, l.token, l.code)
  BY <1>1 DEF LocalState, StateOf
<1>3. [StateOf(pc, l.user, l.admin, l.pending, l.row, l.kind, l.token, l.code) EXCEPT !.user = u]
        = StateOf(pc, u, l.admin, l.pending, l.row, l.kind, l.token, l.code)
  BY DEF StateOf
<1>4. [StateOf(pc, u, l.admin, l.pending, l.row, l.kind, l.token, l.code) EXCEPT !.kind = k]
        = StateOf(pc, u, l.admin, l.pending, l.row, k, l.token, l.code)
  BY DEF StateOf
<1>5. [StateOf(pc, u, l.admin, l.pending, l.row, k, l.token, l.code) EXCEPT !.admin = a]
        = StateOf(pc, u, a, l.pending, l.row, k, l.token, l.code)
  BY DEF StateOf
<1>6. Gets(q, [[[first EXCEPT !.user = u] EXCEPT !.kind = k] EXCEPT !.admin = a])
  BY DEF Gets, AccountTypes
<1> HIDE DEF first
<1> QED BY <1>2, <1>3, <1>4, <1>5, <1>6

LEMMA LooksTo ==
  ASSUME AccountTypes, NEW q \in DOMAIN local, NEW pc, NEW k,
         local' = [local EXCEPT ![q].pc = pc, ![q].kind = k]
  PROVE  LET l == local[q] IN
         Gets(q, StateOf(pc, l.user, l.admin, l.pending, l.row, k, l.token, l.code))
<1> DEFINE l == local[q]
           first == [l EXCEPT !.pc = pc]
<1>1. l \in LocalState
  BY DEF AccountTypes
<1>2. first = StateOf(pc, l.user, l.admin, l.pending, l.row, l.kind, l.token, l.code)
  BY <1>1 DEF LocalState, StateOf
<1>3. [StateOf(pc, l.user, l.admin, l.pending, l.row, l.kind, l.token, l.code) EXCEPT !.kind = k]
        = StateOf(pc, l.user, l.admin, l.pending, l.row, k, l.token, l.code)
  BY DEF StateOf
<1>4. Gets(q, [first EXCEPT !.kind = k])
  BY DEF Gets, AccountTypes
<1> HIDE DEF first
<1> QED BY <1>2, <1>3, <1>4

LEMMA ResetsTo ==
  ASSUME AccountTypes, NEW q \in DOMAIN local, NEW pc, NEW p, NEW u,
         local' = [local EXCEPT ![q].pc = pc, ![q].pending = p, ![q].user = u]
  PROVE  LET l == local[q] IN
         Gets(q, StateOf(pc, u, l.admin, p, l.row, l.kind, l.token, l.code))
<1> DEFINE l == local[q]
           first == [l EXCEPT !.pc = pc]
<1>1. l \in LocalState
  BY DEF AccountTypes
<1>2. first = StateOf(pc, l.user, l.admin, l.pending, l.row, l.kind, l.token, l.code)
  BY <1>1 DEF LocalState, StateOf
<1>3. [StateOf(pc, l.user, l.admin, l.pending, l.row, l.kind, l.token, l.code) EXCEPT !.pending = p]
        = StateOf(pc, l.user, l.admin, p, l.row, l.kind, l.token, l.code)
  BY DEF StateOf
<1>4. [StateOf(pc, l.user, l.admin, p, l.row, l.kind, l.token, l.code) EXCEPT !.user = u]
        = StateOf(pc, u, l.admin, p, l.row, l.kind, l.token, l.code)
  BY DEF StateOf
<1>5. Gets(q, [[first EXCEPT !.pending = p] EXCEPT !.user = u])
  BY DEF Gets, AccountTypes
<1> HIDE DEF first
<1> QED BY <1>2, <1>3, <1>4, <1>5

LEMMA FindsTo ==
  ASSUME AccountTypes, NEW q \in DOMAIN local, NEW pc, NEW u, NEW t,
         local' = [local EXCEPT ![q].pc = pc, ![q].user = u, ![q].token = t]
  PROVE  LET l == local[q] IN
         Gets(q, StateOf(pc, u, l.admin, l.pending, l.row, l.kind, t, l.code))
<1> DEFINE l == local[q]
           first == [l EXCEPT !.pc = pc]
<1>1. l \in LocalState
  BY DEF AccountTypes
<1>2. first = StateOf(pc, l.user, l.admin, l.pending, l.row, l.kind, l.token, l.code)
  BY <1>1 DEF LocalState, StateOf
<1>3. [StateOf(pc, l.user, l.admin, l.pending, l.row, l.kind, l.token, l.code) EXCEPT !.user = u]
        = StateOf(pc, u, l.admin, l.pending, l.row, l.kind, l.token, l.code)
  BY DEF StateOf
<1>4. [StateOf(pc, u, l.admin, l.pending, l.row, l.kind, l.token, l.code) EXCEPT !.token = t]
        = StateOf(pc, u, l.admin, l.pending, l.row, l.kind, t, l.code)
  BY DEF StateOf
<1>5. Gets(q, [[first EXCEPT !.user = u] EXCEPT !.token = t])
  BY DEF Gets, AccountTypes
<1> HIDE DEF first
<1> QED BY <1>2, <1>3, <1>4, <1>5

LEMMA ConsumesTo ==
  ASSUME AccountTypes, NEW q \in DOMAIN local, NEW pc, NEW c,
         local' = [local EXCEPT ![q].pc = pc, ![q].code = c]
  PROVE  LET l == local[q] IN
         Gets(q, StateOf(pc, l.user, l.admin, l.pending, l.row, l.kind, l.token, c))
<1> DEFINE l == local[q]
           first == [l EXCEPT !.pc = pc]
<1>1. l \in LocalState
  BY DEF AccountTypes
<1>2. first = StateOf(pc, l.user, l.admin, l.pending, l.row, l.kind, l.token, l.code)
  BY <1>1 DEF LocalState, StateOf
<1>3. [StateOf(pc, l.user, l.admin, l.pending, l.row, l.kind, l.token, l.code) EXCEPT !.code = c]
        = StateOf(pc, l.user, l.admin, l.pending, l.row, l.kind, l.token, c)
  BY DEF StateOf
<1>4. Gets(q, [first EXCEPT !.code = c])
  BY DEF Gets, AccountTypes
<1> HIDE DEF first
<1> QED BY <1>2, <1>3, <1>4

-----------------------------------------------------------------------------
(* What becomes of an account.                                             *)
AccountOf(email, password, live, admin, toggled, factor) ==
  [email |-> email, password |-> password, live |-> live, admin |-> admin,
   toggled |-> toggled, factor |-> factor]

UserBecomes(u, new) ==
  /\ users' \in Seq(Account) /\ DOMAIN users' = DOMAIN users /\ Len(users') = Len(users)
  /\ \A v \in DOMAIN users : users'[v] = IF v = u THEN new ELSE users[v]

LEMMA PutInPlace ==
  ASSUME users \in Seq(Account), NEW u, NEW new \in Account, users' = [users EXCEPT ![u] = new]
  PROVE  UserBecomes(u, new)
<1> DEFINE t == [users EXCEPT ![u] = new]
<1>1. /\ t \in Seq(Account) /\ DOMAIN t = DOMAIN users /\ Len(t) = Len(users)
      /\ \A v \in DOMAIN users : t[v] = IF v = u THEN new ELSE users[v]
  BY SetEntry, Zenon
<1>2. users' = t
  OBVIOUS
<1> HIDE DEF t
<1> QED BY <1>1, <1>2 DEF UserBecomes

LEMMA FactorTyped ==
  ASSUME NEW q \in Requests
  PROVE  /\ NoFactor \in [on : BOOLEAN, codes : SUBSET RecoveryCode]
         /\ Fresh(q) \in SUBSET RecoveryCode
         /\ [on |-> TRUE, codes |-> Fresh(q)] \in [on : BOOLEAN, codes : SUBSET RecoveryCode]
BY SecondFactorAssumptions DEF NoFactor, Fresh, RecoveryCode

LEMMA NewUserTyped ==
  ASSUME NEW email \in Addressed, NEW password \in BOOLEAN
  PROVE  NewUser(email, password) \in Account
<1>1. NoFactor \in [on : BOOLEAN, codes : SUBSET (Requests \X Nat)]
  BY DEF NoFactor
<1>2. (email \in AdminEmails) \in BOOLEAN
  OBVIOUS
<1> QED BY <1>1, <1>2 DEF NewUser, Account, Addressed

LEMMA EmailBecomes ==
  ASSUME AccountTypes, NEW u, NEW email \in Addressed,
         users' = [users EXCEPT ![u].email = email]
  PROVE  LET a == users[u] IN
         UserBecomes(u, AccountOf(email, a.password, a.live, a.admin, a.toggled, a.factor))
<1> DEFINE a == users[u]
           new == AccountOf(email, a.password, a.live, a.admin, a.toggled, a.factor)
<1>1. CASE u \notin DOMAIN users
  <2>1. users' = users
    BY <1>1 DEF AccountTypes
  <2> QED BY <1>1, <2>1 DEF UserBecomes, AccountTypes
<1>2. CASE u \in DOMAIN users
  <2>1. a \in Account
    BY <1>2 DEF AccountTypes
  <2>2. new \in Account
    BY <2>1 DEF Account, AccountOf, RecoveryCode, NoFactor, Addressed
  <2>3. a = AccountOf(a.email, a.password, a.live, a.admin, a.toggled, a.factor)
    BY <2>1 DEF Account, AccountOf
  <2>4. [AccountOf(a.email, a.password, a.live, a.admin, a.toggled, a.factor) EXCEPT !.email = email]
          = AccountOf(email, a.password, a.live, a.admin, a.toggled, a.factor)
    BY DEF AccountOf
  <2>5. users' = [users EXCEPT ![u] = [a EXCEPT !.email = email]]
    BY <1>2, <2>1 DEF Account
  <2>6. users' = [users EXCEPT ![u] = new]
    BY <2>3, <2>4, <2>5
  <2> HIDE DEF new
  <2>7. users \in Seq(Account)
    BY DEF AccountTypes
  <2>8. UserBecomes(u, new)
    BY <2>2, <2>6, <2>7, PutInPlace
  <2> QED BY <2>8 DEF new
<1> QED BY <1>1, <1>2

LEMMA PasswordBecomes ==
  ASSUME AccountTypes, NEW u, NEW is \in BOOLEAN,
         users' = [users EXCEPT ![u].password = is]
  PROVE  LET a == users[u] IN
         UserBecomes(u, AccountOf(a.email, is, a.live, a.admin, a.toggled, a.factor))
<1> DEFINE a == users[u]
           new == AccountOf(a.email, is, a.live, a.admin, a.toggled, a.factor)
<1>1. CASE u \notin DOMAIN users
  <2>1. users' = users
    BY <1>1 DEF AccountTypes
  <2> QED BY <1>1, <2>1 DEF UserBecomes, AccountTypes
<1>2. CASE u \in DOMAIN users
  <2>1. a \in Account
    BY <1>2 DEF AccountTypes
  <2>2. new \in Account
    BY <2>1 DEF Account, AccountOf, RecoveryCode, NoFactor, Addressed
  <2>3. a = AccountOf(a.email, a.password, a.live, a.admin, a.toggled, a.factor)
    BY <2>1 DEF Account, AccountOf
  <2>4. [AccountOf(a.email, a.password, a.live, a.admin, a.toggled, a.factor) EXCEPT !.password = is]
          = AccountOf(a.email, is, a.live, a.admin, a.toggled, a.factor)
    BY DEF AccountOf
  <2>5. users' = [users EXCEPT ![u] = [a EXCEPT !.password = is]]
    BY <1>2, <2>1 DEF Account
  <2>6. users' = [users EXCEPT ![u] = new]
    BY <2>3, <2>4, <2>5
  <2> HIDE DEF new
  <2>7. users \in Seq(Account)
    BY DEF AccountTypes
  <2>8. UserBecomes(u, new)
    BY <2>2, <2>6, <2>7, PutInPlace
  <2> QED BY <2>8 DEF new
<1> QED BY <1>1, <1>2

LEMMA AdminBecomes ==
  ASSUME AccountTypes, NEW u, NEW is \in BOOLEAN,
         users' = [users EXCEPT ![u].admin = is]
  PROVE  LET a == users[u] IN
         UserBecomes(u, AccountOf(a.email, a.password, a.live, is, a.toggled, a.factor))
<1> DEFINE a == users[u]
           new == AccountOf(a.email, a.password, a.live, is, a.toggled, a.factor)
<1>1. CASE u \notin DOMAIN users
  <2>1. users' = users
    BY <1>1 DEF AccountTypes
  <2> QED BY <1>1, <2>1 DEF UserBecomes, AccountTypes
<1>2. CASE u \in DOMAIN users
  <2>1. a \in Account
    BY <1>2 DEF AccountTypes
  <2>2. new \in Account
    BY <2>1 DEF Account, AccountOf, RecoveryCode, NoFactor, Addressed
  <2>3. a = AccountOf(a.email, a.password, a.live, a.admin, a.toggled, a.factor)
    BY <2>1 DEF Account, AccountOf
  <2>4. [AccountOf(a.email, a.password, a.live, a.admin, a.toggled, a.factor) EXCEPT !.admin = is]
          = AccountOf(a.email, a.password, a.live, is, a.toggled, a.factor)
    BY DEF AccountOf
  <2>5. users' = [users EXCEPT ![u] = [a EXCEPT !.admin = is]]
    BY <1>2, <2>1 DEF Account
  <2>6. users' = [users EXCEPT ![u] = new]
    BY <2>3, <2>4, <2>5
  <2> HIDE DEF new
  <2>7. users \in Seq(Account)
    BY DEF AccountTypes
  <2>8. UserBecomes(u, new)
    BY <2>2, <2>6, <2>7, PutInPlace
  <2> QED BY <2>8 DEF new
<1> QED BY <1>1, <1>2

LEMMA FactorBecomes ==
  ASSUME AccountTypes, NEW u, NEW factor \in [on : BOOLEAN, codes : SUBSET RecoveryCode],
         users' = [users EXCEPT ![u].factor = factor]
  PROVE  LET a == users[u] IN
         UserBecomes(u, AccountOf(a.email, a.password, a.live, a.admin, a.toggled, factor))
<1> DEFINE a == users[u]
           new == AccountOf(a.email, a.password, a.live, a.admin, a.toggled, factor)
<1>1. CASE u \notin DOMAIN users
  <2>1. users' = users
    BY <1>1 DEF AccountTypes
  <2> QED BY <1>1, <2>1 DEF UserBecomes, AccountTypes
<1>2. CASE u \in DOMAIN users
  <2>1. a \in Account
    BY <1>2 DEF AccountTypes
  <2>2. new \in Account
    BY <2>1 DEF Account, AccountOf, RecoveryCode, NoFactor, Addressed
  <2>3. a = AccountOf(a.email, a.password, a.live, a.admin, a.toggled, a.factor)
    BY <2>1 DEF Account, AccountOf
  <2>4. [AccountOf(a.email, a.password, a.live, a.admin, a.toggled, a.factor) EXCEPT !.factor = factor]
          = AccountOf(a.email, a.password, a.live, a.admin, a.toggled, factor)
    BY DEF AccountOf
  <2>5. users' = [users EXCEPT ![u] = [a EXCEPT !.factor = factor]]
    BY <1>2, <2>1 DEF Account
  <2>6. users' = [users EXCEPT ![u] = new]
    BY <2>3, <2>4, <2>5
  <2> HIDE DEF new
  <2>7. users \in Seq(Account)
    BY DEF AccountTypes
  <2>8. UserBecomes(u, new)
    BY <2>2, <2>6, <2>7, PutInPlace
  <2> QED BY <2>8 DEF new
<1> QED BY <1>1, <1>2

LEMMA DeletedBecomes ==
  ASSUME AccountTypes, NEW u, NEW is \in BOOLEAN, NEW factor \in [on : BOOLEAN, codes : SUBSET RecoveryCode],
         users' = [users EXCEPT ![u].live = is, ![u].factor = factor]
  PROVE  LET a == users[u] IN
         UserBecomes(u, AccountOf(a.email, a.password, is, a.admin, a.toggled, factor))
<1> DEFINE a == users[u]
           new == AccountOf(a.email, a.password, is, a.admin, a.toggled, factor)
<1>1. CASE u \notin DOMAIN users
  <2>1. users' = users
    BY <1>1 DEF AccountTypes
  <2> QED BY <1>1, <2>1 DEF UserBecomes, AccountTypes
<1>2. CASE u \in DOMAIN users
  <2>1. a \in Account
    BY <1>2 DEF AccountTypes
  <2>2. new \in Account
    BY <2>1 DEF Account, AccountOf, RecoveryCode, NoFactor, Addressed
  <2>3. a = AccountOf(a.email, a.password, a.live, a.admin, a.toggled, a.factor)
    BY <2>1 DEF Account, AccountOf
  <2>4. [AccountOf(a.email, a.password, a.live, a.admin, a.toggled, a.factor) EXCEPT !.live = is]
          = AccountOf(a.email, a.password, is, a.admin, a.toggled, a.factor)
    BY DEF AccountOf
  <2>5. [AccountOf(a.email, a.password, is, a.admin, a.toggled, a.factor) EXCEPT !.factor = factor]
          = AccountOf(a.email, a.password, is, a.admin, a.toggled, factor)
    BY DEF AccountOf
  <2> DEFINE first == [a EXCEPT !.live = is]
  <2>6. users' = [users EXCEPT ![u] = [first EXCEPT !.factor = factor]]
    BY <1>2 DEF AccountTypes
  <2> HIDE DEF first
  <2>7. users' = [users EXCEPT ![u] = new]
    BY <2>3, <2>4, <2>5, <2>6 DEF first
  <2> HIDE DEF new
  <2>8. users \in Seq(Account)
    BY DEF AccountTypes
  <2>9. UserBecomes(u, new)
    BY <2>2, <2>7, <2>8, PutInPlace
  <2> QED BY <2>9 DEF new
<1> QED BY <1>1, <1>2

LEMMA LockBecomes ==
  ASSUME AccountTypes, NEW u, NEW is \in BOOLEAN, NEW was \in BOOLEAN,
         users' = [users EXCEPT ![u].live = is, ![u].toggled = was]
  PROVE  LET a == users[u] IN UserBecomes(u, AccountOf(a.email, a.password, is, a.admin, was, a.factor))
<1> DEFINE a == users[u]
           new == AccountOf(a.email, a.password, is, a.admin, was, a.factor)
<1>1. CASE u \notin DOMAIN users
  <2>1. users' = users
    BY <1>1 DEF AccountTypes
  <2> QED BY <1>1, <2>1 DEF UserBecomes, AccountTypes
<1>2. CASE u \in DOMAIN users
  <2>1. a \in Account
    BY <1>2 DEF AccountTypes
  <2>2. new \in Account
    BY <2>1 DEF Account, AccountOf, RecoveryCode, NoFactor, Addressed
  <2>3. a = AccountOf(a.email, a.password, a.live, a.admin, a.toggled, a.factor)
    BY <2>1 DEF Account, AccountOf
  <2>4. [AccountOf(a.email, a.password, a.live, a.admin, a.toggled, a.factor) EXCEPT !.live = is]
          = AccountOf(a.email, a.password, is, a.admin, a.toggled, a.factor)
    BY DEF AccountOf
  <2>5. [AccountOf(a.email, a.password, is, a.admin, a.toggled, a.factor) EXCEPT !.toggled = was]
          = AccountOf(a.email, a.password, is, a.admin, was, a.factor)
    BY DEF AccountOf
  <2> DEFINE first == [a EXCEPT !.live = is]
  <2>6. users' = [users EXCEPT ![u] = [first EXCEPT !.toggled = was]]
    BY <1>2 DEF AccountTypes
  <2> HIDE DEF first
  <2>7. users' = [users EXCEPT ![u] = new]
    BY <2>3, <2>4, <2>5, <2>6 DEF first
  <2> HIDE DEF new
  <2>8. users \in Seq(Account)
    BY DEF AccountTypes
  <2>9. UserBecomes(u, new)
    BY <2>2, <2>7, <2>8, PutInPlace
  <2> QED BY <2>9 DEF new
<1> QED BY <1>1, <1>2

LEMMA CodesBecome ==
  ASSUME AccountTypes, NEW u, NEW left \in SUBSET RecoveryCode,
         users' = [users EXCEPT ![u].factor.codes = left]
  PROVE  LET a == users[u] IN
         UserBecomes(u, AccountOf(a.email, a.password, a.live, a.admin, a.toggled, [a.factor EXCEPT !.codes = left]))
<1> DEFINE a == users[u]
           new == AccountOf(a.email, a.password, a.live, a.admin, a.toggled, [a.factor EXCEPT !.codes = left])
<1>1. CASE u \notin DOMAIN users
  <2>1. users' = users
    BY <1>1 DEF AccountTypes
  <2> QED BY <1>1, <2>1 DEF UserBecomes, AccountTypes
<1>2. CASE u \in DOMAIN users
  <2>1. a \in Account
    BY <1>2 DEF AccountTypes
  <2>2. new \in Account
    BY <2>1 DEF Account, AccountOf, RecoveryCode, NoFactor, Addressed
  <2>3. a = AccountOf(a.email, a.password, a.live, a.admin, a.toggled, a.factor)
    BY <2>1 DEF Account, AccountOf
  <2>4. [AccountOf(a.email, a.password, a.live, a.admin, a.toggled, a.factor) EXCEPT !.factor = [a.factor EXCEPT !.codes = left]]
          = AccountOf(a.email, a.password, a.live, a.admin, a.toggled, [a.factor EXCEPT !.codes = left])
    BY DEF AccountOf
  <2>5. users' = [users EXCEPT ![u] = [a EXCEPT !.factor = [a.factor EXCEPT !.codes = left]]]
    BY <1>2, <2>1 DEF Account
  <2>6. users' = [users EXCEPT ![u] = new]
    BY <2>3, <2>4, <2>5
  <2> HIDE DEF new
  <2>7. users \in Seq(Account)
    BY DEF AccountTypes
  <2>8. UserBecomes(u, new)
    BY <2>2, <2>6, <2>7, PutInPlace
  <2> QED BY <2>8 DEF new
<1> QED BY <1>1, <1>2

LEMMA LockFlips ==
  ASSUME AccountTypes, NEW u,
         users' = [users EXCEPT ![u].live = ~@, ![u].toggled = TRUE]
  PROVE  LET a == users[u] IN
         UserBecomes(u, AccountOf(a.email, a.password, ~a.live, a.admin, TRUE, a.factor))
<1> DEFINE is == ~users[u].live
<1>1. is \in BOOLEAN /\ TRUE \in BOOLEAN
  OBVIOUS
<1>2. users' = [users EXCEPT ![u].live = is, ![u].toggled = TRUE]
  OBVIOUS
<1> HIDE DEF is
<1>3. UserBecomes(u, AccountOf(users[u].email, users[u].password, is, users[u].admin, TRUE,
                               users[u].factor))
  BY <1>1, <1>2, LockBecomes
<1> QED BY <1>3 DEF is

LEMMA GetsPassword ==
  ASSUME AccountTypes, NEW u, users' = [users EXCEPT ![u].password = TRUE]
  PROVE  LET a == users[u] IN
         UserBecomes(u, AccountOf(a.email, TRUE, a.live, a.admin, a.toggled, a.factor))
BY PasswordBecomes

LEMMA IsDeleted ==
  ASSUME AccountTypes, NEW u, users' = [users EXCEPT ![u].live = FALSE, ![u].factor = NoFactor]
  PROVE  LET a == users[u] IN
         UserBecomes(u, AccountOf(a.email, a.password, FALSE, a.admin, a.toggled, NoFactor))
<1>1. NoFactor \in [on : BOOLEAN, codes : SUBSET RecoveryCode]
  BY DEF NoFactor
<1> QED BY <1>1, DeletedBecomes

-----------------------------------------------------------------------------
(* Types.                                                                  *)
LocalTyped == DOMAIN local' \subseteq Requests /\ local' \in [DOMAIN local' -> LocalState]

LEMMA GetsTyped ==
  ASSUME AccountTypes, NEW q \in DOMAIN local, NEW state \in LocalState, Gets(q, state)
  PROVE  LocalTyped
<1>1. \A r \in DOMAIN local : local'[r] \in LocalState
  BY DEF Gets, AccountTypes
<1>2. DOMAIN local' = DOMAIN local /\ local' = [r \in DOMAIN local |-> local'[r]]
  BY DEF Gets
<1> QED BY <1>1, <1>2 DEF LocalTyped, AccountTypes

LEMMA StateTyped ==
  ASSUME AccountTypes, NEW q \in DOMAIN local, NEW pc \in Pcs
  PROVE  LET l == local[q] IN
  /\ l \in LocalState
  /\ \A user \in Nat, admin \in BOOLEAN, token \in Session :
       StateOf(pc, user, admin, l.pending, l.row, l.kind, token, l.code) \in LocalState
  /\ \A user \in Nat, admin \in BOOLEAN, kind \in Kinds :
       StateOf(pc, user, admin, l.pending, l.row, kind, l.token, l.code) \in LocalState
  /\ \A user \in Nat, pending \in Pending :
       StateOf(pc, user, l.admin, pending, l.row, l.kind, l.token, l.code) \in LocalState
  /\ \A row \in Identity :
       StateOf(pc, l.user, l.admin, l.pending, row, l.kind, l.token, l.code) \in LocalState
  /\ \A user \in Nat, token \in Session :
       StateOf(pc, user, l.admin, l.pending, l.row, l.kind, token, l.code) \in LocalState
  /\ \A code \in RecoveryCode :
       StateOf(pc, l.user, l.admin, l.pending, l.row, l.kind, l.token, code) \in LocalState
<1>1. local[q] \in LocalState
  BY DEF AccountTypes
<1> QED BY <1>1 DEF LocalState, StateOf

LEMMA GoesTyped ==
  ASSUME AccountTypes, NEW q \in DOMAIN local, NEW pc \in Pcs, Goes(q, pc)
  PROVE  LocalTyped
<1> DEFINE l == local[q]
           new == StateOf(pc, l.user, l.admin, l.pending, l.row, l.kind, l.token, l.code)
<1>1. l \in LocalState /\ l.user \in Nat /\ l.pending \in Pending
  BY DEF AccountTypes, LocalState
<1>2. new \in LocalState
  BY <1>1, StateTyped
<1>3. Gets(q, new)
  BY GoesTo
<1> HIDE DEF new
<1> QED BY <1>2, <1>3, GetsTyped

LEMMA ReadsUserTyped ==
  ASSUME AccountTypes, NEW q \in DOMAIN local, NEW pc \in Pcs, NEW user \in Nat,
         ReadsUser(q, pc, user)
  PROVE  LocalTyped
<1> DEFINE l == local[q]
           new == StateOf(pc, user, l.admin, l.pending, l.row, l.kind, l.token, l.code)
<1>1. l \in LocalState /\ l.pending \in Pending
  BY DEF AccountTypes, LocalState
<1>2. new \in LocalState
  BY <1>1, StateTyped
<1>3. Gets(q, new)
  BY ReadsUserTo
<1> HIDE DEF new
<1> QED BY <1>2, <1>3, GetsTyped

LEMMA ReadsPendingTyped ==
  ASSUME AccountTypes, NEW q \in DOMAIN local, NEW pc \in Pcs, NEW p \in Pending,
         ReadsPending(q, pc, p)
  PROVE  LocalTyped
<1> DEFINE l == local[q]
           new == StateOf(pc, l.user, l.admin, p, l.row, l.kind, l.token, l.code)
<1>1. l \in LocalState /\ l.user \in Nat
  BY DEF AccountTypes, LocalState
<1>2. new \in LocalState
  BY <1>1, StateTyped
<1>3. Gets(q, new)
  BY ReadsPendingTo
<1> HIDE DEF new
<1> QED BY <1>2, <1>3, GetsTyped

LEMMA ReadsRowTyped ==
  ASSUME AccountTypes, NEW q \in DOMAIN local, NEW pc \in Pcs, NEW found \in Identity,
         ReadsRow(q, pc, found)
  PROVE  LocalTyped
<1> DEFINE l == local[q]
           new == StateOf(pc, l.user, l.admin, l.pending, found, l.kind, l.token, l.code)
<1>1. new \in LocalState
  BY StateTyped
<1>2. Gets(q, new)
  BY ReadsRowTo
<1> HIDE DEF new
<1> QED BY <1>1, <1>2, GetsTyped

LEMMA PcsAre ==
  /\ \A op \in Ops : op \in Pcs
  /\ \A pc \in {"ready", "done", "issue", "pend", "spend", "write", "owner", "stale", "email",
                "create", "in", "check", "others", "find", "prove", "session", "look", "push",
                "replace", "enable", "totp", "recovery", "rotate"} : pc \in Pcs
BY DEF Pcs, Nobodys

LEMMA NextStepTyped ==
  ASSUME NEW op \in Ops, NEW admin \in BOOLEAN
  PROVE  NextStep(op, admin) \in Pcs
<1>1. op \in Pcs /\ "check" \in Pcs /\ "others" \in Pcs /\ "delete" \in Pcs /\ "find" \in Pcs
  BY PcsAre DEF Ops, Private
<1>2. \/ NextStep(op, admin) = "check" \/ NextStep(op, admin) = "others"
      \/ NextStep(op, admin) = "delete" \/ NextStep(op, admin) = "find"
      \/ NextStep(op, admin) = op
  BY DEF NextStep, Admin
<1> QED BY <1>1, <1>2

(* The first account of some.                                              *)
LEMMA FirstAccount ==
  ASSUME AccountTypes, NEW named \in SUBSET DOMAIN users, named # {}
  PROVE  Min(named) \in named /\ Min(named) \in DOMAIN users /\ Min(named) \in Nat
<1>1. DOMAIN users = 1..Len(users) /\ Len(users) \in Nat
  BY DEF AccountTypes
<1>2. named \in SUBSET Nat
  BY <1>1
<1>3. Min(named) \in named
  BY <1>2, MinIsIn
<1> QED BY <1>2, <1>3

LEMMA GoersGo ==
  ASSUME AccountTypes, NEW q \in DOMAIN local,
         \/ Prove(q) \/ Ends(q) \/ StartRegistration(q) \/ IssueCode(q) \/ PendRegistration(q)
         \/ VerifyCode(q) \/ CreateUser(q) \/ AskEmailChange(q) \/ PendEmailChange(q)
         \/ ChangeEmail(q) \/ ChangePassword(q) \/ SoftDelete(q) \/ Others(q) \/ SetRole(q)
         \/ ToggleLock(q) \/ OpenSession(q) \/ DropIdentity(q) \/ PushIdentity(q)
         \/ UnlinkIdentity(q) \/ ReplaceReset(q) \/ WriteReset(q) \/ Enroll(q)
         \/ ReadEnrolment(q) \/ EnableFactor(q) \/ DisableFactor(q) \/ RegenerateCodes(q)
         \/ VerifyTotp(q) \/ RotateSession(q)
  PROVE  LocalTyped
<1> SUFFICES \E pc \in Pcs : Goes(q, pc)
  BY GoesTyped
<1>1. q \in Requests /\ q.op \in Pcs /\ q.op \in Ops
  BY RequestTyped, PcsAre DEF AccountTypes
<1>2. CASE Prove(q)
  <2>1. local[q].admin \in BOOLEAN
    BY DEF AccountTypes, LocalState
  <2>2. NextStep(q.op, local[q].admin) \in Pcs
    BY <1>1, <2>1, NextStepTyped
  <2> QED BY <1>2, <2>2 DEF Prove
<1>3. CASE \/ Ends(q) \/ StartRegistration(q) \/ IssueCode(q) \/ PendRegistration(q)
           \/ CreateUser(q) \/ AskEmailChange(q) \/ PendEmailChange(q)
  BY <1>3, PcsAre DEF Ends, StartRegistration, IssueCode, PendRegistration, CreateUser,
                      AskEmailChange, PendEmailChange
<1>4. CASE VerifyCode(q)
  <2>1. Goes(q, "done") \/ Goes(q, "write")
    BY <1>4 DEF VerifyCode
  <2> QED BY <2>1, PcsAre
<1>5. CASE ChangeEmail(q) \/ ChangePassword(q) \/ SoftDelete(q) \/ Others(q) \/ SetRole(q)
           \/ ToggleLock(q) \/ OpenSession(q)
  BY <1>1, <1>5, PcsAre DEF ChangeEmail, ChangePassword, SoftDelete, Others, SetRole, ToggleLock,
                            OpenSession
<1>6. CASE DropIdentity(q) \/ PushIdentity(q)
  <2>1. Goes(q, "push") \/ Goes(q, "email") \/ Goes(q, "look") \/ Goes(q, "done")
    BY <1>6 DEF DropIdentity, PushIdentity
  <2> QED BY <2>1, PcsAre
<1>7. CASE \/ UnlinkIdentity(q) \/ ReplaceReset(q) \/ WriteReset(q) \/ Enroll(q)
           \/ ReadEnrolment(q) \/ DisableFactor(q) \/ RegenerateCodes(q)
           \/ VerifyTotp(q) \/ RotateSession(q)
  BY <1>7, PcsAre DEF UnlinkIdentity, ReplaceReset, WriteReset, Enroll, ReadEnrolment,
                      DisableFactor, RegenerateCodes, VerifyTotp, RotateSession
<1>8. CASE EnableFactor(q)
  <2>1. Goes(q, "rotate") \/ Goes(q, "done")
    BY <1>8 DEF EnableFactor
  <2> QED BY <2>1, PcsAre
<1> QED BY <1>2, <1>3, <1>4, <1>5, <1>6, <1>7, <1>8

LEMMA ReadersRead ==
  ASSUME AccountTypes, NEW q \in DOMAIN local,
         \/ VerifyRegistration(q) \/ ConfirmEmailChange(q) \/ FindIdentity(q) \/ FindOwner(q)
         \/ FindEmail(q) \/ CreateFromOAuth(q) \/ RequestReset(q)
  PROVE  LocalTyped
<1>1. /\ pendReg \subseteq Pending /\ pendChange \subseteq Pending /\ idents \subseteq Identity
      /\ local[q].row.user \in Nat /\ Len(users) + 1 \in Nat
  BY DEF AccountTypes, Pending, LocalState, NoRow, Identity
<1>2. CASE VerifyRegistration(q) \/ ConfirmEmailChange(q)
  <2>1. \E p \in Pending : ReadsPending(q, "spend", p)
    BY <1>1, <1>2 DEF VerifyRegistration, ConfirmEmailChange
  <2> QED BY <2>1, PcsAre, ReadsPendingTyped
<1>3. CASE FindIdentity(q)
  <2>1. \/ Goes(q, "push") \/ Goes(q, "email")
        \/ \E row \in Identity : ReadsRow(q, "owner", row)
    BY <1>1, <1>3 DEF FindIdentity
  <2> QED BY <2>1, PcsAre, GoesTyped, ReadsRowTyped
<1>4. CASE FindOwner(q)
  <2>1. \/ Goes(q, "stale") \/ Goes(q, "look") \/ Goes(q, "done")
        \/ ReadsUser(q, "look", local[q].row.user)
    BY <1>4 DEF FindOwner
  <2> QED BY <1>1, <2>1, PcsAre, GoesTyped, ReadsUserTyped
<1>5. CASE FindEmail(q)
  <2> DEFINE named == {u \in LiveUsers : q.email # NoEmail /\ users[u].email = q.email}
  <2>1. Goes(q, "create") \/ (named # {} /\ ReadsUser(q, "find", Min(named)))
    BY <1>5 DEF FindEmail
  <2>2. named \in SUBSET DOMAIN users
    BY DEF LiveUsers
  <2> HIDE DEF named
  <2>3. named # {} => Min(named) \in Nat
    BY <2>2, FirstAccount
  <2> QED BY <2>1, <2>3, PcsAre, GoesTyped, ReadsUserTyped
<1>6. CASE CreateFromOAuth(q)
  <2>1. ReadsUser(q, "look", Len(users) + 1)
    BY <1>6 DEF CreateFromOAuth
  <2> QED BY <1>1, <2>1, PcsAre, ReadsUserTyped
<1>7. CASE RequestReset(q)
  <2> DEFINE named == {u \in LiveUsers : users[u].email = q.email}
  <2>1. named # {} /\ ReadsUser(q, "replace", Min(named))
    BY <1>7 DEF RequestReset
  <2>2. named \in SUBSET DOMAIN users
    BY DEF LiveUsers
  <2> HIDE DEF named
  <2>3. Min(named) \in Nat
    BY <2>1, <2>2, FirstAccount
  <2> QED BY <2>1, <2>3, PcsAre, ReadsUserTyped
<1> QED BY <1>2, <1>3, <1>4, <1>5, <1>6, <1>7

-----------------------------------------------------------------------------
(* Requests that read more than one thing.                                 *)
Still == UNCHANGED <<users, idents, made, codes, pendReg, pendChange, resets, enrolling,
                     sessions, passed, overlapped>>

AuthenticatesAs(q, s, pc) ==
  LET l == local[q] IN
  /\ s \in sessions /\ pc \in Asked(q.op, s.user)
  /\ q.op \in Private /\ l.pc = "ready"
  /\ s.kind = "full" \/ (s.kind = "enrol" /\ q.op \in Enrols)
  /\ q.op \in Admin => users[s.user].admin
  /\ q.op = "enroll" => ~On(s.user)
  /\ q.op \in {"disable", "regenerate"} => On(s.user)
  /\ Gets(q, StateOf(pc, s.user, users[s.user].admin, l.pending, l.row, l.kind, s, l.code))
  /\ Still

LEMMA AuthenticateEffect ==
  ASSUME AccountTypes, NEW q \in DOMAIN local, Authenticate(q)
  PROVE  \E s \in sessions : \E pc \in Asked(q.op, s.user) : AuthenticatesAs(q, s, pc)
<1>0. PICK s \in sessions : \E pc \in Asked(q.op, s.user) :
        /\ q.op \in Private /\ local[q].pc = "ready"
        /\ s.kind = "full" \/ (s.kind = "enrol" /\ q.op \in Enrols)
        /\ q.op \in Admin => users[s.user].admin
        /\ q.op = "enroll" => ~On(s.user)
        /\ q.op \in {"disable", "regenerate"} => On(s.user)
        /\ local' = [local EXCEPT ![q].pc = pc, ![q].user = s.user,
                                  ![q].admin = users[s.user].admin, ![q].token = s]
        /\ UNCHANGED <<accounts, pendings, sessions, overlaps>>
  BY DEF Authenticate
<1>1. PICK pc \in Asked(q.op, s.user) :
        /\ q.op \in Private /\ local[q].pc = "ready"
        /\ s.kind = "full" \/ (s.kind = "enrol" /\ q.op \in Enrols)
        /\ q.op \in Admin => users[s.user].admin
        /\ q.op = "enroll" => ~On(s.user)
        /\ q.op \in {"disable", "regenerate"} => On(s.user)
        /\ local' = [local EXCEPT ![q].pc = pc, ![q].user = s.user,
                                  ![q].admin = users[s.user].admin, ![q].token = s]
        /\ UNCHANGED <<accounts, pendings, sessions, overlaps>>
  BY <1>0
<1>2. LET l == local[q] IN
      Gets(q, StateOf(pc, s.user, users[s.user].admin, l.pending, l.row, l.kind, s, l.code))
  BY <1>1, AuthenticatesTo
<1>3. Still
  BY <1>1 DEF Still, accounts, pendings, overlaps
<1> QED BY <1>1, <1>2, <1>3 DEF AuthenticatesAs

LoginKind(q, u) == IF On(u) THEN "second" ELSE IF q.email \in AdminEmails THEN "enrol" ELSE "full"

LogsInAs(q, u) ==
  LET l == local[q] IN
  /\ At(q, "login", "ready")
  /\ u \in DOMAIN users /\ users[u].email = q.email /\ users[u].live /\ users[u].password
  /\ Gets(q, StateOf("session", u, users[u].admin, l.pending, l.row, LoginKind(q, u), l.token, l.code))
  /\ Still

LEMMA LoginEffect ==
  ASSUME AccountTypes, NEW q \in DOMAIN local, Login(q)
  PROVE  \E u \in DOMAIN users : LogsInAs(q, u)
<1> DEFINE named == {u \in DOMAIN users : users[u].email = q.email}
           u == Min(named)
           kind == CASE On(u) -> "second"
                     [] ~On(u) /\ q.email \in AdminEmails -> "enrol"
                     [] OTHER -> "full"
<1>1. /\ At(q, "login", "ready") /\ named # {}
      /\ users[u].live /\ users[u].password
      /\ local' = [local EXCEPT ![q].pc = "session", ![q].user = u, ![q].kind = kind,
                                ![q].admin = users[u].admin]
      /\ UNCHANGED <<accounts, pendings, sessions, overlaps>>
  BY DEF Login
<1>2. named \in SUBSET DOMAIN users
  OBVIOUS
<1>3. u \in named /\ u \in DOMAIN users
  <2> HIDE DEF named
  <2> QED BY <1>1, <1>2, FirstAccount
<1>4. users[u].email = q.email
  BY <1>3
<1> HIDE DEF u, named
<1>5. kind = LoginKind(q, u)
  BY DEF LoginKind
<1> HIDE DEF kind
<1>6. LET l == local[q] IN
      Gets(q, StateOf("session", u, users[u].admin, l.pending, l.row, kind, l.token, l.code))
  BY <1>1, LogsInTo
<1>7. Still
  BY <1>1 DEF Still, accounts, pendings, overlaps
<1>8. LogsInAs(q, u)
  BY <1>1, <1>3, <1>4, <1>5, <1>6, <1>7 DEF LogsInAs
<1> QED BY <1>3, <1>8

LEMMA LookEffect ==
  ASSUME AccountTypes, NEW q \in DOMAIN local, LookForFactor(q)
  PROVE  LET l == local[q] IN
         /\ At(q, "oauth", "look") /\ Still
         /\ Gets(q, StateOf("session", l.user, l.admin, l.pending, l.row,
                            IF On(l.user) THEN "second" ELSE "full", l.token, l.code))
<1> DEFINE l == local[q]
           kind == IF On(l.user) THEN "second" ELSE "full"
<1>1. /\ At(q, "oauth", "look")
      /\ local' = [local EXCEPT ![q].pc = "session", ![q].kind = kind]
      /\ UNCHANGED <<accounts, pendings, sessions, overlaps>>
  BY DEF LookForFactor
<1>2. Still
  BY <1>1 DEF Still, accounts, pendings, overlaps
<1> HIDE DEF kind
<1>3. Gets(q, StateOf("session", l.user, l.admin, l.pending, l.row, kind, l.token, l.code))
  BY <1>1, LooksTo
<1> QED BY <1>1, <1>2, <1>3 DEF kind

ConfirmsReset(q, r) ==
  LET l == local[q] IN
  /\ At(q, "reset", "ready") /\ r \in resets /\ ~r.used /\ r.user \in LiveUsers
  /\ Gets(q, StateOf("write", r.user, l.admin, r, l.row, l.kind, l.token, l.code))
  /\ Still

LEMMA ConfirmResetEffect ==
  ASSUME AccountTypes, NEW q \in DOMAIN local, ConfirmReset(q)
  PROVE  \E r \in resets : ConfirmsReset(q, r)
<1>1. PICK r \in resets :
        /\ At(q, "reset", "ready") /\ ~r.used /\ r.user \in LiveUsers
        /\ local' = [local EXCEPT ![q].pc = "write", ![q].pending = r, ![q].user = r.user]
        /\ UNCHANGED <<accounts, pendings, sessions, overlaps>>
  BY DEF ConfirmReset
<1>2. LET l == local[q] IN
      Gets(q, StateOf("write", r.user, l.admin, r, l.row, l.kind, l.token, l.code))
  BY <1>1, ResetsTo
<1>3. Still
  BY <1>1 DEF Still, accounts, pendings, overlaps
<1> QED BY <1>1, <1>2, <1>3 DEF ConfirmsReset

FindsPending(q, s, pc) ==
  LET l == local[q] IN
  /\ At(q, "second", "ready") /\ s \in sessions /\ s.kind = "second" /\ pc \in {"totp", "recovery"}
  /\ Gets(q, StateOf(pc, s.user, l.admin, l.pending, l.row, l.kind, s, l.code))
  /\ Still

LEMMA FindPendingEffect ==
  ASSUME AccountTypes, NEW q \in DOMAIN local, FindPending(q)
  PROVE  \E s \in sessions, pc \in {"totp", "recovery"} : FindsPending(q, s, pc)
<1>1. PICK s \in sessions, pc \in {"totp", "recovery"} :
        /\ At(q, "second", "ready") /\ s.kind = "second"
        /\ local' = [local EXCEPT ![q].pc = pc, ![q].user = s.user, ![q].token = s]
        /\ UNCHANGED <<accounts, pendings, sessions, overlaps>>
  BY DEF FindPending
<1>2. LET l == local[q] IN
      Gets(q, StateOf(pc, s.user, l.admin, l.pending, l.row, l.kind, s, l.code))
  BY <1>1, FindsTo
<1>3. Still
  BY <1>1 DEF Still, accounts, pendings, overlaps
<1> QED BY <1>1, <1>2, <1>3 DEF FindsPending

Consumes(q, code) ==
  LET l == local[q] IN
  /\ At(q, "second", "recovery") /\ On(l.user) /\ code \in users[l.user].factor.codes
  /\ Writes(q)
  /\ users' = [users EXCEPT ![l.user].factor.codes = users[l.user].factor.codes \ {code}]
  /\ Gets(q, StateOf("rotate", l.user, l.admin, l.pending, l.row, l.kind, l.token, code))
  /\ UNCHANGED <<idents, made, codes, pendReg, pendChange, resets, enrolling, sessions>>

LEMMA ConsumeEffect ==
  ASSUME AccountTypes, NEW q \in DOMAIN local, ConsumeRecoveryCode(q)
  PROVE  \E code \in users[local[q].user].factor.codes : Consumes(q, code)
<1>1. PICK code \in users[local[q].user].factor.codes :
        /\ users' = [users EXCEPT ![local[q].user].factor.codes = @ \ {code}]
        /\ local' = [local EXCEPT ![q].pc = "rotate", ![q].code = code]
  BY DEF ConsumeRecoveryCode
<1>2. LET l == local[q] IN
      Gets(q, StateOf("rotate", l.user, l.admin, l.pending, l.row, l.kind, l.token, code))
  BY <1>1, ConsumesTo
<1>3. /\ At(q, "second", "recovery") /\ On(local[q].user) /\ Writes(q)
      /\ UNCHANGED <<idents, made, codes, pendReg, pendChange, resets, enrolling, sessions>>
  BY DEF ConsumeRecoveryCode, pendings
<1>4. users' = [users EXCEPT ![local[q].user].factor.codes =
                               users[local[q].user].factor.codes \ {code}]
  BY <1>1
<1> QED BY <1>2, <1>3, <1>4 DEF Consumes

-----------------------------------------------------------------------------
(* What a step does to the accounts, and to everybody but who takes it.    *)
Same(q, pc) ==
  LET l == local[q]
      m == local'[q]
  IN /\ m.pc = pc /\ m.user = l.user /\ m.admin = l.admin /\ m.pending = l.pending
     /\ m.row = l.row /\ m.kind = l.kind /\ m.token = l.token /\ m.code = l.code

OthersWait(q) == DOMAIN local' = DOMAIN local /\ \A r \in DOMAIN local \ {q} : local'[r] = local[r]

LEMMA GoesWhere ==
  ASSUME AccountTypes, NEW q \in DOMAIN local, NEW pc, Goes(q, pc)
  PROVE  Same(q, pc) /\ OthersWait(q)
<1> DEFINE l == local[q]
<1>1. Gets(q, StateOf(pc, l.user, l.admin, l.pending, l.row, l.kind, l.token, l.code))
  BY GoesTo
<1> QED BY <1>1 DEF Gets, StateOf, Same, OthersWait

(* An account is put where an admin has not meddled with it only if it was *)
(* so before.                                                              *)
Replaces(u, new) ==
  /\ UserBecomes(u, new)
  /\ u \in DOMAIN users /\ new.live /\ ~new.toggled => users[u].live /\ ~users[u].toggled

Appends(new) ==
  /\ new \in Account /\ users' = Append(users, new)

UsersMove == UNCHANGED users \/ (\E u, new : Replaces(u, new)) \/ (\E new : Appends(new))

UsersGrow ==
  /\ users' \in Seq(Account) /\ Len(users) <= Len(users')
  /\ \A u \in DOMAIN users : u \in DOMAIN users' /\ (u \in Untouched' => u \in Untouched)

LEMMA UsersAre ==
  ASSUME AccountTypes
  PROVE  /\ DOMAIN users = 1..Len(users) /\ Len(users) \in Nat
         /\ \A u \in DOMAIN users : users[u] \in Account
BY DEF AccountTypes

LEMMA AppendsAre ==
  ASSUME AccountTypes, NEW new, Appends(new)
  PROVE  /\ users' \in Seq(Account) /\ Len(users') = Len(users) + 1
         /\ DOMAIN users' = DOMAIN users \cup {Len(users) + 1} /\ Len(users) + 1 \notin DOMAIN users
         /\ users'[Len(users) + 1] = new
         /\ \A u \in DOMAIN users : users'[u] = users[u]
BY DEF AccountTypes, Appends

LEMMA MovesGrow ==
  ASSUME AccountTypes, UsersMove
  PROVE  UsersGrow
<1>1. DOMAIN users = 1..Len(users) /\ Len(users) \in Nat /\ users \in Seq(Account)
  BY UsersAre DEF AccountTypes
<1>2. CASE UNCHANGED users
  <2>1. Untouched' = Untouched
    BY <1>2 DEF Untouched, LiveUsers
  <2> QED BY <1>1, <1>2, <2>1 DEF UsersGrow
<1>3. CASE \E u, new : Replaces(u, new)
  <2>1. PICK u, new : Replaces(u, new)
    BY <1>3
  <2>2. /\ users' \in Seq(Account) /\ DOMAIN users' = DOMAIN users /\ Len(users') = Len(users)
        /\ \A v \in DOMAIN users : users'[v] = IF v = u THEN new ELSE users[v]
    BY <2>1 DEF Replaces, UserBecomes
  <2>3. \A v \in DOMAIN users : v \in Untouched' => v \in Untouched
    BY <2>1, <2>2 DEF Replaces, Untouched, LiveUsers
  <2> QED BY <1>1, <2>2, <2>3 DEF UsersGrow
<1>4. CASE \E new : Appends(new)
  <2>1. PICK new : Appends(new)
    BY <1>4
  <2>2. /\ users' \in Seq(Account) /\ Len(users') = Len(users) + 1
        /\ DOMAIN users' = DOMAIN users \cup {Len(users) + 1}
        /\ \A u \in DOMAIN users : users'[u] = users[u]
    BY <2>1, AppendsAre
  <2>3. \A v \in DOMAIN users : v \in Untouched' => v \in Untouched
    BY <2>2 DEF Untouched, LiveUsers
  <2> QED BY <1>1, <2>2, <2>3 DEF UsersGrow
<1> QED BY <1>2, <1>3, <1>4 DEF UsersMove

-----------------------------------------------------------------------------
(* The accounts each update leaves.                                        *)
LEMMA MailTyped ==
  ASSUME AccountTypes, RequestsFit, NEW q \in DOMAIN local
  PROVE  /\ At(q, "verify", "write") => local[q].pending \in Registration
         /\ At(q, "confirmChange", "write") => local[q].pending \in Change
         /\ At(q, "reset", "write") => local[q].pending \in Reset
         /\ q \in Requests /\ q.email \in Addressed
<1>1. q \in Requests /\ q.email \in Addressed
  BY RequestTyped DEF AccountTypes
<1> QED BY <1>1 DEF RequestsFit, StepFits, At

LEMMA CreateUserEffect ==
  ASSUME AccountTypes, RequestsFit, NEW q \in DOMAIN local, CreateUser(q)
  PROVE  Appends(NewUser(local[q].pending.email, TRUE))
<1>1. local[q].pending.email \in Addressed
  BY MailTyped DEF CreateUser, Registration
<1>2. TRUE \in BOOLEAN
  OBVIOUS
<1>3. NewUser(local[q].pending.email, TRUE) \in Account
  BY <1>1, <1>2, NewUserTyped
<1> QED BY <1>3 DEF Appends, CreateUser

LEMMA CreateFromOAuthEffect ==
  ASSUME AccountTypes, RequestsFit, NEW q \in DOMAIN local, CreateFromOAuth(q)
  PROVE  Appends(NewUser(q.email, FALSE))
<1>1. q.email \in Addressed /\ FALSE \in BOOLEAN
  BY MailTyped
<1>2. NewUser(q.email, FALSE) \in Account
  BY <1>1, NewUserTyped
<1> QED BY <1>2 DEF Appends, CreateFromOAuth

LEMMA ChangeEmailEffect ==
  ASSUME AccountTypes, RequestsFit, NEW q \in DOMAIN local, ChangeEmail(q)
  PROVE  LET p == local[q].pending
             a == users[p.user]
         IN Replaces(p.user, AccountOf(p.email, a.password, a.live, a.admin, a.toggled, a.factor))
<1> DEFINE p == local[q].pending
<1>1. p.email \in Addressed
  BY MailTyped DEF ChangeEmail, Change
<1>2. users' = [users EXCEPT ![p.user].email = p.email]
  BY DEF ChangeEmail
<1> HIDE DEF p
<1>3. LET a == users[p.user] IN
      UserBecomes(p.user, AccountOf(p.email, a.password, a.live, a.admin, a.toggled, a.factor))
  BY <1>1, <1>2, EmailBecomes
<1> QED BY <1>3 DEF Replaces, AccountOf, p

LEMMA ChangePasswordEffect ==
  ASSUME AccountTypes, NEW q \in DOMAIN local, ChangePassword(q) \/ WriteReset(q)
  PROVE  LET u == local[q].user
             a == users[u]
         IN Replaces(u, AccountOf(a.email, TRUE, a.live, a.admin, a.toggled, a.factor))
<1> DEFINE u == local[q].user
<1>1. users' = [users EXCEPT ![u].password = TRUE]
  BY DEF ChangePassword, WriteReset
<1> HIDE DEF u
<1>2. LET a == users[u] IN
      UserBecomes(u, AccountOf(a.email, TRUE, a.live, a.admin, a.toggled, a.factor))
  BY <1>1, GetsPassword
<1> QED BY <1>2 DEF Replaces, AccountOf, u

LEMMA SoftDeleteEffect ==
  ASSUME AccountTypes, NEW q \in DOMAIN local, SoftDelete(q)
  PROVE  LET u == local[q].user
             a == users[u]
         IN Replaces(u, AccountOf(a.email, a.password, FALSE, a.admin, a.toggled, NoFactor))
<1> DEFINE u == local[q].user
<1>1. users' = [users EXCEPT ![u].live = FALSE, ![u].factor = NoFactor]
  BY DEF SoftDelete
<1> HIDE DEF u
<1>2. LET a == users[u] IN
      UserBecomes(u, AccountOf(a.email, a.password, FALSE, a.admin, a.toggled, NoFactor))
  BY <1>1, IsDeleted
<1> QED BY <1>2 DEF Replaces, AccountOf, u

LEMMA SetRoleEffect ==
  ASSUME AccountTypes, NEW q \in DOMAIN local, SetRole(q)
  PROVE  LET a == users[q.user] IN
         Replaces(q.user, AccountOf(a.email, a.password, a.live, q.op = "promote", a.toggled, a.factor))
<1> DEFINE is == q.op = "promote"
           u == q.user
<1>1. users' = [users EXCEPT ![u].admin = is] /\ is \in BOOLEAN
  BY DEF SetRole
<1> HIDE DEF is, u
<1>2. LET a == users[u] IN
      UserBecomes(u, AccountOf(a.email, a.password, a.live, is, a.toggled, a.factor))
  BY <1>1, AdminBecomes
<1> QED BY <1>2 DEF Replaces, AccountOf, is, u

LEMMA ToggleLockEffect ==
  ASSUME AccountTypes, NEW q \in DOMAIN local, ToggleLock(q)
  PROVE  LET a == users[q.user] IN
         Replaces(q.user, AccountOf(a.email, a.password, ~a.live, a.admin, TRUE, a.factor))
<1> DEFINE u == q.user
<1>1. users' = [users EXCEPT ![u].live = ~@, ![u].toggled = TRUE]
  BY DEF ToggleLock
<1> HIDE DEF u
<1>2. LET a == users[u] IN
      UserBecomes(u, AccountOf(a.email, a.password, ~a.live, a.admin, TRUE, a.factor))
  BY <1>1, LockFlips
<1> QED BY <1>2 DEF Replaces, AccountOf, u

Raises(q) == q.op = "login" /\ q.email \in AdminEmails /\ ~local[q].admin

LEMMA OpenSessionEffect ==
  ASSUME AccountTypes, NEW q \in DOMAIN local, OpenSession(q)
  PROVE  LET u == local[q].user
             a == users[u]
         IN Replaces(u, AccountOf(a.email, a.password, a.live, a.admin \/ Raises(q), a.toggled,
                                  a.factor))
<1> DEFINE u == local[q].user
           is == users[u].admin \/ Raises(q)
<1>1. users' = [users EXCEPT ![u].admin = is] /\ is \in BOOLEAN
  BY DEF OpenSession, Raises
<1> HIDE DEF u, is
<1>2. LET a == users[u] IN
      UserBecomes(u, AccountOf(a.email, a.password, a.live, is, a.toggled, a.factor))
  BY <1>1, AdminBecomes
<1> QED BY <1>2 DEF Replaces, AccountOf, is, u

LEMMA EnableFactorEffect ==
  ASSUME AccountTypes, NEW q \in DOMAIN local, EnableFactor(q)
  PROVE  LET u == local[q].user
             a == users[u]
         IN Replaces(u, AccountOf(a.email, a.password, a.live, a.admin, a.toggled,
                                  [on |-> TRUE, codes |-> Fresh(q)]))
<1> DEFINE u == local[q].user
           factor == [on |-> TRUE, codes |-> Fresh(q)]
<1>1. q \in Requests
  BY DEF AccountTypes
<1>2. users' = [users EXCEPT ![u].factor = factor]
  BY DEF EnableFactor
<1>3. factor \in [on : BOOLEAN, codes : SUBSET RecoveryCode]
  BY <1>1, FactorTyped
<1> HIDE DEF u, factor
<1>4. LET a == users[u] IN
      UserBecomes(u, AccountOf(a.email, a.password, a.live, a.admin, a.toggled, factor))
  BY <1>2, <1>3, FactorBecomes
<1> QED BY <1>4 DEF Replaces, AccountOf, u, factor

LEMMA DisableFactorEffect ==
  ASSUME AccountTypes, NEW q \in DOMAIN local, DisableFactor(q)
  PROVE  LET u == local[q].user
             a == users[u]
         IN Replaces(u, AccountOf(a.email, a.password, a.live, a.admin, a.toggled, NoFactor))
<1> DEFINE u == local[q].user
<1>1. users' = [users EXCEPT ![u].factor = NoFactor]
  BY DEF DisableFactor
<1>2. NoFactor \in [on : BOOLEAN, codes : SUBSET RecoveryCode]
  BY DEF NoFactor
<1> HIDE DEF u
<1>3. LET a == users[u] IN
      UserBecomes(u, AccountOf(a.email, a.password, a.live, a.admin, a.toggled, NoFactor))
  BY <1>1, <1>2, FactorBecomes
<1> QED BY <1>3 DEF Replaces, AccountOf, u

LEMMA RegenerateCodesEffect ==
  ASSUME AccountTypes, NEW q \in DOMAIN local, RegenerateCodes(q)
  PROVE  LET u == local[q].user
             a == users[u]
         IN Replaces(u, AccountOf(a.email, a.password, a.live, a.admin, a.toggled,
                                  [a.factor EXCEPT !.codes = Fresh(q)]))
<1> DEFINE u == local[q].user
<1>1. q \in Requests
  BY DEF AccountTypes
<1>2. users' = [users EXCEPT ![u].factor.codes = Fresh(q)]
  BY DEF RegenerateCodes
<1>3. Fresh(q) \in SUBSET RecoveryCode
  BY <1>1, FactorTyped
<1> HIDE DEF u
<1>4. LET a == users[u] IN
      UserBecomes(u, AccountOf(a.email, a.password, a.live, a.admin, a.toggled,
                               [a.factor EXCEPT !.codes = Fresh(q)]))
  BY <1>2, <1>3, CodesBecome
<1> QED BY <1>4 DEF Replaces, AccountOf, u

LEMMA ConsumesEffect ==
  ASSUME AccountTypes, RequestsFit, NEW q \in DOMAIN local, NEW code, Consumes(q, code)
  PROVE  LET u == local[q].user
             a == users[u]
         IN /\ Replaces(u, AccountOf(a.email, a.password, a.live, a.admin, a.toggled,
                                     [a.factor EXCEPT !.codes = a.factor.codes \ {code}]))
            /\ u \in DOMAIN users /\ code \in RecoveryCode
<1> DEFINE u == local[q].user
           left == users[u].factor.codes \ {code}
<1>1. users' = [users EXCEPT ![u].factor.codes = left]
  BY DEF Consumes
<1>2. u \in DOMAIN users
  BY UsersAre DEF RequestsFit, UserFits, Consumes, At, Nobodys
<1>3. left \in SUBSET RecoveryCode /\ code \in RecoveryCode
  BY <1>2, UsersAre DEF Account, RecoveryCode, Consumes
<1> HIDE DEF u, left
<1>4. LET a == users[u] IN
      UserBecomes(u, AccountOf(a.email, a.password, a.live, a.admin, a.toggled,
                               [a.factor EXCEPT !.codes = left]))
  BY <1>1, <1>3, CodesBecome
<1> QED BY <1>2, <1>3, <1>4 DEF Replaces, AccountOf, u, left

-----------------------------------------------------------------------------
(* One step of one request.                                                *)
Goer(q) ==
  \/ Prove(q) \/ Ends(q) \/ StartRegistration(q) \/ IssueCode(q) \/ PendRegistration(q)
  \/ VerifyCode(q) \/ CreateUser(q) \/ AskEmailChange(q) \/ PendEmailChange(q)
  \/ ChangeEmail(q) \/ ChangePassword(q) \/ SoftDelete(q) \/ Others(q) \/ SetRole(q)
  \/ ToggleLock(q) \/ OpenSession(q) \/ DropIdentity(q) \/ PushIdentity(q)
  \/ UnlinkIdentity(q) \/ ReplaceReset(q) \/ WriteReset(q) \/ Enroll(q)
  \/ ReadEnrolment(q) \/ EnableFactor(q) \/ DisableFactor(q) \/ RegenerateCodes(q)
  \/ VerifyTotp(q) \/ RotateSession(q)

Reader(q) ==
  \/ VerifyRegistration(q) \/ ConfirmEmailChange(q) \/ FindIdentity(q) \/ FindOwner(q)
  \/ FindEmail(q) \/ CreateFromOAuth(q) \/ RequestReset(q)

Looker(q) ==
  \/ Authenticate(q) \/ Login(q) \/ LookForFactor(q) \/ ConfirmReset(q) \/ FindPending(q)
  \/ ConsumeRecoveryCode(q)

LEMMA EachIsOne ==
  ASSUME NEW q, AccountStep(q) \/ FactorStep(q)
  PROVE  Goer(q) \/ Reader(q) \/ Looker(q)
BY DEF AccountStep, FactorStep, Goer, Reader, Looker

Moving(q) ==
  /\ OthersWait(q) /\ local[q].pc \notin {"done", "in"}
  /\ local[q].pc = "rotate" => local'[q].pc \in {"done", "in"}

LEMMA GoersMove ==
  ASSUME AccountTypes, NEW q \in DOMAIN local, Goer(q)
  PROVE  Moving(q)
<1>1. \E pc : Goes(q, pc)
  BY DEF Goer, Prove, Ends, StartRegistration, IssueCode, PendRegistration, VerifyCode, CreateUser,
         AskEmailChange, PendEmailChange, ChangeEmail, ChangePassword, SoftDelete, Others, SetRole,
         ToggleLock, OpenSession, DropIdentity, PushIdentity, UnlinkIdentity, ReplaceReset,
         WriteReset, Enroll, ReadEnrolment, EnableFactor, DisableFactor, RegenerateCodes,
         VerifyTotp, RotateSession
<1>2. PICK pc : Goes(q, pc)
  BY <1>1
<1>3. Same(q, pc) /\ OthersWait(q)
  BY <1>2, GoesWhere
<1>4. CASE Ends(q) \/ RotateSession(q)
  <2>1. Goes(q, "done") \/ Goes(q, "in")
    BY <1>4 DEF Ends, RotateSession
  <2>2. local'[q].pc \in {"done", "in"}
    BY <2>1, GoesWhere DEF Same
  <2> QED BY <1>3, <1>4, <2>2 DEF Moving, Ends, RotateSession
<1>5. CASE ~Ends(q) /\ ~RotateSession(q)
  <2>1. local[q].pc \notin {"done", "in", "rotate"}
    BY <1>5 DEF Goer, Prove, StartRegistration, IssueCode, PendRegistration, VerifyCode, CreateUser,
         AskEmailChange, PendEmailChange, ChangeEmail, ChangePassword, SoftDelete, Others, SetRole,
         ToggleLock, OpenSession, DropIdentity, PushIdentity, UnlinkIdentity, ReplaceReset,
         WriteReset, Enroll, ReadEnrolment, EnableFactor, DisableFactor, RegenerateCodes,
         VerifyTotp, At
  <2> QED BY <1>3, <2>1 DEF Moving
<1> QED BY <1>4, <1>5

LEMMA GetsWaits ==
  ASSUME NEW q \in DOMAIN local, NEW state, Gets(q, state)
  PROVE  OthersWait(q)
BY DEF Gets, OthersWait

LEMMA ReadersMove ==
  ASSUME AccountTypes, NEW q \in DOMAIN local, Reader(q)
  PROVE  Moving(q)
<1>1. \/ \E pc : Goes(q, pc)
      \/ \E pc, p : ReadsPending(q, pc, p)
      \/ \E pc, row : ReadsRow(q, pc, row)
      \/ \E pc, user : ReadsUser(q, pc, user)
  BY DEF Reader, VerifyRegistration, ConfirmEmailChange, FindIdentity, FindOwner, FindEmail,
         CreateFromOAuth, RequestReset
<1>2. OthersWait(q)
  BY <1>1, GoesWhere, ReadsPendingTo, ReadsRowTo, ReadsUserTo, GetsWaits
<1>3. local[q].pc \notin {"done", "in", "rotate"}
  BY DEF Reader, VerifyRegistration, ConfirmEmailChange, FindIdentity, FindOwner, FindEmail,
         CreateFromOAuth, RequestReset, At
<1> QED BY <1>2, <1>3 DEF Moving

LEMMA LookersMove ==
  ASSUME AccountTypes, NEW q \in DOMAIN local, Looker(q)
  PROVE  Moving(q)
<1>1. CASE Authenticate(q)
  <2>1. PICK s \in sessions : \E pc \in Asked(q.op, s.user) : AuthenticatesAs(q, s, pc)
    BY <1>1, AuthenticateEffect
  <2>2. PICK pc \in Asked(q.op, s.user) : AuthenticatesAs(q, s, pc)
    BY <2>1
  <2>3. OthersWait(q)
    BY <2>2, GetsWaits DEF AuthenticatesAs
  <2> QED BY <2>2, <2>3 DEF Moving, AuthenticatesAs
<1>2. CASE Login(q)
  <2>1. PICK u \in DOMAIN users : LogsInAs(q, u)
    BY <1>2, LoginEffect
  <2>2. OthersWait(q)
    BY <2>1, GetsWaits DEF LogsInAs
  <2> QED BY <2>1, <2>2 DEF Moving, LogsInAs, At
<1>3. CASE LookForFactor(q)
  <2>1. OthersWait(q)
    BY <1>3, LookEffect, GetsWaits
  <2> QED BY <1>3, <2>1 DEF Moving, LookForFactor, At
<1>4. CASE ConfirmReset(q)
  <2>1. PICK r \in resets : ConfirmsReset(q, r)
    BY <1>4, ConfirmResetEffect
  <2>2. OthersWait(q)
    BY <2>1, GetsWaits DEF ConfirmsReset
  <2> QED BY <2>1, <2>2 DEF Moving, ConfirmsReset, At
<1>5. CASE FindPending(q)
  <2>1. PICK s \in sessions, pc \in {"totp", "recovery"} : FindsPending(q, s, pc)
    BY <1>5, FindPendingEffect
  <2>2. OthersWait(q)
    BY <2>1, GetsWaits DEF FindsPending
  <2> QED BY <2>1, <2>2 DEF Moving, FindsPending, At
<1>6. CASE ConsumeRecoveryCode(q)
  <2>1. PICK code \in users[local[q].user].factor.codes : Consumes(q, code)
    BY <1>6, ConsumeEffect
  <2>2. OthersWait(q)
    BY <2>1, GetsWaits DEF Consumes
  <2> QED BY <2>1, <2>2 DEF Moving, Consumes, At
<1> QED BY <1>1, <1>2, <1>3, <1>4, <1>5, <1>6 DEF Looker

(* What each does to the accounts, the identities and the sessions.        *)
WritesUsers(q) ==
  \/ CreateUser(q) \/ ChangeEmail(q) \/ ChangePassword(q) \/ SoftDelete(q) \/ SetRole(q)
  \/ ToggleLock(q) \/ OpenSession(q) \/ CreateFromOAuth(q) \/ WriteReset(q) \/ EnableFactor(q)
  \/ DisableFactor(q) \/ RegenerateCodes(q) \/ ConsumeRecoveryCode(q)

WritesRows(q) == DropIdentity(q) \/ PushIdentity(q) \/ CreateFromOAuth(q) \/ UnlinkIdentity(q)

WritesSessions(q) ==
  CreateUser(q) \/ SoftDelete(q) \/ OpenSession(q) \/ WriteReset(q) \/ RotateSession(q)

LEMMA GoersKeep ==
  ASSUME NEW q, Goer(q)
  PROVE  /\ ~WritesUsers(q) => UNCHANGED users
         /\ ~WritesRows(q) => UNCHANGED <<idents, made>>
         /\ ~WritesSessions(q) => UNCHANGED sessions
BY DEF Goer, Prove, Ends, StartRegistration, IssueCode, PendRegistration, VerifyCode, CreateUser,
       AskEmailChange, PendEmailChange, ChangeEmail, ChangePassword, SoftDelete, Others, SetRole,
       ToggleLock, OpenSession, DropIdentity, PushIdentity, UnlinkIdentity, ReplaceReset,
       WriteReset, Enroll, ReadEnrolment, EnableFactor, DisableFactor, RegenerateCodes,
       VerifyTotp, RotateSession, WritesUsers, WritesRows, WritesSessions, accounts

LEMMA OthersKeep ==
  ASSUME NEW q, Reader(q) \/ Looker(q)
  PROVE  /\ ~WritesUsers(q) => UNCHANGED users
         /\ ~WritesRows(q) => UNCHANGED <<idents, made>>
         /\ ~WritesSessions(q) => UNCHANGED sessions
BY DEF Reader, VerifyRegistration, ConfirmEmailChange, FindIdentity, FindOwner, FindEmail,
       CreateFromOAuth, RequestReset, Looker, Authenticate, Login, LookForFactor, ConfirmReset,
       FindPending, ConsumeRecoveryCode, WritesUsers, WritesRows, WritesSessions, accounts

LEMMA WritersMoveUsers ==
  ASSUME AccountTypes, RequestsFit, NEW q \in DOMAIN local, WritesUsers(q)
  PROVE  (\E u, new : Replaces(u, new)) \/ (\E new : Appends(new))
<1>1. CASE CreateUser(q) \/ CreateFromOAuth(q)
  BY <1>1, CreateUserEffect, CreateFromOAuthEffect
<1>2. CASE ChangeEmail(q)
  BY <1>2, ChangeEmailEffect
<1>3. CASE ChangePassword(q) \/ WriteReset(q)
  BY <1>3, ChangePasswordEffect
<1>4. CASE SoftDelete(q)
  BY <1>4, SoftDeleteEffect
<1>5. CASE SetRole(q)
  BY <1>5, SetRoleEffect
<1>6. CASE ToggleLock(q)
  BY <1>6, ToggleLockEffect
<1>7. CASE OpenSession(q)
  BY <1>7, OpenSessionEffect
<1>8. CASE EnableFactor(q)
  BY <1>8, EnableFactorEffect
<1>9. CASE DisableFactor(q)
  BY <1>9, DisableFactorEffect
<1>10. CASE RegenerateCodes(q)
  BY <1>10, RegenerateCodesEffect
<1>11. CASE ConsumeRecoveryCode(q)
  <2>1. PICK code \in users[local[q].user].factor.codes : Consumes(q, code)
    BY <1>11, ConsumeEffect
  <2> QED BY <2>1, ConsumesEffect
<1> QED BY <1>1, <1>2, <1>3, <1>4, <1>5, <1>6, <1>7, <1>8, <1>9, <1>10, <1>11 DEF WritesUsers

LEMMA UsersDoMove ==
  ASSUME AccountTypes, RequestsFit, NEW q \in DOMAIN local, AccountStep(q) \/ FactorStep(q)
  PROVE  UsersMove
<1>1. CASE WritesUsers(q)
  BY <1>1, WritersMoveUsers DEF UsersMove
<1>2. CASE ~WritesUsers(q)
  BY <1>2, EachIsOne, GoersKeep, OthersKeep DEF UsersMove
<1> QED BY <1>1, <1>2

(* Rows go, or one comes with the next id.                                 *)
IdentsMove ==
  \/ idents' \subseteq idents /\ UNCHANGED made
  \/ \E ident \in Idents, u \in DOMAIN users' : AddsRow(ident, u)

LEMMA IdentsDoMove ==
  ASSUME AccountTypes, RequestsFit, NEW q \in DOMAIN local, AccountStep(q) \/ FactorStep(q)
  PROVE  IdentsMove
<1>1. UsersGrow
  BY UsersDoMove, MovesGrow
<1>2. q \in Requests /\ q.ident \in Idents
  BY RequestTyped DEF AccountTypes
<1>3. CASE ~WritesRows(q)
  BY <1>3, EachIsOne, GoersKeep, OthersKeep DEF IdentsMove
<1>4. CASE DropIdentity(q) \/ UnlinkIdentity(q)
  BY <1>4 DEF IdentsMove, DropIdentity, UnlinkIdentity
<1>5. CASE PushIdentity(q)
  <2>1. local[q].user \in DOMAIN users
    BY <1>5, UsersAre DEF PushIdentity, RequestsFit, UserFits, Nobodys
  <2> QED BY <1>1, <1>2, <1>5, <2>1 DEF PushIdentity, IdentsMove, UsersGrow
<1>6. CASE CreateFromOAuth(q)
  <2>1. Len(users) + 1 \in DOMAIN users'
    BY <1>6, CreateFromOAuthEffect, AppendsAre
  <2> QED BY <1>2, <1>6, <2>1 DEF CreateFromOAuth, IdentsMove
<1> QED BY <1>3, <1>4, <1>5, <1>6 DEF WritesRows

(* Sessions go, or one comes that is the request's, which is then over.    *)
SessionOf(u, q, kind) == [user |-> u, request |-> q, kind |-> kind]

SessionsMove(q) ==
  \/ sessions' \subseteq sessions
  \/ /\ local'[q].pc \in {"done", "in"}
     /\ \E u \in DOMAIN users', kind \in Kinds :
          sessions' \subseteq sessions \cup {SessionOf(u, q, kind)}

LEMMA SessionsDoMove ==
  ASSUME AccountTypes, RequestsFit, SessionsFit, NEW q \in DOMAIN local,
         AccountStep(q) \/ FactorStep(q)
  PROVE  SessionsMove(q)
<1>1. UsersGrow
  BY UsersDoMove, MovesGrow
<1>2. CASE ~WritesSessions(q)
  BY <1>2, EachIsOne, GoersKeep, OthersKeep DEF SessionsMove
<1>3. CASE SoftDelete(q) \/ WriteReset(q)
  BY <1>3 DEF SessionsMove, SoftDelete, WriteReset
<1>4. CASE CreateUser(q)
  <2>1. Len(users) + 1 \in DOMAIN users' /\ "full" \in Kinds
    BY <1>4, CreateUserEffect, AppendsAre DEF Kinds
  <2>2. local'[q].pc = "done"
    BY <1>4, GoesWhere DEF CreateUser, Same
  <2>3. sessions' = sessions \cup {SessionOf(Len(users) + 1, q, "full")}
    BY <1>4 DEF CreateUser, SessionOf
  <2> QED BY <2>1, <2>2, <2>3 DEF SessionsMove
<1>5. CASE OpenSession(q)
  <2>1. local[q].user \in DOMAIN users' /\ local[q].kind \in Kinds
    BY <1>1, <1>5, UsersAre
    DEF OpenSession, RequestsFit, UserFits, Nobodys, UsersGrow, AccountTypes, LocalState
  <2>2. local'[q].pc = "done"
    BY <1>5, GoesWhere DEF OpenSession, Same
  <2>3. sessions' = sessions \cup {SessionOf(local[q].user, q, local[q].kind)}
    BY <1>5 DEF OpenSession, SessionOf
  <2> QED BY <2>1, <2>2, <2>3 DEF SessionsMove
<1>6. CASE RotateSession(q)
  <2> DEFINE old == local[q].token
  <2>1. old.user \in DOMAIN users' /\ "full" \in Kinds
    BY <1>1, <1>6 DEF RotateSession, SessionsFit, UsersGrow, Kinds
  <2>2. local'[q].pc = "in"
    BY <1>6, GoesWhere DEF RotateSession, Same
  <2>3. sessions' = (sessions \ {old}) \cup {SessionOf(old.user, q, "full")}
    BY <1>6 DEF RotateSession, SessionOf
  <2> QED BY <2>1, <2>2, <2>3 DEF SessionsMove
<1> QED BY <1>2, <1>3, <1>4, <1>5, <1>6 DEF WritesSessions

Steps(q) == Moving(q) /\ UsersMove /\ UsersGrow /\ IdentsMove /\ SessionsMove(q)

LEMMA EachSteps ==
  ASSUME AccountTypes, RequestsFit, SessionsFit, NEW q \in DOMAIN local,
         AccountStep(q) \/ FactorStep(q)
  PROVE  Steps(q)
<1>1. Moving(q)
  BY EachIsOne, GoersMove, ReadersMove, LookersMove
<1>2. UsersMove /\ IdentsMove /\ SessionsMove(q)
  BY UsersDoMove, IdentsDoMove, SessionsDoMove
<1> QED BY <1>1, <1>2, MovesGrow DEF Steps

-----------------------------------------------------------------------------
(* What a step of q leaves true.                                           *)
LEMMA SpentStays ==
  ASSUME NEW q \in DOMAIN local, Steps(q), NEW r, Spent(r)
  PROVE  Spent(r)' /\ r # q
BY DEF Steps, Moving, OthersWait, Spent

LEMMA MadeByStays ==
  ASSUME NEW q \in DOMAIN local, Steps(q), NEW r, MadeBy(r)
  PROVE  MadeBy(r)'
BY DEF Steps, Moving, OthersWait, MadeBy

LEMMA SessionsStay ==
  ASSUME AccountTypes, SessionsFit, NEW q \in DOMAIN local, Steps(q)
  PROVE  /\ SessionsFit' /\ sessions' \subseteq Session
         /\ \A s \in sessions' : s \in sessions \/ s.request = q
<1>1. \A s \in sessions : s.user \in DOMAIN users' /\ Spent(s.request)' /\ s \in Session
  BY SpentStays DEF SessionsFit, AccountTypes, Steps, UsersGrow
<1>2. CASE sessions' \subseteq sessions
  BY <1>1, <1>2 DEF SessionsFit
<1>3. CASE /\ local'[q].pc \in {"done", "in"}
           /\ \E u \in DOMAIN users', kind \in Kinds :
                sessions' \subseteq sessions \cup {SessionOf(u, q, kind)}
  <2>1. PICK u \in DOMAIN users', kind \in Kinds :
          sessions' \subseteq sessions \cup {SessionOf(u, q, kind)}
    BY <1>3
  <2>2. SessionOf(u, q, kind).user = u /\ SessionOf(u, q, kind).request = q
    BY DEF SessionOf
  <2>3. Spent(q)'
    BY <1>3 DEF Spent
  <2>4. u \in Nat /\ q \in Requests
    BY DEF Steps, UsersGrow, AccountTypes
  <2>5. SessionOf(u, q, kind) \in Session
    BY <2>4 DEF SessionOf, Session, Kinds
  <2> HIDE DEF SessionsFit
  <2>6. \A s \in sessions' : s.user \in DOMAIN users' /\ Spent(s.request)' /\ s \in Session
    BY <1>1, <2>1, <2>2, <2>3, <2>5
  <2> QED BY <2>1, <2>2, <2>6 DEF SessionsFit
<1> QED BY <1>2, <1>3 DEF Steps, SessionsMove

LEMMA RowsStay ==
  ASSUME AccountTypes, RowsFit, NEW q \in DOMAIN local, Steps(q)
  PROVE  /\ RowsFit' /\ idents' \subseteq Identity /\ made' \in Nat /\ made <= made'
         /\ \A row \in idents' : row \in idents \/ (row.id > made /\ made' = made + 1)
<1>1. \A row \in idents : row.user \in DOMAIN users' /\ row.id <= made /\ row \in Identity
  BY DEF RowsFit, AccountTypes, Steps, UsersGrow
<1>2. made \in Nat
  BY DEF AccountTypes
<1>3. CASE idents' \subseteq idents /\ UNCHANGED made
  BY <1>1, <1>2, <1>3 DEF RowsFit
<1>4. CASE \E ident \in Idents, u \in DOMAIN users' : AddsRow(ident, u)
  <2>1. PICK ident \in Idents, u \in DOMAIN users' : AddsRow(ident, u)
    BY <1>4
  <2> DEFINE new == [id |-> made + 1, ident |-> ident, user |-> u]
  <2>2. made' = made + 1 /\ idents' = idents \cup {new}
    BY <2>1 DEF AddsRow
  <2>3. u \in Nat
    BY DEF Steps, UsersGrow
  <2>4. new \in Identity /\ new.id = made + 1 /\ new.user \in DOMAIN users'
    BY <1>2, <2>3 DEF Identity
  <2> HIDE DEF new
  <2>5. \A row \in idents : row.id \in Nat /\ row.id # new.id
    BY <1>1, <1>2, <2>4 DEF Identity
  <2>6. \A one, two \in idents' : one.id = two.id => one = two
    BY <2>2, <2>5 DEF RowsFit
  <2>7. \A row \in idents' : row.user \in DOMAIN users' /\ row.id <= made' /\ row \in Identity
    BY <1>1, <1>2, <2>2, <2>4, <2>5
  <2>8. made' \in Nat /\ made <= made' /\ new.id > made
    BY <1>2, <2>2, <2>4
  <2> QED BY <2>2, <2>6, <2>7, <2>8 DEF RowsFit
<1> QED BY <1>3, <1>4 DEF Steps, IdentsMove

LEMMA OthersFit ==
  ASSUME AccountTypes, RequestsFit, RowsFit, SessionsFit, NEW q \in DOMAIN local, Steps(q),
         NEW r \in DOMAIN local \ {q}
  PROVE  UserFits(r)' /\ RowFits(r)' /\ StepFits(r)' /\ TokenFits(r)'
<1>1. local'[r] = local[r] /\ UserFits(r) /\ RowFits(r) /\ StepFits(r) /\ TokenFits(r)
  BY DEF RequestsFit, Steps, Moving, OthersWait
<1>2. /\ Len(users) <= Len(users') /\ Len(users) \in Nat /\ Len(users') \in Nat
      /\ \A u \in DOMAIN users : u \in DOMAIN users' /\ (u \in Untouched' => u \in Untouched)
  BY UsersAre DEF Steps, UsersGrow
<1>3. UserFits(r)'
  BY <1>1, <1>2 DEF UserFits
<1>4. RowFits(r)'
  <2> SUFFICES ASSUME local[r].pc \in {"owner", "stale"}
               PROVE  /\ local[r].row \in Identity
                      /\ local[r].row.ident = r.ident
                      /\ local[r].row.user \in DOMAIN users' /\ local[r].row.id <= made'
                      /\ \A row \in idents' : row.id = local[r].row.id => row = local[r].row
                      /\ local[r].pc = "stale" => local[r].row.user \notin Untouched'
    BY <1>1 DEF RowFits
  <2>1. /\ local[r].row \in Identity /\ local[r].row.ident = r.ident
        /\ local[r].row.user \in DOMAIN users /\ local[r].row.id <= made
        /\ \A row \in idents : row.id = local[r].row.id => row = local[r].row
        /\ local[r].pc = "stale" => local[r].row.user \notin Untouched
    BY <1>1 DEF RowFits
  <2>2. /\ made \in Nat /\ made' \in Nat /\ made <= made'
        /\ \A row \in idents' : row \in idents \/ row.id > made
    BY RowsStay DEF AccountTypes
  <2>3. local[r].row.id \in Nat
    BY <2>1 DEF Identity
  <2>4. \A row \in idents' : row.id = local[r].row.id => row = local[r].row
    BY <2>1, <2>2, <2>3
  <2> QED BY <1>2, <2>1, <2>2, <2>3, <2>4
<1>5. StepFits(r)'
  BY <1>1 DEF StepFits
<1>6. TokenFits(r)'
  <2>1. local[r].token # NoSession => Spent(local[r].token.request)' /\ local[r].token.request # q
    BY <1>1, SpentStays DEF TokenFits
  <2>2. \A s \in sessions' : s \in sessions \/ s.request = q
    BY SessionsStay
  <2> QED BY <1>1, <2>1, <2>2 DEF TokenFits
<1> QED BY <1>3, <1>4, <1>5, <1>6

-----------------------------------------------------------------------------
(* The types stay.                                                         *)
LEMMA AskedTyped ==
  ASSUME AccountTypes, NEW op \in Ops, NEW u \in DOMAIN users, NEW pc \in Asked(op, u)
  PROVE  pc \in Pcs
<1>1. users[u].admin \in BOOLEAN
  BY UsersAre DEF Account
<1>2. NextStep(op, users[u].admin) \in Pcs
  BY <1>1, NextStepTyped
<1>3. pc = NextStep(op, users[u].admin) \/ pc = "prove"
  BY DEF Asked
<1> QED BY <1>2, <1>3, PcsAre

LEMMA LookersLook ==
  ASSUME AccountTypes, RequestsFit, SessionsFit, NEW q \in DOMAIN local, Looker(q)
  PROVE  LocalTyped
<1>1. q \in Requests /\ q.op \in Ops /\ local[q] \in LocalState
  BY RequestTyped DEF AccountTypes
<1>2. /\ \A u \in DOMAIN users : u \in Nat /\ users[u].admin \in BOOLEAN
      /\ \A s \in sessions : s \in Session /\ s.user \in DOMAIN users /\ s.user \in Nat
  BY UsersAre DEF AccountTypes, SessionsFit, Account
<1>3. /\ local[q].user \in Nat /\ local[q].admin \in BOOLEAN /\ local[q].pending \in Pending
      /\ local[q].kind \in Kinds
  BY <1>1 DEF LocalState
<1>4. CASE Authenticate(q)
  <2>1. PICK s \in sessions : \E pc \in Asked(q.op, s.user) : AuthenticatesAs(q, s, pc)
    BY <1>4, AuthenticateEffect
  <2>2. PICK pc \in Asked(q.op, s.user) : AuthenticatesAs(q, s, pc)
    BY <2>1
  <2>3. pc \in Pcs /\ s \in Session /\ s.user \in Nat /\ users[s.user].admin \in BOOLEAN
    BY <1>1, <1>2, AskedTyped
  <2> QED BY <2>2, <2>3, StateTyped, GetsTyped DEF AuthenticatesAs
<1>5. CASE Login(q)
  <2>1. PICK u \in DOMAIN users : LogsInAs(q, u)
    BY <1>5, LoginEffect
  <2>2. LoginKind(q, u) \in Kinds /\ u \in Nat /\ users[u].admin \in BOOLEAN /\ "session" \in Pcs
    BY <1>2, PcsAre DEF LoginKind, Kinds
  <2> HIDE DEF LoginKind
  <2> QED BY <2>1, <2>2, StateTyped, GetsTyped DEF LogsInAs
<1>6. CASE LookForFactor(q)
  <2> DEFINE kind == IF On(local[q].user) THEN "second" ELSE "full"
  <2>1. kind \in Kinds /\ "session" \in Pcs
    BY PcsAre DEF Kinds
  <2>2. LET l == local[q] IN
        Gets(q, StateOf("session", l.user, l.admin, l.pending, l.row, kind, l.token, l.code))
    BY <1>6, LookEffect
  <2> HIDE DEF kind
  <2> QED BY <1>3, <2>1, <2>2, StateTyped, GetsTyped
<1>7. CASE ConfirmReset(q)
  <2>1. PICK r \in resets : ConfirmsReset(q, r)
    BY <1>7, ConfirmResetEffect
  <2>2. r \in Pending /\ r.user \in Nat /\ "write" \in Pcs
    BY PcsAre DEF AccountTypes, Pending, Reset
  <2> QED BY <2>1, <2>2, StateTyped, GetsTyped DEF ConfirmsReset
<1>8. CASE FindPending(q)
  <2>1. PICK s \in sessions, pc \in {"totp", "recovery"} : FindsPending(q, s, pc)
    BY <1>8, FindPendingEffect
  <2>2. pc \in Pcs /\ s \in Session /\ s.user \in Nat
    BY <1>2, PcsAre
  <2> QED BY <2>1, <2>2, StateTyped, GetsTyped DEF FindsPending
<1>9. CASE ConsumeRecoveryCode(q)
  <2>1. PICK code \in users[local[q].user].factor.codes : Consumes(q, code)
    BY <1>9, ConsumeEffect
  <2>2. code \in RecoveryCode /\ "rotate" \in Pcs
    BY <2>1, ConsumesEffect, PcsAre
  <2> QED BY <2>1, <2>2, StateTyped, GetsTyped DEF Consumes
<1> QED BY <1>4, <1>5, <1>6, <1>7, <1>8, <1>9 DEF Looker

LEMMA LocalStaysTyped ==
  ASSUME AccountTypes, RequestsFit, SessionsFit, NEW q \in DOMAIN local,
         AccountStep(q) \/ FactorStep(q)
  PROVE  LocalTyped
<1>1. Goer(q) => LocalTyped
  BY GoersGo DEF Goer
<1>2. Reader(q) => LocalTyped
  BY ReadersRead DEF Reader
<1> QED BY <1>1, <1>2, EachIsOne, LookersLook

(* The codes, the pending requests and the reset links.                    *)
WritesMails(q) ==
  \/ IssueCode(q) \/ PendRegistration(q) \/ VerifyCode(q) \/ CreateUser(q)
  \/ PendEmailChange(q) \/ ChangeEmail(q) \/ SoftDelete(q) \/ ReplaceReset(q) \/ WriteReset(q)

LEMMA GoersKeepMails ==
  ASSUME NEW q, Goer(q), ~WritesMails(q)
  PROVE  UNCHANGED <<codes, pendReg, pendChange, resets>>
BY DEF Goer, Prove, Ends, StartRegistration, IssueCode, PendRegistration, VerifyCode, CreateUser,
       AskEmailChange, PendEmailChange, ChangeEmail, ChangePassword, SoftDelete, Others, SetRole,
       ToggleLock, OpenSession, DropIdentity, PushIdentity, UnlinkIdentity, ReplaceReset,
       WriteReset, Enroll, ReadEnrolment, EnableFactor, DisableFactor, RegenerateCodes,
       VerifyTotp, RotateSession, WritesMails, pendings, pendingMails

LEMMA OthersKeepMails ==
  ASSUME NEW q, Reader(q) \/ Looker(q)
  PROVE  UNCHANGED <<codes, pendReg, pendChange, resets, enrolling>>
BY DEF Reader, VerifyRegistration, ConfirmEmailChange, FindIdentity, FindOwner, FindEmail,
       CreateFromOAuth, RequestReset, Looker, Authenticate, Login, LookForFactor, ConfirmReset,
       FindPending, ConsumeRecoveryCode, pendings

LEMMA UsableIsOpen ==
  ASSUME AccountTypes, NEW email, NEW purpose, Usable(email, purpose) # {}
  PROVE  Max(Usable(email, purpose)) \in DOMAIN codes /\ codes[Max(Usable(email, purpose))].open
<1> DEFINE usable == Usable(email, purpose)
<1>1. DOMAIN codes = 1..Len(codes) /\ Len(codes) \in Nat
  BY DEF AccountTypes
<1>2. usable \in SUBSET (1..Len(codes))
  BY <1>1 DEF Usable
<1>3. \A c \in usable : c \in DOMAIN codes /\ codes[c].open
  BY DEF Usable
<1> HIDE DEF usable
<1>4. usable # {} => Max(usable) \in usable
  BY <1>1, <1>2, MaxIsIn
<1> QED BY <1>3, <1>4 DEF usable

(* What a try makes of a code.                                             *)
TriedAs(code, new) ==
  \/ new = Matched(code)
  \/ new = Mismatched(code)
  \/ new = [code EXCEPT !.open = FALSE]

CodesMove ==
  \/ UNCHANGED codes
  \/ \E email \in Addressed, op \in Ops :
       codes' = Append(codes, [email |-> email, purpose |-> op, attempts |-> 0, open |-> TRUE,
                               passes |-> 0])
  \/ \E c \in DOMAIN codes : codes[c].open /\
       \E new : TriedAs(codes[c], new) /\ codes' = [codes EXCEPT ![c] = new]

LEMMA CodesDoMove ==
  ASSUME AccountTypes, NEW q \in DOMAIN local, AccountStep(q) \/ FactorStep(q)
  PROVE  CodesMove
<1>1. q \in Requests /\ q.email \in Addressed /\ q.op \in Ops
  BY RequestTyped DEF AccountTypes
<1>2. CASE IssueCode(q)
  BY <1>1, <1>2 DEF IssueCode, CodesMove
<1>3. CASE VerifyCode(q)
  <2> DEFINE usable == Usable(local[q].pending.email, Purpose(q))
  <2>1. PICK right \in BOOLEAN :
          IF usable = {} THEN UNCHANGED codes
          ELSE codes' = [codes EXCEPT ![Max(usable)] = IF right THEN Matched(@) ELSE Mismatched(@)]
    BY <1>3 DEF VerifyCode
  <2>2. CASE usable = {}
    BY <2>1, <2>2 DEF CodesMove
  <2>3. CASE usable # {}
    <3> DEFINE c == Max(usable)
               new == IF right THEN Matched(codes[c]) ELSE Mismatched(codes[c])
    <3>1. c \in DOMAIN codes /\ codes[c].open
      BY <2>3, UsableIsOpen
    <3>2. codes' = [codes EXCEPT ![c] = new]
      BY <2>1, <2>3
    <3>3. TriedAs(codes[c], new)
      BY DEF TriedAs
    <3> HIDE DEF c, new
    <3> QED BY <3>1, <3>2, <3>3 DEF CodesMove
  <2> QED BY <2>2, <2>3
<1>4. CASE Goer(q) /\ ~IssueCode(q) /\ ~VerifyCode(q)
  <2>1. CASE ~WritesMails(q)
    BY <1>4, <2>1, GoersKeepMails DEF CodesMove
  <2>2. CASE WritesMails(q)
    BY <1>4, <2>2 DEF WritesMails, CodesMove, PendRegistration, CreateUser, PendEmailChange,
       ChangeEmail, SoftDelete, ReplaceReset, WriteReset
  <2> QED BY <2>1, <2>2
<1>5. CASE Reader(q) \/ Looker(q)
  BY <1>5, OthersKeepMails DEF CodesMove
<1> QED BY <1>2, <1>3, <1>4, <1>5, EachIsOne

LEMMA ExpireMoves ==
  ASSUME NEW c \in DOMAIN codes, Expire(c)
  PROVE  CodesMove
BY DEF Expire, CodesMove, TriedAs

LEMMA TriedTyped ==
  ASSUME NEW code \in MailedCode, NEW new, TriedAs(code, new)
  PROVE  /\ new \in MailedCode /\ new.email = code.email /\ new.purpose = code.purpose
         /\ \/ new.open = FALSE /\ new.attempts = code.attempts /\ new.passes = code.passes + 1
            \/ /\ new.open => code.attempts + 1 < MaxAttempts
               /\ new.attempts = code.attempts + 1 /\ new.passes = code.passes
            \/ new.open = FALSE /\ new.attempts = code.attempts /\ new.passes = code.passes
<1>1. /\ code.attempts + 1 \in Nat /\ code.passes + 1 \in Nat
      /\ (code.attempts + 1 < MaxAttempts) \in BOOLEAN
  BY AccountsAssumptions DEF MailedCode
<1>2. CASE new = Matched(code)
  BY <1>1, <1>2 DEF Matched, MailedCode
<1>3. CASE new = Mismatched(code)
  BY <1>1, <1>3 DEF Mismatched, MailedCode
<1>4. CASE new = [code EXCEPT !.open = FALSE]
  BY <1>4 DEF MailedCode
<1> QED BY <1>2, <1>3, <1>4 DEF TriedAs

LEMMA CodesStay ==
  ASSUME codes \in Seq(MailedCode), MailedCodesFit, CodesMove
  PROVE  codes' \in Seq(MailedCode) /\ MailedCodesFit'
<1>1. DOMAIN codes = 1..Len(codes) /\ Len(codes) \in Nat /\ \A c \in DOMAIN codes : codes[c] \in MailedCode
  OBVIOUS
<1>2. MaxAttempts \in Nat \ {0}
  BY AccountsAssumptions
<1>3. CASE UNCHANGED codes
  BY <1>3 DEF MailedCodesFit
<1>4. ASSUME NEW email \in Addressed, NEW op \in Ops,
             codes' = Append(codes, [email |-> email, purpose |-> op, attempts |-> 0,
                                     open |-> TRUE, passes |-> 0])
      PROVE  codes' \in Seq(MailedCode) /\ MailedCodesFit'
  <2> DEFINE new == [email |-> email, purpose |-> op, attempts |-> 0, open |-> TRUE, passes |-> 0]
  <2>1. new \in MailedCode /\ new.attempts = 0 /\ new.passes = 0
    BY DEF MailedCode
  <2>2. codes' = Append(codes, new)
    BY <1>4
  <2> HIDE DEF new
  <2>3. codes' \in Seq(MailedCode) /\ DOMAIN codes' = 1..(Len(codes) + 1)
    BY <1>1, <2>1, <2>2
  <2>4. \A c \in DOMAIN codes' : codes'[c] = IF c \in DOMAIN codes THEN codes[c] ELSE new
    BY <1>1, <2>1, <2>2
  <2> QED BY <1>2, <2>1, <2>3, <2>4 DEF MailedCodesFit
<1>5. ASSUME NEW c \in DOMAIN codes, codes[c].open, NEW new, TriedAs(codes[c], new),
             codes' = [codes EXCEPT ![c] = new]
      PROVE  codes' \in Seq(MailedCode) /\ MailedCodesFit'
  <2>1. codes[c] \in MailedCode
    BY <1>1
  <2>2. /\ new \in MailedCode
        /\ \/ new.open = FALSE /\ new.attempts = codes[c].attempts /\ new.passes = codes[c].passes + 1
           \/ /\ new.open => codes[c].attempts + 1 < MaxAttempts
              /\ new.attempts = codes[c].attempts + 1 /\ new.passes = codes[c].passes
           \/ new.open = FALSE /\ new.attempts = codes[c].attempts /\ new.passes = codes[c].passes
    BY <1>5, <2>1, TriedTyped
  <2>3. /\ codes' \in Seq(MailedCode) /\ DOMAIN codes' = DOMAIN codes
        /\ \A d \in DOMAIN codes : codes'[d] = IF d = c THEN new ELSE codes[d]
    BY <1>5, <2>2, SetEntry
  <2>4. codes[c].attempts \in Nat /\ codes[c].passes = 0 /\ codes[c].attempts < MaxAttempts
    BY <1>5, <2>1 DEF MailedCodesFit, MailedCode
  <2>5. /\ new.passes <= 1 /\ new.attempts <= MaxAttempts
        /\ new.open => new.passes = 0 /\ new.attempts < MaxAttempts
        /\ new.passes = 1 => new.attempts < MaxAttempts
    BY <1>2, <2>2, <2>4
  <2> QED BY <2>3, <2>5 DEF MailedCodesFit
<1> QED BY <1>3, <1>4, <1>5 DEF CodesMove

UsedOf(r, link) == IF r.request = link THEN [r EXCEPT !.used = TRUE, !.times = @ + 1] ELSE r

ResetsMove(q) ==
  \/ UNCHANGED resets
  \/ local'[q].pc = "done" /\ \E u \in Nat :
       resets' = {r \in resets : r.user # u}
                   \cup {[request |-> q, user |-> u, used |-> FALSE, times |-> 0]}
  \/ \E link : resets' = {UsedOf(r, link) : r \in resets}

LEMMA ResetsDoMove ==
  ASSUME AccountTypes, NEW q \in DOMAIN local, AccountStep(q) \/ FactorStep(q)
  PROVE  ResetsMove(q)
<1>1. CASE ReplaceReset(q)
  <2>1. local[q].user \in Nat
    BY DEF AccountTypes, LocalState
  <2>2. local'[q].pc = "done"
    BY <1>1, GoesWhere DEF ReplaceReset, Same
  <2> QED BY <1>1, <2>1, <2>2 DEF ReplaceReset, ResetsMove
<1>2. CASE WriteReset(q)
  <2>1. resets' = {UsedOf(r, local[q].pending.request) : r \in resets}
    BY <1>2 DEF WriteReset, UsedOf
  <2> QED BY <2>1 DEF ResetsMove
<1>3. CASE Goer(q) /\ ~ReplaceReset(q) /\ ~WriteReset(q)
  <2>1. CASE ~WritesMails(q)
    BY <1>3, <2>1, GoersKeepMails DEF ResetsMove
  <2>2. CASE WritesMails(q)
    BY <1>3, <2>2 DEF WritesMails, ResetsMove, IssueCode, VerifyCode, PendRegistration, CreateUser,
       PendEmailChange, ChangeEmail, SoftDelete
  <2> QED BY <2>1, <2>2
<1>4. CASE Reader(q) \/ Looker(q)
  BY <1>4, OthersKeepMails DEF ResetsMove
<1> QED BY <1>1, <1>2, <1>3, <1>4, EachIsOne

ResetOf(request, user, used, times) ==
  [request |-> request, user |-> user, used |-> used, times |-> times]

LEMMA UsedIs ==
  ASSUME NEW r \in Reset, NEW link
  PROVE  LET x == UsedOf(r, link) IN
         /\ x \in Reset /\ x.request = r.request /\ x.user = r.user
         /\ r.request = link => x.used /\ x.times = r.times + 1
         /\ r.request # link => x = r
<1>1. r.times + 1 \in Nat /\ TRUE \in BOOLEAN
  BY DEF Reset
<1>2. ASSUME NEW b \in BOOLEAN, NEW n \in Nat
      PROVE  [r EXCEPT !.used = b, !.times = n] = ResetOf(r.request, r.user, b, n)
  <2>1. [r EXCEPT !.used = b] = ResetOf(r.request, r.user, b, r.times)
    BY DEF Reset, ResetOf
  <2>2. [ResetOf(r.request, r.user, b, r.times) EXCEPT !.times = n] = ResetOf(r.request, r.user, b, n)
    BY DEF ResetOf
  <2> DEFINE first == [r EXCEPT !.used = b]
  <2>3. [r EXCEPT !.used = b, !.times = n] = [first EXCEPT !.times = n]
    OBVIOUS
  <2> HIDE DEF first
  <2> QED BY <2>1, <2>2, <2>3 DEF first
<1>3. CASE r.request = link
  <2>1. UsedOf(r, link) = ResetOf(r.request, r.user, TRUE, r.times + 1)
    <3>1. UsedOf(r, link) = [r EXCEPT !.used = TRUE, !.times = r.times + 1]
      BY <1>3 DEF UsedOf
    <3> QED BY <1>1, <1>2, <3>1, Zenon
  <2>2. r.request \in Requests /\ r.user \in Nat
    BY DEF Reset
  <2> QED BY <1>1, <1>3, <2>1, <2>2 DEF ResetOf, Reset
<1>4. CASE r.request # link
  BY <1>4 DEF UsedOf
<1> QED BY <1>3, <1>4

LEMMA ResetsStay ==
  ASSUME AccountTypes, ResetsFit, NEW q \in DOMAIN local, Steps(q), ResetsMove(q)
  PROVE  resets' \subseteq Reset /\ ResetsFit'
<1>1. /\ \A r \in resets : r \in Reset /\ Spent(r.request)' /\ r.request # q /\ (~r.used => r.times = 0)
      /\ \A one, two \in resets : one.request = two.request => one = two
  BY SpentStays DEF AccountTypes, ResetsFit
<1>2. CASE UNCHANGED resets
  BY <1>1, <1>2 DEF ResetsFit
<1>3. CASE local'[q].pc = "done" /\ \E u \in Nat :
             resets' = {r \in resets : r.user # u}
                         \cup {[request |-> q, user |-> u, used |-> FALSE, times |-> 0]}
  <2>1. PICK u \in Nat :
          resets' = {r \in resets : r.user # u}
                      \cup {[request |-> q, user |-> u, used |-> FALSE, times |-> 0]}
    BY <1>3
  <2> DEFINE new == [request |-> q, user |-> u, used |-> FALSE, times |-> 0]
  <2>2. new \in Reset /\ new.request = q /\ new.times = 0
    BY DEF Reset, AccountTypes
  <2>3. Spent(q)'
    BY <1>3 DEF Spent
  <2>4. \A r \in resets' : r \in resets \/ r = new
    BY <2>1
  <2> HIDE DEF new
  <2>5. \A r \in resets' : r \in Reset /\ Spent(r.request)' /\ (~r.used => r.times = 0)
    BY <1>1, <2>2, <2>3, <2>4
  <2>6. \A one, two \in resets' : one.request = two.request => one = two
    BY <1>1, <2>2, <2>4
  <2> QED BY <2>5, <2>6 DEF ResetsFit
<1>4. CASE \E link : resets' = {UsedOf(r, link) : r \in resets}
  <2>1. PICK link : resets' = {UsedOf(r, link) : r \in resets}
    BY <1>4
  <2>2. \A x \in resets' : \E r \in resets : x = UsedOf(r, link)
    BY <2>1
  <2>3. \A r \in resets : LET x == UsedOf(r, link) IN
          /\ x \in Reset /\ x.request = r.request
          /\ r.request = link => x.used
          /\ r.request # link => x = r
    BY <1>1, UsedIs
  <2>4. \A x \in resets' : x \in Reset /\ Spent(x.request)' /\ (~x.used => x.times = 0)
    BY <1>1, <2>2, <2>3
  <2>5. \A one, two \in resets' : one.request = two.request => one = two
    BY <1>1, <2>2, <2>3
  <2> QED BY <2>4, <2>5 DEF ResetsFit
<1> QED BY <1>2, <1>3, <1>4 DEF ResetsMove

PendingsMove(q) ==
  /\ pendReg' \subseteq pendReg \cup {[request |-> q, email |-> q.email]}
  /\ pendChange' \subseteq pendChange \cup {[request |-> q, user |-> local[q].user, email |-> q.email]}
  /\ enrolling' \subseteq enrolling \cup {local[q].user}

LEMMA PendingsDoMove ==
  ASSUME NEW q, AccountStep(q) \/ FactorStep(q)
  PROVE  PendingsMove(q)
<1>1. CASE Goer(q) /\ WritesMails(q)
  BY <1>1 DEF WritesMails, PendingsMove, IssueCode, VerifyCode, PendRegistration, CreateUser,
       PendEmailChange, ChangeEmail, SoftDelete, ReplaceReset, WriteReset
<1>2. CASE Goer(q) /\ ~WritesMails(q)
  <2>1. UNCHANGED <<pendReg, pendChange>>
    BY <1>2, GoersKeepMails
  <2>2. enrolling' \subseteq enrolling \cup {local[q].user}
    BY <1>2 DEF Goer, WritesMails, Prove, Ends, StartRegistration, AskEmailChange, ChangePassword,
         Others, SetRole, ToggleLock, OpenSession, DropIdentity, PushIdentity, UnlinkIdentity,
         Enroll, ReadEnrolment, EnableFactor, DisableFactor, RegenerateCodes,
         VerifyTotp, RotateSession, pendings, pendingMails
  <2> QED BY <2>1, <2>2 DEF PendingsMove
<1>3. CASE Reader(q) \/ Looker(q)
  BY <1>3, OthersKeepMails DEF PendingsMove
<1> QED BY <1>1, <1>2, <1>3, EachIsOne

LEMMA PendingsStay ==
  ASSUME AccountTypes, NEW q \in DOMAIN local, PendingsMove(q)
  PROVE  pendReg' \subseteq Registration /\ pendChange' \subseteq Change /\ enrolling' \subseteq Nat
<1>1. q \in Requests /\ q.email \in Addressed /\ local[q].user \in Nat
  BY RequestTyped DEF AccountTypes, LocalState
<1>2. /\ [request |-> q, email |-> q.email] \in Registration
      /\ [request |-> q, user |-> local[q].user, email |-> q.email] \in Change
  BY <1>1 DEF Registration, Change
<1>3. pendReg \subseteq Registration /\ pendChange \subseteq Change /\ enrolling \subseteq Nat
  BY DEF AccountTypes
<1> QED BY <1>1, <1>2, <1>3 DEF PendingsMove

(* The requests that may have read past a write.                           *)
OverlapsMove(q) ==
  \/ UNCHANGED <<passed, overlapped>>
  \/ Acts(q)
  \/ Writes(q)

LEMMA OverlapsDoMove ==
  ASSUME NEW q, AccountStep(q) \/ FactorStep(q)
  PROVE  OverlapsMove(q)
<1>1. CASE Goer(q)
  BY <1>1 DEF Goer, Prove, Ends, StartRegistration, IssueCode, PendRegistration, VerifyCode, CreateUser,
       AskEmailChange, PendEmailChange, ChangeEmail, ChangePassword, SoftDelete, Others, SetRole,
       ToggleLock, OpenSession, DropIdentity, PushIdentity, UnlinkIdentity, ReplaceReset,
       WriteReset, Enroll, ReadEnrolment, EnableFactor, DisableFactor, RegenerateCodes,
       VerifyTotp, RotateSession, OverlapsMove, overlaps
<1>2. CASE Reader(q) \/ Looker(q)
  BY <1>2 DEF Reader, VerifyRegistration, ConfirmEmailChange, FindIdentity, FindOwner, FindEmail,
       CreateFromOAuth, RequestReset, Looker, Authenticate, Login, LookForFactor, ConfirmReset,
       FindPending, ConsumeRecoveryCode, OverlapsMove, overlaps
<1> QED BY <1>1, <1>2, EachIsOne

LEMMA OverlapsStay ==
  ASSUME AccountTypes, NEW q \in DOMAIN local, OthersWait(q), OverlapsMove(q)
  PROVE  passed' \subseteq DOMAIN local' /\ overlapped' \in BOOLEAN
<1>1. passed \subseteq DOMAIN local /\ overlapped \in BOOLEAN /\ DOMAIN local' = DOMAIN local
  BY DEF AccountTypes, OthersWait
<1>2. (overlapped \/ q \in passed) \in BOOLEAN
  OBVIOUS
<1>3. passed' \subseteq passed \cup UnderWay \cup {}
  BY DEF OverlapsMove, Acts, Writes
<1>4. overlapped' = overlapped \/ overlapped' = (overlapped \/ q \in passed)
  BY DEF OverlapsMove, Acts, Writes
<1> QED BY <1>1, <1>2, <1>3, <1>4 DEF UnderWay

LEMMA TypesStay ==
  ASSUME AccountTypes, RequestsFit, RowsFit, SessionsFit, MailedCodesFit, ResetsFit,
         NEW q \in DOMAIN local, AccountStep(q) \/ FactorStep(q)
  PROVE  AccountTypes'
<1>1. Steps(q)
  BY EachSteps
<1>2. users' \in Seq(Account)
  BY <1>1 DEF Steps, UsersGrow
<1>3. idents' \subseteq Identity /\ made' \in Nat
  BY <1>1, RowsStay
<1>4. codes' \in Seq(MailedCode)
  BY CodesDoMove, CodesStay DEF AccountTypes
<1>5. pendReg' \subseteq Registration /\ pendChange' \subseteq Change /\ enrolling' \subseteq Nat
  BY PendingsDoMove, PendingsStay
<1>6. resets' \subseteq Reset
  BY <1>1, ResetsDoMove, ResetsStay
<1>7. sessions' \subseteq Session
  BY <1>1, SessionsStay
<1>8. DOMAIN local' \subseteq Requests /\ local' \in [DOMAIN local' -> LocalState]
  BY LocalStaysTyped DEF LocalTyped
<1>9. passed' \subseteq DOMAIN local' /\ overlapped' \in BOOLEAN
  BY <1>1, OverlapsDoMove, OverlapsStay DEF Steps, Moving
<1> QED BY <1>2, <1>3, <1>4, <1>5, <1>6, <1>7, <1>8, <1>9 DEF AccountTypes

-----------------------------------------------------------------------------
(* Where the step leaves the request that takes it.                        *)
MoverFits(q) == UserFits(q)' /\ RowFits(q)' /\ StepFits(q)' /\ TokenFits(q)'

RunsAlong(q) == AccountTypes /\ RequestsFit /\ RowsFit /\ SessionsFit /\ Steps(q)

SpentNext(r) == r \in DOMAIN local' => local'[r].pc \in {"done", "in"}

LEMMA MoverKeeps ==
  ASSUME NEW q \in DOMAIN local, RunsAlong(q)
  PROVE  /\ local[q].user \in 0..Len(users) /\ 0..Len(users) \subseteq 0..Len(users')
         /\ DOMAIN users \subseteq 1..Len(users') /\ DOMAIN users' = 1..Len(users')
         /\ UserFits(q) /\ RowFits(q) /\ StepFits(q) /\ TokenFits(q)
         /\ local[q].token # NoSession =>
              local[q].token \in Session /\ SpentNext(local[q].token.request)
         /\ \A s \in sessions : s \in Session /\ s.user \in DOMAIN users /\ SpentNext(s.request)
         /\ local[q] \in LocalState /\ q \in Requests
<1>1. /\ Len(users) \in Nat /\ Len(users') \in Nat /\ Len(users) <= Len(users')
      /\ DOMAIN users = 1..Len(users) /\ DOMAIN users' = 1..Len(users')
  BY UsersAre DEF RunsAlong, Steps, UsersGrow
<1>2. UserFits(q) /\ RowFits(q) /\ StepFits(q) /\ TokenFits(q)
  BY DEF RunsAlong, RequestsFit
<1>3. local[q].user \in 0..Len(users)
  BY <1>2 DEF UserFits
<1>4. local[q].token # NoSession =>
        local[q].token \in Session /\ SpentNext(local[q].token.request)
  <2>1. local[q].token # NoSession => local[q].token \in Session /\ Spent(local[q].token.request)
    BY <1>2 DEF TokenFits
  <2>2. Steps(q)
    BY DEF RunsAlong
  <2>3. \A r : Spent(r) => SpentNext(r)
    BY <2>2, SpentStays DEF Spent, SpentNext
  <2> QED BY <2>1, <2>3
<1>5. \A s \in sessions : s \in Session /\ s.user \in DOMAIN users /\ SpentNext(s.request)
  BY SpentStays DEF RunsAlong, SessionsFit, AccountTypes, SpentNext, Spent
<1> QED BY <1>1, <1>2, <1>3, <1>4, <1>5 DEF RunsAlong, AccountTypes

LEMMA GoPlain ==
  ASSUME NEW q \in DOMAIN local, RunsAlong(q),
         NEW pc \in {"done", "issue", "pend", "email", "create"}, Same(q, pc)
  PROVE  MoverFits(q)
<1>1. pc \in Nobodys
  BY DEF Nobodys
<1> QED BY <1>1, MoverKeeps DEF MoverFits, Same, UserFits, RowFits, StepFits, TokenFits, Spent, SpentNext

LEMMA GoOn ==
  ASSUME NEW q \in DOMAIN local, RunsAlong(q), local[q].user # 0,
         NEW pc \in {"check", "others", "delete", "disable", "promote", "demote", "lock", "push",
                     "look", "find"},
         Same(q, pc), pc = "others" => q.op = "delete"
  PROVE  MoverFits(q)
BY MoverKeeps DEF MoverFits, Same, UserFits, RowFits, StepFits, TokenFits, Spent, SpentNext

LEMMA DoersFit ==
  ASSUME NEW q \in DOMAIN local, RunsAlong(q),
         \/ Ends(q) \/ PendRegistration(q) \/ CreateUser(q) \/ PendEmailChange(q) \/ ChangeEmail(q)
         \/ ChangePassword(q) \/ SoftDelete(q) \/ SetRole(q) \/ ToggleLock(q) \/ OpenSession(q)
         \/ UnlinkIdentity(q) \/ ReplaceReset(q) \/ WriteReset(q) \/ Enroll(q) \/ DisableFactor(q)
         \/ RegenerateCodes(q)
  PROVE  MoverFits(q) /\ Same(q, "done")
<1>1. Goes(q, "done")
  BY DEF Ends, PendRegistration, CreateUser, PendEmailChange, ChangeEmail, ChangePassword, SoftDelete,
         SetRole, ToggleLock, OpenSession, UnlinkIdentity, ReplaceReset, WriteReset, Enroll,
         DisableFactor, RegenerateCodes
<1>2. Same(q, "done")
  BY <1>1, GoesWhere DEF RunsAlong
<1> QED BY <1>2, GoPlain

LEMMA GoersFit ==
  ASSUME NEW q \in DOMAIN local, RunsAlong(q),
         \/ StartRegistration(q) \/ IssueCode(q) \/ AskEmailChange(q) \/ Prove(q) \/ Others(q)
         \/ VerifyCode(q) \/ DropIdentity(q) \/ PushIdentity(q) \/ FindOwner(q)
  PROVE  MoverFits(q)
<1>1. AccountTypes /\ UserFits(q) /\ StepFits(q) /\ RowFits(q)
  BY MoverKeeps DEF RunsAlong
<1>2. CASE StartRegistration(q) \/ IssueCode(q) \/ AskEmailChange(q)
  <2>1. Goes(q, "issue") \/ Goes(q, "pend")
    BY <1>2 DEF StartRegistration, IssueCode, AskEmailChange
  <2> QED BY <1>1, <2>1, GoesWhere, GoPlain
<1>3. CASE Prove(q)
  <2>1. /\ q.op \in {"delete", "password", "disable"} /\ local[q].user # 0
        /\ Goes(q, NextStep(q.op, local[q].admin))
    BY <1>1, <1>3 DEF Prove, StepFits, UserFits, Nobodys
  <2> DEFINE pc == NextStep(q.op, local[q].admin)
  <2>2. pc \in {"check", "others", "delete", "disable"} /\ (pc = "others" => q.op = "delete")
    BY <2>1 DEF NextStep, Admin
  <2>3. Same(q, pc)
    BY <1>1, <2>1, GoesWhere
  <2> HIDE DEF pc
  <2> QED BY <2>1, <2>2, <2>3, GoOn
<1>4. CASE Others(q)
  <2>1. q.op \in {"promote", "demote", "lock", "delete"} /\ local[q].user # 0 /\ Goes(q, q.op)
    BY <1>1, <1>4 DEF Others, StepFits, UserFits, Nobodys, Admin
  <2>2. Same(q, q.op)
    BY <1>1, <2>1, GoesWhere
  <2> QED BY <2>1, <2>2, GoOn
<1>5. CASE VerifyCode(q)
  <2>1. Goes(q, "done") \/ Goes(q, "write")
    BY <1>5 DEF VerifyCode
  <2>2. Same(q, "done") \/ Same(q, "write")
    BY <1>1, <2>1, GoesWhere
  <2>3. CASE Same(q, "done")
    BY <2>3, GoPlain
  <2>4. CASE Same(q, "write")
    <3>1. /\ local[q].pc = "spend"
          /\ q.op \in {"verify", "confirmChange"}
          /\ q.op = "verify" => local[q].pending \in Registration
          /\ q.op = "confirmChange" => local[q].pending \in Change
      BY <1>1, <1>5 DEF VerifyCode, StepFits
    <3>2. UserFits(q)' /\ RowFits(q)' /\ TokenFits(q)'
      BY <2>4, MoverKeeps DEF Same, UserFits, RowFits, TokenFits, Spent, SpentNext, Nobodys
    <3>3. StepFits(q)'
      BY <2>4, <3>1 DEF Same, StepFits
    <3> QED BY <3>2, <3>3 DEF MoverFits
  <2> QED BY <2>2, <2>3, <2>4
<1>6. CASE DropIdentity(q)
  <2>1. (local[q].user # 0 /\ Goes(q, "push")) \/ Goes(q, "email")
    BY <1>6 DEF DropIdentity, Linking
  <2>2. (local[q].user # 0 /\ Same(q, "push")) \/ Same(q, "email")
    BY <1>1, <2>1, GoesWhere
  <2> QED BY <2>2, GoPlain, GoOn
<1>7. CASE PushIdentity(q)
  <2>1. local[q].user # 0 /\ (Goes(q, "look") \/ Goes(q, "done"))
    BY <1>1, <1>7 DEF PushIdentity, UserFits, Nobodys
  <2>2. Same(q, "look") \/ Same(q, "done")
    BY <1>1, <2>1, GoesWhere
  <2> QED BY <2>1, <2>2, GoPlain, GoOn
<1>8. CASE FindOwner(q)
  <2>1. CASE local[q].row.user \notin LiveUsers
    <3>1. local[q].pc = "owner" /\ Same(q, "stale") /\ UNCHANGED <<users, idents, made>>
      BY <1>1, <1>8, <2>1, GoesWhere DEF FindOwner, accounts
    <3>2. RowFits(q)'
      BY <1>1, <2>1, <3>1 DEF RowFits, Same, Untouched, LiveUsers
    <3>3. UserFits(q)' /\ StepFits(q)' /\ TokenFits(q)'
      BY <3>1, MoverKeeps DEF Same, UserFits, StepFits, TokenFits, Spent, SpentNext, Nobodys
    <3> QED BY <3>2, <3>3 DEF MoverFits
  <2>2. CASE local[q].row.user \in LiveUsers /\ Linking(q)
    <3>1. Goes(q, "look") \/ Goes(q, "done")
      BY <1>8, <2>2 DEF FindOwner
    <3>2. Same(q, "look") \/ Same(q, "done")
      BY <1>1, <3>1, GoesWhere
    <3> QED BY <2>2, <3>2, GoPlain, GoOn DEF Linking
  <2>3. CASE local[q].row.user \in LiveUsers /\ ~Linking(q)
    <3> DEFINE l == local[q]
               u == l.row.user
    <3>1. u \in DOMAIN users /\ ReadsUser(q, "look", u)
      BY <1>8, <2>3 DEF FindOwner, LiveUsers
    <3>2. Gets(q, StateOf("look", u, l.admin, l.pending, l.row, l.kind, l.token, l.code))
      BY <1>1, <3>1, ReadsUserTo
    <3>3. local'[q].pc = "look" /\ local'[q].user = u /\ local'[q].token = l.token
      BY <3>2 DEF Gets, StateOf
    <3>4. u \in 1..Len(users')
      BY <3>1, MoverKeeps
    <3>5. local'[q].user \in 0..Len(users') /\ local'[q].user # 0
      BY <3>3, <3>4
    <3> HIDE DEF l, u
    <3>6. TokenFits(q)'
      BY <3>3, MoverKeeps DEF TokenFits, Spent, SpentNext, l
    <3> QED BY <3>3, <3>5, <3>6 DEF MoverFits, UserFits, RowFits, StepFits
  <2> QED BY <2>1, <2>2, <2>3
<1> QED BY <1>2, <1>3, <1>4, <1>5, <1>6, <1>7, <1>8

LEMMA FindersFit ==
  ASSUME NEW q \in DOMAIN local, RunsAlong(q),
         \/ VerifyRegistration(q) \/ ConfirmEmailChange(q) \/ FindIdentity(q) \/ FindEmail(q)
         \/ CreateFromOAuth(q) \/ RequestReset(q)
  PROVE  MoverFits(q)
<1> DEFINE l == local[q]
<1>1. AccountTypes /\ UserFits(q) /\ StepFits(q) /\ RowFits(q) /\ TokenFits(q)
  BY MoverKeeps DEF RunsAlong
<1>2. ASSUME NEW u, u \in DOMAIN users', NEW pc \in {"find", "look", "replace"}, ReadsUser(q, pc, u)
      PROVE  MoverFits(q)
  <2>1. Gets(q, StateOf(pc, u, l.admin, l.pending, l.row, l.kind, l.token, l.code))
    BY <1>1, <1>2, ReadsUserTo
  <2>2. local'[q].pc = pc /\ local'[q].user = u /\ local'[q].token = l.token
    BY <2>1 DEF Gets, StateOf
  <2>3. u \in 1..Len(users')
    BY <1>2, MoverKeeps
  <2>4. local'[q].user \in 0..Len(users') /\ local'[q].user # 0
    BY <2>2, <2>3
  <2> HIDE DEF l
  <2>5. TokenFits(q)'
    BY <1>2, <2>2, MoverKeeps DEF TokenFits, Spent, SpentNext, l
  <2> QED BY <1>2, <2>2, <2>4, <2>5 DEF MoverFits, UserFits, RowFits, StepFits
<1>3. CASE VerifyRegistration(q) \/ ConfirmEmailChange(q)
  <2>1. PICK p : /\ ReadsPending(q, "spend", p)
                 /\ q.op \in {"verify", "confirmChange"}
                 /\ q.op = "verify" => p \in Registration
                 /\ q.op = "confirmChange" => p \in Change
    BY <1>1, <1>3 DEF VerifyRegistration, ConfirmEmailChange, At, AccountTypes
  <2>2. Gets(q, StateOf("spend", l.user, l.admin, p, l.row, l.kind, l.token, l.code))
    BY <1>1, <2>1, ReadsPendingTo
  <2>3. /\ local'[q].pc = "spend" /\ local'[q].user = l.user /\ local'[q].token = l.token
        /\ local'[q].pending = p
    BY <2>2 DEF Gets, StateOf
  <2>4. UserFits(q)' /\ RowFits(q)' /\ TokenFits(q)'
    BY <2>3, MoverKeeps DEF UserFits, RowFits, TokenFits, Spent, SpentNext, Nobodys
  <2>5. StepFits(q)'
    BY <2>1, <2>3 DEF StepFits
  <2> QED BY <2>4, <2>5 DEF MoverFits
<1>4. CASE FindIdentity(q)
  <2>1. CASE (Goes(q, "push") /\ Linking(q)) \/ Goes(q, "email")
    <3>1. (Same(q, "push") /\ local[q].user # 0) \/ Same(q, "email")
      BY <1>1, <2>1, GoesWhere DEF Linking
    <3> QED BY <3>1, GoPlain, GoOn
  <2>2. CASE \E row \in idents : row.ident = q.ident /\ ReadsRow(q, "owner", row)
    <3>1. PICK row \in idents : row.ident = q.ident /\ ReadsRow(q, "owner", row)
      BY <2>2
    <3>2. Gets(q, StateOf("owner", l.user, l.admin, l.pending, row, l.kind, l.token, l.code))
      BY <1>1, <3>1, ReadsRowTo
    <3>3. /\ local'[q].pc = "owner" /\ local'[q].user = l.user /\ local'[q].token = l.token
          /\ local'[q].row = row
      BY <3>2 DEF Gets, StateOf
    <3>4. UNCHANGED <<users, idents, made>>
      BY <1>4 DEF FindIdentity, accounts
    <3>5. UserFits(q)' /\ StepFits(q)' /\ TokenFits(q)'
      BY <3>3, MoverKeeps DEF UserFits, StepFits, TokenFits, Spent, SpentNext, Nobodys
    <3>6. /\ row \in Identity /\ row.user \in DOMAIN users /\ row.id <= made
          /\ \A other \in idents : other.id = row.id => other = row
      BY <3>1 DEF RunsAlong, AccountTypes, RowsFit
    <3> HIDE DEF l
    <3>7. RowFits(q)'
      BY <3>1, <3>3, <3>4, <3>6 DEF RowFits
    <3> QED BY <3>5, <3>7 DEF MoverFits
  <2> QED BY <1>4, <2>1, <2>2 DEF FindIdentity
<1>5. CASE FindEmail(q)
  <2> DEFINE named == {u \in LiveUsers : q.email # NoEmail /\ users[u].email = q.email}
  <2>1. Goes(q, "create") \/ (named # {} /\ ReadsUser(q, "find", Min(named)))
    BY <1>5 DEF FindEmail
  <2>2. named \in SUBSET DOMAIN users
    BY DEF LiveUsers
  <2> HIDE DEF named
  <2>3. CASE Goes(q, "create")
    BY <1>1, <2>3, GoesWhere, GoPlain
  <2>4. CASE named # {} /\ ReadsUser(q, "find", Min(named))
    <3>1. Min(named) \in DOMAIN users'
      BY <1>1, <2>2, <2>4, FirstAccount, MoverKeeps
    <3> QED BY <1>2, <2>4, <3>1
  <2> QED BY <2>1, <2>3, <2>4
<1>6. CASE CreateFromOAuth(q)
  <2>1. ReadsUser(q, "look", Len(users) + 1)
    BY <1>6 DEF CreateFromOAuth
  <2>2. Len(users) + 1 \in DOMAIN users'
    BY <1>1, <1>6, CreateFromOAuthEffect, AppendsAre DEF RunsAlong
  <2> QED BY <1>2, <2>1, <2>2
<1>7. CASE RequestReset(q)
  <2> DEFINE named == {u \in LiveUsers : users[u].email = q.email}
  <2>1. named # {} /\ ReadsUser(q, "replace", Min(named))
    BY <1>7 DEF RequestReset
  <2>2. named \in SUBSET DOMAIN users
    BY DEF LiveUsers
  <2> HIDE DEF named
  <2>3. Min(named) \in DOMAIN users'
    BY <1>1, <2>1, <2>2, FirstAccount, MoverKeeps
  <2> QED BY <1>2, <2>1, <2>3
<1> QED BY <1>3, <1>4, <1>5, <1>6, <1>7

LEMMA AskedAre ==
  ASSUME NEW op \in Private, NEW u, NEW pc \in Asked(op, u)
  PROVE  /\ pc \notin Nobodys /\ pc # "ready"
         /\ pc = "others" => op \in Admin \cup {"delete"}
         /\ pc = "prove" => op \in {"delete", "password", "disable"}
         /\ pc \notin {"session", "in", "spend", "write", "totp", "recovery", "rotate", "enable",
                       "owner", "stale"}
         /\ pc \in {"check", "others", "delete", "find", "prove", "unlink", "disable",
                    "regenerate", "enroll", "confirmFactor"}
<1>1. /\ Admin = {"promote", "demote", "lock"}
      /\ op \in {"askChange", "confirmChange", "delete", "password", "link", "unlink", "disable",
                 "regenerate", "promote", "demote", "lock", "enroll", "confirmFactor"}
  BY DEF Private, Admin, Enrols
<1>2. pc = NextStep(op, users[u].admin) \/ (pc = "prove" /\ op \in {"delete", "password", "disable"})
  BY DEF Asked
<1>3. /\ NextStep(op, users[u].admin) \in {"check", "others", "delete", "find", "unlink",
                    "disable", "regenerate", "enroll", "confirmFactor"}
      /\ NextStep(op, users[u].admin) = "others" => op \in Admin \cup {"delete"}
  BY <1>1 DEF NextStep
<1>4. /\ pc = "others" => op \in Admin \cup {"delete"}
      /\ pc = "prove" => op \in {"delete", "password", "disable"}
      /\ pc \in {"check", "others", "delete", "find", "prove", "unlink", "disable",
                 "regenerate", "enroll", "confirmFactor"}
  BY <1>2, <1>3
<1> QED BY <1>4 DEF Nobodys

LEMMA LookersFit ==
  ASSUME NEW q \in DOMAIN local, RunsAlong(q), Looker(q)
  PROVE  MoverFits(q)
<1> DEFINE l == local[q]
<1>1. AccountTypes /\ UserFits(q) /\ StepFits(q) /\ RowFits(q) /\ TokenFits(q)
  BY MoverKeeps DEF RunsAlong
<1>2. \A u \in DOMAIN users : u \in 0..Len(users') /\ u # 0
  BY MoverKeeps
<1>3. \A s \in sessions : s \in Session /\ s # NoSession /\ SpentNext(s.request)
                          /\ s.user \in DOMAIN users
  <2>1. \A s \in sessions : s.user # 0
    BY <1>2, MoverKeeps
  <2>2. NoSession.user = 0
    BY DEF NoSession
  <2> QED BY <2>1, <2>2, MoverKeeps
<1>4. CASE Authenticate(q)
  <2>1. PICK s \in sessions : \E pc \in Asked(q.op, s.user) : AuthenticatesAs(q, s, pc)
    BY <1>1, <1>4, AuthenticateEffect
  <2>2. PICK pc \in Asked(q.op, s.user) : AuthenticatesAs(q, s, pc)
    BY <2>1
  <2>3. /\ local'[q].pc = pc /\ local'[q].user = s.user /\ local'[q].token = s
        /\ q.op \in Private
    BY <2>2 DEF AuthenticatesAs, Gets, StateOf
  <2>4. /\ pc \notin Nobodys /\ pc # "ready"
        /\ pc = "others" => q.op \in Admin \cup {"delete"}
        /\ pc = "prove" => q.op \in {"delete", "password", "disable"}
        /\ pc \notin {"session", "in", "spend", "write", "totp", "recovery", "rotate", "enable",
                      "owner", "stale"}
    BY <2>3, AskedAre
  <2>5. UserFits(q)' /\ RowFits(q)' /\ StepFits(q)'
    BY <1>2, <1>3, <2>3, <2>4 DEF UserFits, RowFits, StepFits
  <2>6. TokenFits(q)'
    BY <1>3, <2>3, <2>4 DEF TokenFits, Spent, SpentNext
  <2> QED BY <2>5, <2>6 DEF MoverFits
<1>5. CASE Login(q)
  <2>1. PICK u \in DOMAIN users : LogsInAs(q, u)
    BY <1>1, <1>5, LoginEffect
  <2>2. /\ local'[q].pc = "session" /\ local'[q].user = u /\ local'[q].token = l.token
        /\ q.op = "login"
    BY <2>1 DEF LogsInAs, Gets, StateOf, At
  <2> HIDE DEF l
  <2>3. TokenFits(q)'
    BY <2>2, MoverKeeps DEF TokenFits, Spent, SpentNext, l
  <2> QED BY <1>2, <2>2, <2>3 DEF MoverFits, UserFits, RowFits, StepFits
<1>6. CASE LookForFactor(q)
  <2>1. /\ local'[q].pc = "session" /\ local'[q].user = l.user /\ local'[q].token = l.token
        /\ q.op = "oauth" /\ l.pc = "look"
    <3> DEFINE kind == IF On(l.user) THEN "second" ELSE "full"
    <3>1. /\ At(q, "oauth", "look")
          /\ Gets(q, StateOf("session", l.user, l.admin, l.pending, l.row, kind, l.token, l.code))
      BY <1>1, <1>6, LookEffect
    <3> HIDE DEF kind
    <3> QED BY <3>1 DEF Gets, StateOf, At
  <2>2. l.user # 0 /\ l.user \in 0..Len(users')
    BY <1>1, <2>1, MoverKeeps DEF UserFits, Nobodys
  <2> HIDE DEF l
  <2>3. TokenFits(q)'
    BY <2>1, MoverKeeps DEF TokenFits, Spent, SpentNext, l
  <2> QED BY <2>1, <2>2, <2>3 DEF MoverFits, UserFits, RowFits, StepFits
<1>7. CASE ConfirmReset(q)
  <2>1. PICK r \in resets : ConfirmsReset(q, r)
    BY <1>1, <1>7, ConfirmResetEffect
  <2>2. /\ local'[q].pc = "write" /\ local'[q].user = r.user /\ local'[q].token = l.token
        /\ local'[q].pending = r /\ q.op = "reset" /\ r \in Reset /\ r.user \in DOMAIN users
    BY <1>1, <2>1 DEF ConfirmsReset, Gets, StateOf, At, AccountTypes, LiveUsers
  <2> HIDE DEF l
  <2>3. TokenFits(q)'
    BY <2>2, MoverKeeps DEF TokenFits, Spent, SpentNext, l
  <2> QED BY <1>2, <2>2, <2>3 DEF MoverFits, UserFits, RowFits, StepFits
<1>8. CASE FindPending(q)
  <2>1. PICK s \in sessions, pc \in {"totp", "recovery"} : FindsPending(q, s, pc)
    BY <1>1, <1>8, FindPendingEffect
  <2>2. /\ local'[q].pc = pc /\ local'[q].user = s.user /\ local'[q].token = s
        /\ s.kind = "second"
    BY <2>1 DEF FindsPending, Gets, StateOf
  <2>3. TokenFits(q)'
    BY <1>3, <2>2 DEF TokenFits, Spent, SpentNext
  <2> QED BY <1>2, <1>3, <2>2, <2>3 DEF MoverFits, UserFits, RowFits, StepFits
<1>9. CASE ConsumeRecoveryCode(q)
  <2>1. PICK code \in users[l.user].factor.codes : Consumes(q, code)
    BY <1>1, <1>9, ConsumeEffect
  <2>2. /\ local'[q].pc = "rotate" /\ local'[q].user = l.user /\ local'[q].token = l.token
        /\ l.pc = "recovery" /\ q.op = "second"
    BY <2>1 DEF Consumes, Gets, StateOf, At
  <2>3. l.user # 0 /\ l.user \in 0..Len(users')
    BY <1>1, <2>2, MoverKeeps DEF UserFits, Nobodys
  <2> HIDE DEF l
  <2>4. TokenFits(q)'
    BY <1>1, <2>2, MoverKeeps DEF TokenFits, Spent, SpentNext, l
  <2> QED BY <2>2, <2>3, <2>4 DEF MoverFits, UserFits, RowFits, StepFits
<1> QED BY <1>4, <1>5, <1>6, <1>7, <1>8, <1>9 DEF Looker

LEMMA FactorsFit ==
  ASSUME NEW q \in DOMAIN local, RunsAlong(q),
         ReadEnrolment(q) \/ EnableFactor(q) \/ VerifyTotp(q) \/ RotateSession(q)
  PROVE  MoverFits(q)
<1> DEFINE l == local[q]
<1>1. /\ AccountTypes /\ UserFits(q) /\ StepFits(q) /\ RowFits(q) /\ TokenFits(q)
      /\ l.user \in 0..Len(users')
  BY MoverKeeps DEF RunsAlong
<1>2. l.user # 0
  BY <1>1 DEF ReadEnrolment, EnableFactor, VerifyTotp, RotateSession, UserFits, Nobodys, At
<1>3. CASE ReadEnrolment(q)
  <2>1. Same(q, "enable") /\ At(q, "confirmFactor", "confirmFactor")
    BY <1>1, <1>3, GoesWhere DEF ReadEnrolment
  <2>2. TokenFits(q)'
    BY <1>1, <2>1, MoverKeeps DEF TokenFits, Spent, SpentNext, Same, At
  <2> QED BY <1>1, <1>2, <2>1, <2>2 DEF MoverFits, UserFits, RowFits, StepFits, Same
<1>4. CASE EnableFactor(q)
  <2>1. CASE l.token.kind = "enrol"
    <3>1. Same(q, "rotate") /\ l.pc = "enable"
      BY <1>1, <1>4, <2>1, GoesWhere DEF EnableFactor
    <3>2. TokenFits(q)'
      BY <1>1, <2>1, <3>1, MoverKeeps DEF TokenFits, Spent, SpentNext, Same
    <3> QED BY <1>1, <1>2, <3>1, <3>2 DEF MoverFits, UserFits, RowFits, StepFits, Same
  <2>2. CASE l.token.kind # "enrol"
    <3>1. Same(q, "done")
      BY <1>1, <1>4, <2>2, GoesWhere DEF EnableFactor
    <3> QED BY <3>1, GoPlain
  <2> QED BY <2>1, <2>2
<1>5. CASE VerifyTotp(q)
  <2>1. Same(q, "rotate") /\ At(q, "second", "totp")
    BY <1>1, <1>5, GoesWhere DEF VerifyTotp
  <2>2. TokenFits(q)'
    BY <1>1, <2>1, MoverKeeps DEF TokenFits, Spent, SpentNext, Same, At
  <2> QED BY <1>1, <1>2, <2>1, <2>2 DEF MoverFits, UserFits, RowFits, StepFits, Same
<1>6. CASE RotateSession(q)
  <2> DEFINE new == [user |-> l.token.user, request |-> q, kind |-> "full"]
  <2>1. /\ Same(q, "in") /\ l.pc = "rotate" /\ l.token \in sessions
        /\ sessions' = (sessions \ {l.token}) \cup {new}
    BY <1>1, <1>6, GoesWhere DEF RotateSession
  <2>2. l.token.kind \in {"second", "enrol"} /\ q.op \in {"second", "confirmFactor"}
    BY <1>1, <2>1 DEF TokenFits
  <2>3. new # l.token
    <3>1. new.kind = "full"
      OBVIOUS
    <3> HIDE DEF new
    <3> QED BY <2>2, <3>1
  <2> HIDE DEF new
  <2>4. l.token \notin sessions'
    BY <2>1, <2>3
  <2>5. l.token # NoSession /\ l.token.user = l.user
    BY <1>1, <2>1 DEF TokenFits
  <2>6. TokenFits(q)'
    BY <2>1, <2>4, <2>5, MoverKeeps DEF TokenFits, Spent, SpentNext, Same
  <2> QED BY <1>1, <1>2, <2>1, <2>2, <2>6 DEF MoverFits, UserFits, RowFits, StepFits, Same
<1> QED BY <1>3, <1>4, <1>5, <1>6

LEMMA RequestsStay ==
  ASSUME AccountTypes, RequestsFit, RowsFit, SessionsFit, NEW q \in DOMAIN local,
         AccountStep(q) \/ FactorStep(q)
  PROVE  RequestsFit'
<1>1. RunsAlong(q) /\ Steps(q)
  BY EachSteps DEF RunsAlong
<1>2. MoverFits(q)
  BY <1>1, DoersFit, GoersFit, FindersFit, LookersFit, FactorsFit
  DEF AccountStep, FactorStep, Looker
<1>3. DOMAIN local' = DOMAIN local
  BY <1>1 DEF Steps, Moving, OthersWait
<1>4. \A r \in DOMAIN local \ {q} : UserFits(r)' /\ RowFits(r)' /\ StepFits(r)' /\ TokenFits(r)'
  BY <1>1, OthersFit
<1> QED BY <1>2, <1>3, <1>4 DEF RequestsFit, MoverFits

-----------------------------------------------------------------------------
(* What a step leaves of the accounts there are.                           *)
Governs(v) == users[v].toggled \/ (users[v].live /\ users[v].admin)

KeptAs(q, v, a, b) ==
  /\ a.password => b.password
  /\ ~ChangeEmail(q) => b.email = a.email
  /\ a.toggled => b.toggled
  /\ ~SetRole(q) /\ ~OpenSession(q) => (b.admin => a.admin)
  /\ ~(SoftDelete(q) /\ v = local[q].user) =>
       /\ a.live \/ a.toggled => b.live \/ b.toggled
       /\ ~(SetRole(q) /\ v = q.user) =>
            (a.toggled \/ (a.live /\ a.admin) => b.toggled \/ (b.live /\ b.admin))
  /\ ~EnableFactor(q) => (b.factor.on => a.factor.on)
  /\ ~EnableFactor(q) /\ ~RegenerateCodes(q) => b.factor.codes \subseteq a.factor.codes

AccountKept(q, v) == KeptAs(q, v, users[v], users'[v])

LEMMA UsersTyped ==
  ASSUME AccountTypes, NEW v \in DOMAIN users
  PROVE  /\ users[v] \in Account /\ users[v].password \in BOOLEAN /\ users[v].live \in BOOLEAN
         /\ users[v].admin \in BOOLEAN /\ users[v].toggled \in BOOLEAN
         /\ users[v].factor \in [on : BOOLEAN, codes : SUBSET RecoveryCode]
         /\ users[v].email \in Addressed
BY UsersAre DEF Account, RecoveryCode, Addressed

LEMMA SameIsKept ==
  ASSUME NEW q, NEW v, users'[v] = users[v]
  PROVE  AccountKept(q, v)
BY DEF AccountKept, KeptAs

LEMMA PutKept ==
  ASSUME NEW q, NEW v \in DOMAIN users, NEW u, NEW new, UserBecomes(u, new),
         v = u => KeptAs(q, v, users[v], new)
  PROVE  AccountKept(q, v)
<1>1. CASE v = u
  BY <1>1 DEF UserBecomes, AccountKept
<1>2. CASE v # u
  BY <1>2, SameIsKept DEF UserBecomes
<1> QED BY <1>1, <1>2

LEMMA AccountsKept ==
  ASSUME AccountTypes, RequestsFit, NEW q \in DOMAIN local, AccountStep(q) \/ FactorStep(q),
         NEW v \in DOMAIN users
  PROVE  AccountKept(q, v)
<1> DEFINE u == local[q].user
           a == users[v]
<1>0. /\ a.password \in BOOLEAN /\ a.live \in BOOLEAN
      /\ a.admin \in BOOLEAN /\ a.toggled \in BOOLEAN
      /\ a.factor \in [on : BOOLEAN, codes : SUBSET RecoveryCode]
  BY UsersTyped
<1>1. CASE CreateUser(q) \/ CreateFromOAuth(q)
  BY <1>1, CreateUserEffect, CreateFromOAuthEffect, AppendsAre, SameIsKept
<1>2. CASE ChangeEmail(q)
  <2> DEFINE w == local[q].pending.user
             b == users[w]
             new == AccountOf(local[q].pending.email, b.password, b.live, b.admin, b.toggled, b.factor)
  <2>1. UserBecomes(w, new)
    BY <1>2, ChangeEmailEffect DEF Replaces
  <2>2. v = w => KeptAs(q, v, users[v], new)
    BY <1>0, <1>2 DEF AccountOf, KeptAs
  <2> HIDE DEF new, w
  <2> QED BY <2>1, <2>2, PutKept
<1>3. CASE ChangePassword(q) \/ WriteReset(q)
  <2> DEFINE w == local[q].user
             b == users[w]
             new == AccountOf(b.email, TRUE, b.live, b.admin, b.toggled, b.factor)
  <2>1. UserBecomes(w, new)
    BY <1>3, ChangePasswordEffect DEF Replaces
  <2>2. v = w => KeptAs(q, v, users[v], new)
    BY <1>0, <1>3 DEF AccountOf, KeptAs
  <2> HIDE DEF new, w
  <2> QED BY <2>1, <2>2, PutKept
<1>4. CASE SoftDelete(q)
  <2> DEFINE w == local[q].user
             b == users[w]
             new == AccountOf(b.email, b.password, FALSE, b.admin, b.toggled, NoFactor)
  <2>1. UserBecomes(w, new)
    BY <1>4, SoftDeleteEffect DEF Replaces
  <2>2. v = w => KeptAs(q, v, users[v], new)
    BY <1>0, <1>4 DEF AccountOf, KeptAs, NoFactor
  <2> HIDE DEF new, w
  <2> QED BY <2>1, <2>2, PutKept
<1>5. CASE SetRole(q)
  <2> DEFINE w == q.user
             b == users[w]
             new == AccountOf(b.email, b.password, b.live, q.op = "promote", b.toggled, b.factor)
  <2>1. UserBecomes(w, new)
    BY <1>5, SetRoleEffect DEF Replaces
  <2>2. v = w => KeptAs(q, v, users[v], new)
    BY <1>0, <1>5 DEF AccountOf, KeptAs
  <2> HIDE DEF new, w
  <2> QED BY <2>1, <2>2, PutKept
<1>6. CASE ToggleLock(q)
  <2> DEFINE w == q.user
             b == users[w]
             new == AccountOf(b.email, b.password, ~b.live, b.admin, TRUE, b.factor)
  <2>1. UserBecomes(w, new)
    BY <1>6, ToggleLockEffect DEF Replaces
  <2>2. v = w => KeptAs(q, v, users[v], new)
    BY <1>0, <1>6 DEF AccountOf, KeptAs
  <2> HIDE DEF new, w
  <2> QED BY <2>1, <2>2, PutKept
<1>7. CASE OpenSession(q)
  <2> DEFINE w == local[q].user
             b == users[w]
             new == AccountOf(b.email, b.password, b.live, b.admin \/ Raises(q), b.toggled, b.factor)
  <2>1. UserBecomes(w, new)
    BY <1>7, OpenSessionEffect DEF Replaces
  <2>2. v = w => KeptAs(q, v, users[v], new)
    BY <1>0, <1>7 DEF AccountOf, KeptAs
  <2> HIDE DEF new, w
  <2> QED BY <2>1, <2>2, PutKept
<1>8. CASE EnableFactor(q)
  <2> DEFINE w == local[q].user
             b == users[w]
             new == AccountOf(b.email, b.password, b.live, b.admin, b.toggled, [on |-> TRUE, codes |-> Fresh(q)])
  <2>1. UserBecomes(w, new)
    BY <1>8, EnableFactorEffect DEF Replaces
  <2>2. v = w => KeptAs(q, v, users[v], new)
    BY <1>0, <1>8 DEF AccountOf, KeptAs
  <2> HIDE DEF new, w
  <2> QED BY <2>1, <2>2, PutKept
<1>9. CASE DisableFactor(q)
  <2> DEFINE w == local[q].user
             b == users[w]
             new == AccountOf(b.email, b.password, b.live, b.admin, b.toggled, NoFactor)
  <2>1. UserBecomes(w, new)
    BY <1>9, DisableFactorEffect DEF Replaces
  <2>2. v = w => KeptAs(q, v, users[v], new)
    BY <1>0, <1>9 DEF AccountOf, KeptAs, NoFactor
  <2> HIDE DEF new, w
  <2> QED BY <2>1, <2>2, PutKept
<1>10. CASE RegenerateCodes(q)
  <2> DEFINE w == local[q].user
             b == users[w]
             new == AccountOf(b.email, b.password, b.live, b.admin, b.toggled, [b.factor EXCEPT !.codes = Fresh(q)])
  <2>1. UserBecomes(w, new)
    BY <1>10, RegenerateCodesEffect DEF Replaces
  <2>2. v = w => KeptAs(q, v, users[v], new)
    BY <1>0, <1>10 DEF AccountOf, KeptAs
  <2> HIDE DEF new, w
  <2> QED BY <2>1, <2>2, PutKept
<1>11. CASE ConsumeRecoveryCode(q)
  <2>0. PICK code \in users[local[q].user].factor.codes : Consumes(q, code)
    BY <1>11, ConsumeEffect
  <2> DEFINE w == local[q].user
             b == users[w]
             new == AccountOf(b.email, b.password, b.live, b.admin, b.toggled, [b.factor EXCEPT !.codes = b.factor.codes \ {code}])
  <2>1. UserBecomes(w, new)
    BY <2>0, ConsumesEffect DEF Replaces
  <2>2. v = w => KeptAs(q, v, users[v], new)
    BY <1>0, <1>11 DEF AccountOf, KeptAs
  <2> HIDE DEF new, w
  <2> QED BY <2>1, <2>2, PutKept
<1>12. CASE ~WritesUsers(q)
  BY <1>12, EachIsOne, GoersKeep, OthersKeep, SameIsKept
<1> QED BY <1>1, <1>2, <1>3, <1>4, <1>5, <1>6, <1>7, <1>8, <1>9, <1>10, <1>11, <1>12 DEF WritesUsers

(* Who is new.                                                             *)
LEMMA NewAccounts ==
  ASSUME AccountTypes, RequestsFit, NEW q \in DOMAIN local, AccountStep(q) \/ FactorStep(q),
         NEW v \in DOMAIN users', v \notin DOMAIN users
  PROVE  /\ v = Len(users) + 1
         /\ \/ CreateUser(q) /\ users'[v] = NewUser(local[q].pending.email, TRUE)
            \/ CreateFromOAuth(q) /\ users'[v] = NewUser(q.email, FALSE)
<1>1. CASE CreateUser(q)
  <2>1. Appends(NewUser(local[q].pending.email, TRUE))
    BY <1>1, CreateUserEffect
  <2>2. /\ DOMAIN users' = DOMAIN users \cup {Len(users) + 1}
        /\ users'[Len(users) + 1] = NewUser(local[q].pending.email, TRUE)
    BY <2>1, AppendsAre
  <2>3. v = Len(users) + 1
    BY <2>2
  <2> QED BY <1>1, <2>2, <2>3
<1>2. CASE CreateFromOAuth(q)
  <2>1. Appends(NewUser(q.email, FALSE))
    BY <1>2, CreateFromOAuthEffect
  <2>2. /\ DOMAIN users' = DOMAIN users \cup {Len(users) + 1}
        /\ users'[Len(users) + 1] = NewUser(q.email, FALSE)
    BY <2>1, AppendsAre
  <2>3. v = Len(users) + 1
    BY <2>2
  <2> QED BY <1>2, <2>2, <2>3
<1>3. CASE ~CreateUser(q) /\ ~CreateFromOAuth(q)
  <2>1. CASE \E u, new : Replaces(u, new)
    BY <2>1 DEF Replaces, UserBecomes
  <2>2. CASE UNCHANGED users
    BY <2>2
  <2>3. CASE WritesUsers(q)
    <3>1. \E u, new : Replaces(u, new)
      <4>1. CASE ConsumeRecoveryCode(q)
        <5>1. PICK code \in users[local[q].user].factor.codes : Consumes(q, code)
          BY <4>1, ConsumeEffect
        <5> QED BY <5>1, ConsumesEffect
      <4>2. CASE ~ConsumeRecoveryCode(q)
        BY <1>3, <2>3, <4>2, ChangeEmailEffect, ChangePasswordEffect, SoftDeleteEffect, SetRoleEffect,
           ToggleLockEffect, OpenSessionEffect, EnableFactorEffect, DisableFactorEffect,
           RegenerateCodesEffect DEF WritesUsers
      <4> QED BY <4>1, <4>2
    <3> QED BY <2>1, <3>1
  <2>4. CASE ~WritesUsers(q)
    BY <2>2, <2>4, EachIsOne, GoersKeep, OthersKeep
  <2> QED BY <2>3, <2>4
<1> QED BY <1>1, <1>2, <1>3

-----------------------------------------------------------------------------
(* Sessions are exchanged by RotateSession, recovery codes are used by     *)
(* ConsumeRecoveryCode, and by nobody else.                                *)
LEMMA GoersElse ==
  ASSUME AccountTypes, NEW q \in DOMAIN local, Goer(q)
  PROVE  /\ ~RotateSession(q) => local'[q].pc # "in"
         /\ local'[q].code = local[q].code /\ local'[q].token = local[q].token
         /\ local'[q].user = local[q].user
<1>1. q.op \in Ops /\ q.op # "in"
  BY RequestTyped DEF AccountTypes, Ops, Private, Admin, Enrols
<1>2. NextStep(q.op, local[q].admin) # "in"
  BY <1>1 DEF NextStep
<1>3. \E pc : Goes(q, pc) /\ (~RotateSession(q) => pc # "in")
  <2>1. CASE Prove(q) \/ Others(q)
    BY <1>1, <1>2, <2>1 DEF Prove, Others
  <2>2. CASE VerifyCode(q) \/ DropIdentity(q) \/ PushIdentity(q) \/ EnableFactor(q)
    <3>1. Goes(q, "done") \/ Goes(q, "write") \/ Goes(q, "push") \/ Goes(q, "email")
          \/ Goes(q, "look") \/ Goes(q, "rotate")
      BY <2>2 DEF VerifyCode, DropIdentity, PushIdentity, EnableFactor
    <3> QED BY <3>1
  <2>3. CASE Goer(q) /\ ~(Prove(q) \/ Others(q) \/ VerifyCode(q) \/ DropIdentity(q)
                          \/ PushIdentity(q) \/ EnableFactor(q))
    <3>1. CASE ~RotateSession(q) /\ ~StartRegistration(q) /\ ~IssueCode(q) /\ ~AskEmailChange(q)
               /\ ~ReadEnrolment(q) /\ ~VerifyTotp(q)
      <4>1. Goes(q, "done")
        BY <2>3, <3>1
        DEF Goer, Ends, PendRegistration, CreateUser, PendEmailChange, ChangeEmail,
            ChangePassword, SoftDelete, SetRole, ToggleLock, OpenSession, UnlinkIdentity,
            ReplaceReset, WriteReset, Enroll, DisableFactor, RegenerateCodes
      <4> QED BY <4>1
    <3>2. CASE \/ RotateSession(q) \/ StartRegistration(q) \/ IssueCode(q) \/ AskEmailChange(q)
               \/ ReadEnrolment(q) \/ VerifyTotp(q)
      BY <3>2 DEF RotateSession, StartRegistration, IssueCode, AskEmailChange, ReadEnrolment, VerifyTotp
    <3> QED BY <3>1, <3>2
  <2> QED BY <2>1, <2>2, <2>3
<1>4. PICK pc : Goes(q, pc) /\ (~RotateSession(q) => pc # "in")
  BY <1>3
<1>5. Same(q, pc)
  BY <1>4, GoesWhere
<1> QED BY <1>4, <1>5 DEF Same

LEMMA ReadersElse ==
  ASSUME AccountTypes, NEW q \in DOMAIN local, Reader(q)
  PROVE  local'[q].pc # "in" /\ local'[q].code = local[q].code /\ local'[q].token = local[q].token
<1> DEFINE l == local[q]
           Else == /\ local'[q].pc # "in" /\ local'[q].code = local[q].code
                   /\ local'[q].token = local[q].token
<1>1. \/ \E pc : Goes(q, pc) /\ pc # "in"
      \/ \E pc, p : ReadsPending(q, pc, p) /\ pc # "in"
      \/ \E pc, row : ReadsRow(q, pc, row) /\ pc # "in"
      \/ \E pc, user : ReadsUser(q, pc, user) /\ pc # "in"
  <2>1. CASE VerifyRegistration(q) \/ ConfirmEmailChange(q)
    <3>1. \E p : ReadsPending(q, "spend", p)
      BY <2>1 DEF VerifyRegistration, ConfirmEmailChange
    <3> QED BY <3>1
  <2>2. CASE FindIdentity(q)
    <3>1. Goes(q, "push") \/ Goes(q, "email") \/ \E row : ReadsRow(q, "owner", row)
      BY <2>2 DEF FindIdentity
    <3> QED BY <3>1
  <2>3. CASE FindOwner(q)
    <3>1. Goes(q, "stale") \/ Goes(q, "look") \/ Goes(q, "done") \/ \E user : ReadsUser(q, "look", user)
      BY <2>3 DEF FindOwner
    <3> QED BY <3>1
  <2>4. CASE FindEmail(q)
    <3>1. Goes(q, "create") \/ \E user : ReadsUser(q, "find", user)
      BY <2>4 DEF FindEmail
    <3> QED BY <3>1
  <2>5. CASE CreateFromOAuth(q) \/ RequestReset(q)
    <3>1. \E user : ReadsUser(q, "look", user) \/ ReadsUser(q, "replace", user)
      BY <2>5 DEF CreateFromOAuth, RequestReset
    <3> QED BY <3>1
  <2> QED BY <2>1, <2>2, <2>3, <2>4, <2>5 DEF Reader
<1>2. ASSUME NEW pc, Goes(q, pc) /\ pc # "in" PROVE Else
  BY <1>2, GoesWhere DEF Same
<1>3. ASSUME NEW pc, NEW p, ReadsPending(q, pc, p) /\ pc # "in" PROVE Else
  <2>1. Gets(q, StateOf(pc, l.user, l.admin, p, l.row, l.kind, l.token, l.code))
    BY <1>3, ReadsPendingTo
  <2> QED BY <1>3, <2>1 DEF Gets, StateOf
<1>4. ASSUME NEW pc, NEW row, ReadsRow(q, pc, row) /\ pc # "in" PROVE Else
  <2>1. Gets(q, StateOf(pc, l.user, l.admin, l.pending, row, l.kind, l.token, l.code))
    BY <1>4, ReadsRowTo
  <2> QED BY <1>4, <2>1 DEF Gets, StateOf
<1>5. ASSUME NEW pc, NEW user, ReadsUser(q, pc, user) /\ pc # "in" PROVE Else
  <2>1. Gets(q, StateOf(pc, user, l.admin, l.pending, l.row, l.kind, l.token, l.code))
    BY <1>5, ReadsUserTo
  <2> QED BY <1>5, <2>1 DEF Gets, StateOf
<1> HIDE DEF Else
<1>6. Else
  BY <1>1, <1>2, <1>3, <1>4, <1>5
<1> QED BY <1>6 DEF Else

LEMMA LookersElse ==
  ASSUME AccountTypes, NEW q \in DOMAIN local, Looker(q)
  PROVE  /\ local'[q].pc # "in"
         /\ ~ConsumeRecoveryCode(q) => local'[q].code = local[q].code
<1> DEFINE l == local[q]
<1>1. CASE Authenticate(q)
  <2>1. PICK s \in sessions : \E pc \in Asked(q.op, s.user) : AuthenticatesAs(q, s, pc)
    BY <1>1, AuthenticateEffect
  <2>2. PICK pc \in Asked(q.op, s.user) : AuthenticatesAs(q, s, pc)
    BY <2>1
  <2>3. q.op \in Private /\ local'[q].pc = pc /\ local'[q].code = l.code
    BY <2>2 DEF AuthenticatesAs, Gets, StateOf
  <2>4. pc # "in"
    BY <2>3, AskedAre
  <2> QED BY <2>3, <2>4
<1>2. CASE Login(q)
  <2>1. PICK u \in DOMAIN users : LogsInAs(q, u)
    BY <1>2, LoginEffect
  <2> QED BY <2>1 DEF LogsInAs, Gets, StateOf
<1>3. CASE LookForFactor(q)
  <2> DEFINE kind == IF On(l.user) THEN "second" ELSE "full"
  <2>1. Gets(q, StateOf("session", l.user, l.admin, l.pending, l.row, kind, l.token, l.code))
    BY <1>3, LookEffect
  <2> HIDE DEF kind
  <2> QED BY <2>1 DEF Gets, StateOf
<1>4. CASE ConfirmReset(q)
  <2>1. PICK r \in resets : ConfirmsReset(q, r)
    BY <1>4, ConfirmResetEffect
  <2> QED BY <2>1 DEF ConfirmsReset, Gets, StateOf
<1>5. CASE FindPending(q)
  <2>1. PICK s \in sessions, pc \in {"totp", "recovery"} : FindsPending(q, s, pc)
    BY <1>5, FindPendingEffect
  <2> QED BY <2>1 DEF FindsPending, Gets, StateOf
<1>6. CASE ConsumeRecoveryCode(q)
  <2>1. PICK code \in users[l.user].factor.codes : Consumes(q, code)
    BY <1>6, ConsumeEffect
  <2> QED BY <1>6, <2>1 DEF Consumes, Gets, StateOf
<1> QED BY <1>1, <1>2, <1>3, <1>4, <1>5, <1>6 DEF Looker

LEMMA NobodyElse ==
  ASSUME AccountTypes, NEW q \in DOMAIN local, AccountStep(q) \/ FactorStep(q)
  PROVE  /\ ~RotateSession(q) => local'[q].pc # "in"
         /\ ~ConsumeRecoveryCode(q) => local'[q].code = local[q].code
BY EachIsOne, GoersElse, ReadersElse, LookersElse

LEMMA EntriesStay ==
  ASSUME AccountTypes, RequestsFit, EntriesDiffer, NEW q \in DOMAIN local, Steps(q),
         AccountStep(q) \/ FactorStep(q)
  PROVE  EntriesDiffer'
<1>1. /\ DOMAIN local' = DOMAIN local /\ local[q].pc # "in"
      /\ \A r \in DOMAIN local \ {q} : local'[r] = local[r]
  BY DEF Steps, Moving, OthersWait
<1>2. CASE RotateSession(q)
  <2>1. local[q].token \in sessions /\ local'[q].token = local[q].token
    BY <1>2, GoersElse DEF RotateSession, Goer
  <2>2. \A r \in DOMAIN local : local[r].pc = "in" => local[r].token # local'[q].token
    BY <2>1 DEF RequestsFit, TokenFits
  <2> QED BY <1>1, <2>2 DEF EntriesDiffer
<1>3. CASE ~RotateSession(q)
  <2>1. local'[q].pc # "in"
    BY <1>3, NobodyElse
  <2> QED BY <1>1, <2>1 DEF EntriesDiffer
<1> QED BY <1>2, <1>3

-----------------------------------------------------------------------------
(* Recovery codes.                                                         *)
CodesShrink ==
  \A u \in DOMAIN users' : \A code \in users'[u].factor.codes :
    u \in DOMAIN users /\ code \in users[u].factor.codes

MadeByNext(r) == r \in DOMAIN local' => local'[r].pc \in {"rotate", "done", "in"}

LEMMA MadeIsMade ==
  ASSUME NEW q \in DOMAIN local, Steps(q), NEW r, MadeBy(r)
  PROVE  MadeByNext(r)
BY MadeByStays DEF MadeBy, MadeByNext

LEMMA ShrinkStays ==
  ASSUME RecoveryCodesFit, NEW q \in DOMAIN local, Steps(q), CodesShrink,
         local'[q].code = local[q].code
  PROVE  RecoveryCodesFit'
<1>1. DOMAIN local' = DOMAIN local /\ \A r \in DOMAIN local : local'[r].code = local[r].code
  BY DEF Steps, Moving, OthersWait
<1>2. \A u \in DOMAIN users' : \A code \in users'[u].factor.codes : MadeByNext(code[1])
  BY MadeIsMade DEF RecoveryCodesFit, CodesShrink
<1>3. \A u, v \in DOMAIN users' : \A code \in users'[u].factor.codes :
        code \in users'[v].factor.codes => u = v
  BY DEF RecoveryCodesFit, CodesShrink, Owns
<1>4. \A r \in DOMAIN local : local[r].code # <<>> =>
        /\ MadeByNext(local[r].code[1])
        /\ \A u \in DOMAIN users' : local[r].code \notin users'[u].factor.codes
        /\ \A other \in DOMAIN local : local[other].code = local[r].code => other = r
  BY MadeIsMade DEF RecoveryCodesFit, CodesShrink, Owns
<1> QED BY <1>1, <1>2, <1>3, <1>4 DEF RecoveryCodesFit, MadeBy, MadeByNext, Owns

(* Only new codes of q come.                                               *)
LEMMA FreshStays ==
  ASSUME AccountTypes, RecoveryCodesFit, NEW q \in DOMAIN local, Steps(q), ~MadeBy(q),
         local'[q].pc \in {"rotate", "done", "in"}, local'[q].code = local[q].code,
         DOMAIN users' = DOMAIN users,
         NEW u, \A v \in DOMAIN users :
                  \/ users'[v].factor.codes = users[v].factor.codes
                  \/ v = u /\ users'[v].factor.codes = Fresh(q)
  PROVE  RecoveryCodesFit'
<1>1. DOMAIN local' = DOMAIN local /\ \A r \in DOMAIN local : local'[r].code = local[r].code
  BY DEF Steps, Moving, OthersWait
<1>2. \A code \in Fresh(q) : code[1] = q
  BY DEF Fresh
<1>3. \A v \in DOMAIN users : \A code \in users[v].factor.codes : MadeBy(code[1]) /\ code[1] # q
  BY DEF RecoveryCodesFit
<1>4. MadeByNext(q)
  BY DEF MadeByNext
<1>5. \A v \in DOMAIN users' : \A code \in users'[v].factor.codes : MadeByNext(code[1])
  BY <1>2, <1>3, <1>4, MadeIsMade
<1>6. \A v, w \in DOMAIN users' : \A code \in users'[v].factor.codes :
        code \in users'[w].factor.codes => v = w
  BY <1>2, <1>3 DEF RecoveryCodesFit, Owns
<1>7. \A r \in DOMAIN local : local[r].code # <<>> =>
        /\ MadeBy(local[r].code[1]) /\ local[r].code[1] # q
        /\ \A v \in DOMAIN users : local[r].code \notin users[v].factor.codes
        /\ \A other \in DOMAIN local : local[other].code = local[r].code => other = r
  BY DEF RecoveryCodesFit, Owns
<1>8. \A r \in DOMAIN local : local[r].code # <<>> =>
        /\ MadeByNext(local[r].code[1])
        /\ \A v \in DOMAIN users' : local[r].code \notin users'[v].factor.codes
        /\ \A other \in DOMAIN local : local[other].code = local[r].code => other = r
  BY <1>2, <1>7, MadeIsMade
<1> QED BY <1>1, <1>5, <1>6, <1>8 DEF RecoveryCodesFit, MadeBy, MadeByNext, Owns

LEMMA ConsumeStays ==
  ASSUME AccountTypes, RequestsFit, RecoveryCodesFit, NEW q \in DOMAIN local, Steps(q),
         NEW code, Consumes(q, code)
  PROVE  RecoveryCodesFit'
<1> DEFINE u == local[q].user
           left == users[u].factor.codes \ {code}
<1>1. /\ DOMAIN local' = DOMAIN local /\ local'[q].code = code
      /\ \A r \in DOMAIN local \ {q} : local'[r].code = local[r].code
  BY DEF Steps, Moving, OthersWait, Consumes, Gets, StateOf
<1>2. /\ UserBecomes(u, AccountOf(users[u].email, users[u].password, users[u].live, users[u].admin,
                                  users[u].toggled, [users[u].factor EXCEPT !.codes = left]))
      /\ u \in DOMAIN users /\ code \in users[u].factor.codes
  BY ConsumesEffect DEF Replaces, Consumes
<1>3. \A some : \A f \in [on : BOOLEAN, codes : SUBSET RecoveryCode] :
        [f EXCEPT !.codes = some].codes = some
  OBVIOUS
<1>4. users[u].factor \in [on : BOOLEAN, codes : SUBSET RecoveryCode]
  BY <1>2, UsersTyped
<1> HIDE DEF left, u
<1>5. /\ DOMAIN users' = DOMAIN users
      /\ \A v \in DOMAIN users :
           users'[v].factor.codes = IF v = u THEN left ELSE users[v].factor.codes
  BY <1>2, <1>3, <1>4 DEF UserBecomes, AccountOf
<1>6. \A v \in DOMAIN users' : \A some \in users'[v].factor.codes :
        some # code /\ some \in users[v].factor.codes
  BY <1>2, <1>5 DEF RecoveryCodesFit, Owns, left
<1>7. \A v \in DOMAIN users' : \A some \in users'[v].factor.codes : MadeByNext(some[1])
  BY <1>5, <1>6, MadeIsMade DEF RecoveryCodesFit
<1>8. \A v, w \in DOMAIN users' : \A some \in users'[v].factor.codes :
        some \in users'[w].factor.codes => v = w
  BY <1>5, <1>6 DEF RecoveryCodesFit, Owns
<1>9. MadeByNext(code[1])
  BY <1>2, MadeIsMade DEF RecoveryCodesFit
<1>10. \A r \in DOMAIN local : local[r].code # <<>> => local[r].code # code
  BY <1>2 DEF RecoveryCodesFit, Owns
<1>11. \A r \in DOMAIN local \ {q} : local[r].code # <<>> =>
        /\ MadeByNext(local[r].code[1])
        /\ \A v \in DOMAIN users' : local[r].code \notin users'[v].factor.codes
        /\ local[r].code # code
        /\ \A other \in DOMAIN local : local[other].code = local[r].code => other = r
  BY <1>5, <1>6, <1>10, MadeIsMade DEF RecoveryCodesFit, Owns
<1>12. code # <<>>
  <2>1. code \in RecoveryCode
    BY ConsumesEffect
  <2>2. \E r \in Requests, i \in Nat : code = <<r, i>>
    BY <2>1 DEF RecoveryCode
  <2> QED BY <2>2
<1>13. \A r \in DOMAIN local' : local'[r].code # <<>> =>
         /\ MadeByNext(local'[r].code[1])
         /\ \A v \in DOMAIN users' : local'[r].code \notin users'[v].factor.codes
         /\ \A other \in DOMAIN local' : local'[other].code = local'[r].code => other = r
  <2>1. ASSUME NEW r \in DOMAIN local \ {q}, local[r].code # <<>>
        PROVE  \A other \in DOMAIN local' : local'[other].code = local[r].code => other = r
    BY <1>1, <1>11, <2>1
  <2>2. \A other \in DOMAIN local' : local'[other].code = code => other = q
    BY <1>1, <1>10, <1>12
  <2>3. \A v \in DOMAIN users' : code \notin users'[v].factor.codes
    BY <1>6
  <2> QED BY <1>1, <1>9, <1>11, <2>1, <2>2, <2>3
<1> QED BY <1>7, <1>8, <1>13 DEF RecoveryCodesFit, MadeBy, MadeByNext, Owns

LEMMA RecoveryCodesStay ==
  ASSUME AccountTypes, RequestsFit, RecoveryCodesFit, NEW q \in DOMAIN local, Steps(q),
         AccountStep(q) \/ FactorStep(q)
  PROVE  RecoveryCodesFit'
<1> DEFINE u == local[q].user
<1>1. CASE ConsumeRecoveryCode(q)
  <2>1. PICK code \in users[u].factor.codes : Consumes(q, code)
    BY <1>1, ConsumeEffect
  <2> QED BY <2>1, ConsumeStays
<1>2. CASE EnableFactor(q)
  <2>1. local'[q].code = local[q].code /\ local'[q].pc \in {"rotate", "done", "in"}
    <3>1. Goes(q, "rotate") \/ Goes(q, "done")
      BY <1>2 DEF EnableFactor
    <3> QED BY <3>1, GoesWhere DEF Same
  <2>2. ~MadeBy(q)
    BY <1>2 DEF MadeBy, EnableFactor
  <2> DEFINE new == AccountOf(users[u].email, users[u].password, users[u].live, users[u].admin,
                              users[u].toggled, [on |-> TRUE, codes |-> Fresh(q)])
  <2>3. UserBecomes(u, new)
    BY <1>2, EnableFactorEffect DEF Replaces
  <2>4. new.factor.codes = Fresh(q)
    BY DEF AccountOf
  <2> HIDE DEF new, u
  <2>5. /\ DOMAIN users' = DOMAIN users
        /\ \A v \in DOMAIN users :
             \/ users'[v].factor.codes = users[v].factor.codes
             \/ v = u /\ users'[v].factor.codes = Fresh(q)
    BY <2>3, <2>4 DEF UserBecomes
  <2> QED BY <2>1, <2>2, <2>5, FreshStays
<1>3. CASE RegenerateCodes(q)
  <2>1. local'[q].code = local[q].code /\ local'[q].pc \in {"rotate", "done", "in"}
    BY <1>3, GoesWhere DEF RegenerateCodes, Same
  <2>2. ~MadeBy(q)
    BY <1>3 DEF MadeBy, RegenerateCodes, At
  <2> DEFINE new == AccountOf(users[u].email, users[u].password, users[u].live, users[u].admin,
                              users[u].toggled, [users[u].factor EXCEPT !.codes = Fresh(q)])
  <2>3. UserBecomes(u, new)
    BY <1>3, RegenerateCodesEffect DEF Replaces
  <2>4. u \in DOMAIN users
    BY <1>3, UsersAre DEF RegenerateCodes, At, RequestsFit, UserFits, Nobodys
  <2>5. users[u].factor \in [on : BOOLEAN, codes : SUBSET RecoveryCode]
    BY <2>4, UsersTyped
  <2>6. new.factor.codes = Fresh(q)
    BY <2>5 DEF AccountOf
  <2> HIDE DEF new, u
  <2>7. /\ DOMAIN users' = DOMAIN users
        /\ \A v \in DOMAIN users :
             \/ users'[v].factor.codes = users[v].factor.codes
             \/ v = u /\ users'[v].factor.codes = Fresh(q)
    BY <2>3, <2>6 DEF UserBecomes
  <2> QED BY <2>1, <2>2, <2>7, FreshStays
<1>4. CASE ~ConsumeRecoveryCode(q) /\ ~EnableFactor(q) /\ ~RegenerateCodes(q)
  <2>1. \A v \in DOMAIN users : users'[v].factor.codes \subseteq users[v].factor.codes
    BY <1>4, AccountsKept DEF AccountKept, KeptAs
  <2>2. \A v \in DOMAIN users' : v \notin DOMAIN users => users'[v].factor.codes = {}
    BY NewAccounts DEF NewUser, NoFactor
  <2>3. CodesShrink
    BY <2>1, <2>2 DEF CodesShrink
  <2>4. local'[q].code = local[q].code
    BY <1>4, NobodyElse
  <2> QED BY <2>3, <2>4, ShrinkStays
<1> QED BY <1>1, <1>2, <1>3, <1>4

-----------------------------------------------------------------------------
(* An account keeps something to log in with.                              *)
LEMMA LoginStays ==
  ASSUME AccountTypes, RequestsFit, RowsFit, KeepsACredential, NEW q \in DOMAIN local, Steps(q),
         AccountStep(q) \/ FactorStep(q)
  PROVE  KeepsACredential'
<1>1. \A u \in DOMAIN users : /\ u \in Untouched' => u \in Untouched
                              /\ users[u].password => users'[u].password
  BY AccountsKept DEF Steps, UsersGrow, AccountKept, KeptAs
<1>2. \A u \in Untouched' : u \in DOMAIN users'
  BY DEF Untouched, LiveUsers
<1>3. ASSUME \A u \in Untouched' : u \in DOMAIN users => \/ users[u].password
                                                         \/ \E row \in idents' : row.user = u,
             \A u \in Untouched' : u \notin DOMAIN users => \/ users'[u].password
                                                            \/ \E row \in idents' : row.user = u
      PROVE  KeepsACredential'
  BY <1>1, <1>2, <1>3 DEF KeepsACredential
<1>4. CASE ~WritesRows(q)
  <2>1. idents' = idents
    BY <1>4, EachIsOne, GoersKeep, OthersKeep
  <2>2. \A u \in Untouched' : u \notin DOMAIN users => users'[u].password
    BY <1>2, <1>4, NewAccounts DEF WritesRows, NewUser
  <2> QED BY <1>1, <1>2, <1>3, <2>1, <2>2 DEF KeepsACredential
<1>5. CASE PushIdentity(q)
  <2>1. idents \subseteq idents'
    BY <1>5 DEF PushIdentity, AddsRow
  <2>2. users' = users
    BY <1>5 DEF PushIdentity
  <2>3. \A u \in Untouched' : u \in Untouched /\ u \in DOMAIN users
    BY <1>1, <1>2, <2>2
  <2> QED BY <1>3, <2>1, <2>3 DEF KeepsACredential
<1>6. CASE CreateFromOAuth(q)
  <2> DEFINE new == [id |-> made + 1, ident |-> q.ident, user |-> Len(users) + 1]
  <2>a. idents' = idents \cup {new}
    BY <1>6 DEF CreateFromOAuth, AddsRow
  <2>b. new.user = Len(users) + 1
    OBVIOUS
  <2> HIDE DEF new
  <2>1. idents \subseteq idents' /\ \E row \in idents' : row.user = Len(users) + 1
    BY <2>a, <2>b
  <2>2. \A u \in Untouched' : u \notin DOMAIN users => u = Len(users) + 1
    BY <1>2, NewAccounts
  <2> QED BY <1>1, <1>3, <2>1, <2>2 DEF KeepsACredential
<1>7. CASE DropIdentity(q)
  <2> DEFINE gone == local[q].row
  <2>1. gone.user \notin Untouched /\ \A row \in idents : row.id = gone.id => row = gone
    BY <1>7 DEF DropIdentity, RequestsFit, RowFits
  <2>2. idents' = {row \in idents : row.id # gone.id} /\ users' = users
    BY <1>7 DEF DropIdentity
  <2>3. \A row \in idents : row.user \in Untouched => row \in idents'
    BY <2>1, <2>2
  <2>4. \A u \in Untouched' : u \in Untouched /\ u \in DOMAIN users
    BY <1>1, <1>2, <2>2
  <2> QED BY <1>3, <2>3, <2>4 DEF KeepsACredential
<1>8. CASE UnlinkIdentity(q)
  <2> DEFINE me == local[q].user
             mine == {row \in idents : row.user = me}
             named == {row \in mine : ProviderOf[row.ident] = ProviderOf[q.ident]}
  <2>1. PICK gone \in named : /\ mine # {gone} \/ users[me].password
                              /\ idents' = idents \ {gone}
    BY <1>8 DEF UnlinkIdentity
  <2>2. users' = users /\ gone \in mine
    BY <1>8, <2>1 DEF UnlinkIdentity
  <2>3. users[me].password \/ \E row \in mine : row # gone
    BY <2>1, <2>2
  <2>4. users[me].password \/ \E row \in idents' : row.user = me
    BY <2>1, <2>3
  <2>5. \A row \in idents : row.user # me => row \in idents'
    BY <2>1
  <2>6. \A u \in Untouched' : u \in Untouched /\ u \in DOMAIN users
    BY <1>1, <1>2, <2>2
  <2> HIDE DEF mine, named, me
  <2> QED BY <1>3, <2>4, <2>5, <2>6 DEF KeepsACredential
<1> QED BY <1>4, <1>5, <1>6, <1>7, <1>8 DEF WritesRows

LEMMA FitsStay ==
  ASSUME Fits, NEW q \in DOMAIN local, AccountStep(q) \/ FactorStep(q)
  PROVE  Fits' /\ Steps(q)
<1>1. /\ AccountTypes /\ RequestsFit /\ RowsFit /\ SessionsFit /\ EntriesDiffer
      /\ MailedCodesFit /\ RecoveryCodesFit /\ ResetsFit /\ KeepsACredential
  BY DEF Fits
<1>2. Steps(q)
  BY <1>1, EachSteps
<1>3. AccountTypes' /\ RequestsFit'
  BY <1>1, TypesStay, RequestsStay
<1>4. RowsFit' /\ SessionsFit' /\ EntriesDiffer'
  BY <1>1, <1>2, RowsStay, SessionsStay, EntriesStay
<1>5. MailedCodesFit'
  BY <1>1, CodesDoMove, CodesStay DEF AccountTypes
<1>6. RecoveryCodesFit' /\ ResetsFit'
  BY <1>1, <1>2, RecoveryCodesStay, ResetsDoMove, ResetsStay
<1>7. KeepsACredential'
  BY <1>1, <1>2, LoginStays
<1> QED BY <1>2, <1>3, <1>4, <1>5, <1>6, <1>7 DEF Fits

LEMMA FitsKept ==
  ASSUME Fits, UNCHANGED vars \/ \E c \in DOMAIN codes : Expire(c)
  PROVE  Fits'
<1>1. CodesMove
  BY ExpireMoves DEF CodesMove, vars
<1>2. codes' \in Seq(MailedCode) /\ MailedCodesFit'
  BY <1>1, CodesStay DEF Fits, AccountTypes
<1>3. /\ UNCHANGED <<users, idents, made, pendReg, pendChange, resets, enrolling, sessions, local,
                     passed, overlapped>>
  BY DEF Expire, vars, accounts, overlaps
<1>4. /\ AccountTypes' /\ RequestsFit' /\ RowsFit' /\ SessionsFit' /\ EntriesDiffer'
  BY <1>2, <1>3 DEF Fits, AccountTypes, RequestsFit, UserFits, RowFits, StepFits, TokenFits, RowsFit,
     SessionsFit, EntriesDiffer, Spent, Untouched, LiveUsers
<1>5. RecoveryCodesFit' /\ ResetsFit' /\ KeepsACredential'
  BY <1>3 DEF Fits, RecoveryCodesFit, MadeBy, Owns, ResetsFit, Spent, KeepsACredential, Untouched, LiveUsers
<1> QED BY <1>2, <1>4, <1>5 DEF Fits

-----------------------------------------------------------------------------
(* What a request knows after a step of its own.                           *)
LEMMA KnownStill ==
  ASSUME NEW q, UNCHANGED <<users, idents, resets>>, KnowsAs(q, local'[q])
  PROVE  Knows(q)'
BY DEF Knows, KnowsAs, KnowsEmail, KnowsIdent, KnowsReset, KnowsUser, KnowsAdmin, Taken, TakenByOther,
       LiveUsers, Lives, On, OtherAdmins

(* Where there is nothing to know but that an account found lives.         *)
Unknowing ==
  {"ready", "done", "in", "issue", "pend", "check", "disable", "regenerate", "unlink", "find",
   "confirmFactor", "enable", "totp", "recovery", "replace", "look"}

LEMMA KnowsPlain ==
  ASSUME NEW q, NEW l, l.pc \in Unknowing, q.op = "oauth" /\ l.user # 0 /\ l.pc # "done" => Lives(l.user)
  PROVE  KnowsAs(q, l)
BY DEF KnowsAs, KnowsEmail, KnowsIdent, KnowsReset, KnowsUser, KnowsAdmin, Unknowing, Admin

LEMMA KnowsWhenDone ==
  ASSUME NEW q, Same(q, "done")
  PROVE  Knows(q)'
BY DEF Same, Knows, KnowsAs, KnowsEmail, KnowsIdent, KnowsReset, KnowsUser, KnowsAdmin, Admin

LEMMA KnowsWhenIn ==
  ASSUME NEW q, Same(q, "in"), q.op # "oauth"
  PROVE  Knows(q)'
BY DEF Same, Knows, KnowsAs, KnowsEmail, KnowsIdent, KnowsReset, KnowsUser, KnowsAdmin, Admin

(* A request that goes on, and has read nothing.                           *)
Alone(q) == RunsAlong(q) /\ SerialFacts /\ Knows(q)

LEMMA GoersKnow ==
  ASSUME NEW q \in DOMAIN local, Alone(q),
         \/ StartRegistration(q) \/ IssueCode(q) \/ AskEmailChange(q) \/ Prove(q) \/ Others(q)
         \/ VerifyCode(q) \/ ReadEnrolment(q) \/ VerifyTotp(q)
  PROVE  Knows(q)'
<1> DEFINE l == local[q]
           m == local'[q]
<1>1. /\ AccountTypes /\ UserFits(q) /\ StepFits(q) /\ TokenFits(q) /\ KnowsAs(q, l)
      /\ q.op = "oauth" /\ l.user # 0 /\ l.pc # "done" => Lives(l.user)
  BY MoverKeeps DEF Alone, RunsAlong, Knows, KnowsAs, KnowsUser
<1>2. UNCHANGED <<users, idents, resets>>
  BY DEF StartRegistration, IssueCode, AskEmailChange, Prove, Others, VerifyCode, ReadEnrolment,
         VerifyTotp, accounts, pendings
<1>3. ASSUME NEW pc \in Unknowing, Goes(q, pc), l.pc # "done"
      PROVE  KnowsAs(q, m)
  <2>1. m.pc = pc /\ m.user = l.user
    BY <1>1, <1>3, GoesWhere DEF Same
  <2> QED BY <1>1, <1>3, <2>1, KnowsPlain
<1>4. CASE StartRegistration(q) \/ IssueCode(q) \/ AskEmailChange(q) \/ ReadEnrolment(q)
  <2>1. (Goes(q, "issue") \/ Goes(q, "pend") \/ Goes(q, "enable")) /\ l.pc # "done"
    BY <1>4 DEF StartRegistration, IssueCode, AskEmailChange, ReadEnrolment, At
  <2> QED BY <1>2, <1>3, <2>1, KnownStill DEF Unknowing
<1>5. CASE Prove(q)
  <2>1. /\ l.pc = "prove" /\ q.op \in {"delete", "password", "disable"}
        /\ Same(q, NextStep(q.op, l.admin))
    BY <1>1, <1>5, GoesWhere DEF Prove, StepFits
  <2>2. q.op = "delete" => /\ m.pc = "others" \/ (m.pc = "delete" /\ ~users[l.user].admin)
                           /\ m.user = l.user
    BY <1>1, <2>1 DEF Same, NextStep, KnowsAs, KnowsAdmin
  <2>3. q.op # "delete" => m.pc \in {"check", "disable"}
    BY <2>1 DEF Same, NextStep, Admin
  <2> HIDE DEF l, m
  <2>4. KnowsAs(q, m)
    BY <2>1, <2>2, <2>3 DEF KnowsAs, KnowsEmail, KnowsIdent, KnowsReset, KnowsUser, KnowsAdmin, Admin
  <2> QED BY <1>2, <2>4, KnownStill DEF m
<1>6. CASE Others(q)
  <2>1. /\ l.pc = "others" /\ q.op \in {"promote", "demote", "lock", "delete"} /\ Same(q, q.op)
        /\ q.op = "delete" \/ (q.op \in {"demote", "lock"} /\ q.user = l.user) =>
             OtherAdmins(l.user) # {}
    BY <1>1, <1>6, GoesWhere DEF Others, StepFits, Admin
  <2>2. m.pc = q.op /\ m.user = l.user
    BY <2>1 DEF Same
  <2>3. q.op \in Admin => users[l.user].admin /\ Lives(l.user)
    BY <1>1, <2>1 DEF KnowsAs, KnowsAdmin
  <2> HIDE DEF l, m
  <2>4. KnowsAs(q, m)
    BY <2>1, <2>2, <2>3 DEF KnowsAs, KnowsEmail, KnowsIdent, KnowsReset, KnowsUser, KnowsAdmin, Admin
  <2> QED BY <1>2, <2>4, KnownStill DEF m
<1>7. CASE VerifyCode(q)
  <2>1. l.pc = "spend" /\ q.op \in {"verify", "confirmChange"}
    BY <1>1, <1>7 DEF VerifyCode, StepFits
  <2>2. Same(q, "done") \/ Same(q, "write")
    BY <1>1, <1>7, GoesWhere DEF VerifyCode
  <2>3. CASE Same(q, "write")
    <3>1. m.pc = "write" /\ m.pending = l.pending /\ m.user = l.user
      BY <2>3 DEF Same
    <3> HIDE DEF l, m
    <3>2. KnowsAs(q, m)
      BY <1>1, <2>1, <3>1 DEF KnowsAs, KnowsEmail, KnowsIdent, KnowsReset, KnowsUser, KnowsAdmin, Admin
    <3> QED BY <1>2, <3>2, KnownStill DEF m
  <2> QED BY <2>2, <2>3, KnowsWhenDone
<1>8. CASE VerifyTotp(q)
  <2>1. At(q, "second", "totp") /\ Same(q, "rotate") /\ l.token.kind = "second"
    BY <1>1, <1>8, GoesWhere DEF VerifyTotp, At, TokenFits
  <2>2. m.pc = "rotate" /\ m.token = l.token /\ q.op = "second"
    BY <2>1 DEF Same, At
  <2> HIDE DEF l, m
  <2>3. KnowsAs(q, m)
    BY <2>1, <2>2 DEF KnowsAs, KnowsEmail, KnowsIdent, KnowsReset, KnowsUser, KnowsAdmin, Admin
  <2> QED BY <1>2, <2>3, KnownStill DEF m
<1> QED BY <1>4, <1>5, <1>6, <1>7, <1>8

LEMMA FindersKnow ==
  ASSUME NEW q \in DOMAIN local, Alone(q),
         \/ VerifyRegistration(q) \/ ConfirmEmailChange(q) \/ FindIdentity(q) \/ FindOwner(q)
         \/ FindEmail(q) \/ RequestReset(q)
  PROVE  Knows(q)'
<1> DEFINE l == local[q]
           m == local'[q]
<1>1. /\ AccountTypes /\ UserFits(q) /\ StepFits(q) /\ RowFits(q) /\ KnowsAs(q, l)
      /\ q.op = "oauth" /\ l.user # 0 /\ l.pc # "done" => Lives(l.user)
  BY MoverKeeps DEF Alone, RunsAlong, Knows, KnowsAs, KnowsUser
<1>2. UNCHANGED <<users, idents, resets>>
  BY DEF VerifyRegistration, ConfirmEmailChange, FindIdentity, FindOwner, FindEmail, RequestReset,
         accounts, pendings
<1>3. ASSUME NEW u \in DOMAIN users, Lives(u), NEW pc \in {"look", "find", "replace"},
             ReadsUser(q, pc, u)
      PROVE  Knows(q)'
  <2>1. Gets(q, StateOf(pc, u, l.admin, l.pending, l.row, l.kind, l.token, l.code))
    BY <1>1, <1>3, ReadsUserTo
  <2>2. m.pc = pc /\ m.user = u
    BY <2>1 DEF Gets, StateOf
  <2>3. KnowsAs(q, m)
    BY <1>3, <2>2, KnowsPlain DEF Unknowing
  <2> QED BY <1>2, <2>3, KnownStill
<1>4. CASE VerifyRegistration(q) \/ ConfirmEmailChange(q)
  <2>1. PICK p : /\ ReadsPending(q, "spend", p)
                 /\ q.op \in {"verify", "confirmChange"}
                 /\ q.op = "verify" => ~Taken(p.email)
                 /\ q.op = "confirmChange" => ~TakenByOther(p.email, p.user)
    BY <1>4 DEF VerifyRegistration, ConfirmEmailChange, At
  <2>2. Gets(q, StateOf("spend", l.user, l.admin, p, l.row, l.kind, l.token, l.code))
    BY <1>1, <2>1, ReadsPendingTo
  <2>3. m.pc = "spend" /\ m.pending = p
    BY <2>2 DEF Gets, StateOf
  <2> HIDE DEF l, m
  <2>4. KnowsAs(q, m)
    BY <2>1, <2>3 DEF KnowsAs, KnowsEmail, KnowsIdent, KnowsReset, KnowsUser, KnowsAdmin, Admin
  <2> QED BY <1>2, <2>4, KnownStill DEF m
<1>5. CASE FindIdentity(q)
  <2> DEFINE rows == {row \in idents : row.ident = q.ident}
  <2>0. q.op = "oauth" => l.pc \in {"ready", "find"}
    BY <1>5 DEF FindIdentity, At
  <2>a. l.pc # "done"
    BY <1>5 DEF FindIdentity, At
  <2>1. CASE rows = {}
    <3>1. Same(q, "push") \/ Same(q, "email")
      BY <1>1, <1>5, <2>1, GoesWhere DEF FindIdentity
    <3>2. m.pc \in {"push", "email"} /\ m.user = l.user
      BY <3>1 DEF Same
    <3>3. \A row \in idents : row.ident # q.ident
      BY <2>1
    <3> HIDE DEF l, m, rows
    <3>4. KnowsAs(q, m)
      BY <1>1, <2>a, <3>2, <3>3 DEF KnowsAs, KnowsEmail, KnowsIdent, KnowsReset, KnowsUser, KnowsAdmin, Admin
    <3> QED BY <1>2, <3>4, KnownStill DEF m
  <2>2. CASE rows # {}
    <3>1. PICK row \in idents : row.ident = q.ident /\ ReadsRow(q, "owner", row)
      BY <1>5, <2>2 DEF FindIdentity
    <3>2. Gets(q, StateOf("owner", l.user, l.admin, l.pending, row, l.kind, l.token, l.code))
      BY <1>1, <3>1, ReadsRowTo
    <3>3. m.pc = "owner" /\ m.user = l.user /\ m.row = row
      BY <3>2 DEF Gets, StateOf
    <3>4. \A other \in idents : other.ident = q.ident => other.id = row.id
      BY <3>1 DEF Alone, SerialFacts
    <3> HIDE DEF l, m, rows
    <3>5. KnowsAs(q, m)
      BY <1>1, <2>a, <3>3, <3>4 DEF KnowsAs, KnowsEmail, KnowsIdent, KnowsReset, KnowsUser, KnowsAdmin, Admin
    <3> QED BY <1>2, <3>5, KnownStill DEF m
  <2> QED BY <2>1, <2>2
<1>6. CASE FindOwner(q)
  <2>0. l.pc = "owner"
    BY <1>6 DEF FindOwner
  <2>1. CASE l.row.user \notin LiveUsers
    <3>1. Same(q, "stale")
      BY <1>1, <1>6, <2>1, GoesWhere DEF FindOwner
    <3>2. m.pc = "stale" /\ m.user = l.user /\ m.row = l.row
      BY <3>1 DEF Same
    <3> HIDE DEF l, m
    <3>4. KnowsAs(q, m)
      BY <1>1, <2>0, <3>2 DEF KnowsAs, KnowsEmail, KnowsIdent, KnowsReset, KnowsUser, KnowsAdmin, Admin
    <3> QED BY <1>2, <3>4, KnownStill DEF m
  <2>2. CASE l.row.user \in LiveUsers /\ Linking(q)
    <3>1. Same(q, "look") \/ Same(q, "done")
      BY <1>1, <1>6, <2>2, GoesWhere DEF FindOwner
    <3>2. CASE Same(q, "look")
      <4>1. m.pc = "look" /\ m.user = l.user
        BY <3>2 DEF Same
      <4>2. KnowsAs(q, m)
        BY <1>1, <2>0, <4>1, KnowsPlain DEF Unknowing
      <4> QED BY <1>2, <4>2, KnownStill
    <3> QED BY <3>1, <3>2, KnowsWhenDone
  <2>3. CASE l.row.user \in LiveUsers /\ ~Linking(q)
    <3>1. ReadsUser(q, "look", l.row.user) /\ l.row.user \in DOMAIN users /\ Lives(l.row.user)
      BY <1>6, <2>3 DEF FindOwner, LiveUsers, Lives
    <3> QED BY <1>3, <3>1
  <2> QED BY <2>1, <2>2, <2>3
<1>7. CASE FindEmail(q)
  <2> DEFINE named == {u \in LiveUsers : q.email # NoEmail /\ users[u].email = q.email}
  <2>1. CASE named = {}
    <3>1. At(q, "oauth", "email") /\ Same(q, "create")
      BY <1>1, <1>7, <2>1, GoesWhere DEF FindEmail
    <3>2. m.pc = "create" /\ m.user = l.user /\ l.pc = "email" /\ q.op = "oauth"
      BY <3>1 DEF Same, At
    <3>3. q.email = NoEmail \/ ~Taken(q.email)
      BY <2>1 DEF Taken
    <3> HIDE DEF l, m, named
    <3>4. KnowsAs(q, m)
      BY <1>1, <3>2, <3>3 DEF KnowsAs, KnowsEmail, KnowsIdent, KnowsReset, KnowsUser, KnowsAdmin, Admin
    <3> QED BY <1>2, <3>4, KnownStill DEF m
  <2>2. CASE named # {}
    <3>1. ReadsUser(q, "find", Min(named))
      BY <1>7, <2>2 DEF FindEmail
    <3>2. named \in SUBSET DOMAIN users /\ \A u \in named : Lives(u)
      BY DEF LiveUsers, Lives
    <3> HIDE DEF named
    <3>3. Min(named) \in named /\ Min(named) \in DOMAIN users
      BY <1>1, <2>2, <3>2, FirstAccount
    <3> QED BY <1>3, <3>1, <3>2, <3>3
  <2> QED BY <2>1, <2>2
<1>8. CASE RequestReset(q)
  <2> DEFINE named == {u \in LiveUsers : users[u].email = q.email}
  <2>1. named # {} /\ ReadsUser(q, "replace", Min(named))
    BY <1>8 DEF RequestReset
  <2>2. named \in SUBSET DOMAIN users /\ \A u \in named : Lives(u)
    BY DEF LiveUsers, Lives
  <2> HIDE DEF named
  <2>3. Min(named) \in named /\ Min(named) \in DOMAIN users
    BY <1>1, <2>1, <2>2, FirstAccount
  <2> QED BY <1>3, <2>1, <2>2, <2>3
<1> QED BY <1>4, <1>5, <1>6, <1>7, <1>8

LEMMA LookersKnow ==
  ASSUME NEW q \in DOMAIN local, Alone(q),
         Authenticate(q) \/ Login(q) \/ LookForFactor(q) \/ ConfirmReset(q) \/ FindPending(q)
  PROVE  Knows(q)'
<1> DEFINE l == local[q]
           m == local'[q]
<1>1. /\ AccountTypes /\ UserFits(q) /\ KnowsAs(q, l)
      /\ q.op = "oauth" /\ l.user # 0 /\ l.pc # "done" => Lives(l.user)
  BY MoverKeeps DEF Alone, RunsAlong, Knows, KnowsAs, KnowsUser
<1>2. UNCHANGED <<users, idents, resets>>
  BY DEF Authenticate, Login, LookForFactor, ConfirmReset, FindPending, accounts, pendings
<1>3. CASE Authenticate(q)
  <2>1. PICK s \in sessions : \E pc \in Asked(q.op, s.user) : AuthenticatesAs(q, s, pc)
    BY <1>1, <1>3, AuthenticateEffect
  <2>2. PICK pc \in Asked(q.op, s.user) : AuthenticatesAs(q, s, pc)
    BY <2>1
  <2>3. /\ m.pc = pc /\ m.user = s.user /\ m.admin = users[s.user].admin
        /\ q.op \in Private
        /\ q.op \in Admin => users[s.user].admin
        /\ q.op = "enroll" => ~On(s.user)
    BY <2>2 DEF AuthenticatesAs, Gets, StateOf
  <2>4. pc \in {"check", "others", "delete", "find", "prove", "unlink", "disable",
                "regenerate", "enroll", "confirmFactor"}
    BY <2>3, AskedAre
  <2>5. Lives(s.user)
    BY DEF Alone, SerialFacts
  <2>6. pc = "delete" /\ q.op = "delete" => ~users[s.user].admin
    BY DEF Asked, NextStep
  <2>7. q.op # "oauth"
    BY <2>3 DEF Private, Admin, Enrols
  <2> HIDE DEF m, l
  <2>8. KnowsAs(q, m)
    BY <2>3, <2>4, <2>5, <2>6, <2>7
    DEF KnowsAs, KnowsEmail, KnowsIdent, KnowsReset, KnowsUser, KnowsAdmin, Admin
  <2> QED BY <1>2, <2>8, KnownStill DEF m
<1>4. CASE Login(q)
  <2>1. PICK u \in DOMAIN users : LogsInAs(q, u)
    BY <1>1, <1>4, LoginEffect
  <2> DEFINE kind == LoginKind(q, u)
  <2>2. /\ m.pc = "session" /\ m.user = u /\ m.kind = kind /\ users[u].live /\ q.op = "login"
    BY <2>1 DEF LogsInAs, Gets, StateOf, At
  <2>3. kind = "full" => ~On(u) /\ q.email \notin AdminEmails
    BY DEF LoginKind
  <2> HIDE DEF m, l, kind
  <2>4. KnowsAs(q, m)
    BY <2>2, <2>3 DEF KnowsAs, KnowsEmail, KnowsIdent, KnowsReset, KnowsUser, KnowsAdmin, Admin, Lives
  <2> QED BY <1>2, <2>4, KnownStill DEF m
<1>5. CASE LookForFactor(q)
  <2> DEFINE kind == IF On(l.user) THEN "second" ELSE "full"
  <2>1. /\ At(q, "oauth", "look")
        /\ Gets(q, StateOf("session", l.user, l.admin, l.pending, l.row, kind, l.token, l.code))
    BY <1>1, <1>5, LookEffect
  <2>2. kind = "full" => ~On(l.user)
    OBVIOUS
  <2> HIDE DEF kind
  <2>3. m.pc = "session" /\ m.user = l.user /\ m.kind = kind /\ q.op = "oauth" /\ l.pc = "look"
    BY <2>1 DEF Gets, StateOf, At
  <2>4. l.user # 0
    BY <1>1, <2>3 DEF UserFits, Nobodys
  <2> HIDE DEF m, l
  <2>5. KnowsAs(q, m)
    BY <1>1, <2>2, <2>3, <2>4 DEF KnowsAs, KnowsEmail, KnowsIdent, KnowsReset, KnowsUser, KnowsAdmin, Admin
  <2> QED BY <1>2, <2>5, KnownStill DEF m
<1>6. CASE ConfirmReset(q)
  <2>1. PICK r \in resets : ConfirmsReset(q, r)
    BY <1>1, <1>6, ConfirmResetEffect
  <2>2. m.pc = "write" /\ m.pending = r /\ q.op = "reset" /\ ~r.used
    BY <2>1 DEF ConfirmsReset, Gets, StateOf, At
  <2> HIDE DEF m, l
  <2>3. KnowsAs(q, m)
    BY <2>2 DEF KnowsAs, KnowsEmail, KnowsIdent, KnowsReset, KnowsUser, KnowsAdmin, Admin
  <2> QED BY <1>2, <2>3, KnownStill DEF m
<1>7. CASE FindPending(q)
  <2>1. PICK s \in sessions, pc \in {"totp", "recovery"} : FindsPending(q, s, pc)
    BY <1>1, <1>7, FindPendingEffect
  <2>2. m.pc = pc /\ q.op = "second"
    BY <2>1 DEF FindsPending, Gets, StateOf, At
  <2>3. KnowsAs(q, m)
    BY <2>2, KnowsPlain DEF Unknowing
  <2> QED BY <1>2, <2>3, KnownStill
<1> QED BY <1>3, <1>4, <1>5, <1>6, <1>7

LivesNext(u) == users'[u].live \/ users'[u].toggled

LEMMA PlainNext ==
  ASSUME NEW q, local'[q].pc \in Unknowing,
         q.op = "oauth" /\ local'[q].user # 0 /\ local'[q].pc # "done" => LivesNext(local'[q].user)
  PROVE  Knows(q)'
<1> DEFINE m == local'[q]
<1>1. /\ m.pc \notin {"spend", "write", "email", "create", "push", "owner", "stale", "session",
                      "enroll", "rotate", "others", "prove", "delete", "promote", "demote", "lock"}
  BY DEF Unknowing
<1>2. KnowsEmail(q, local[q])' /\ KnowsIdent(q, local[q])' /\ KnowsReset(q, local[q])'
  BY <1>1 DEF KnowsEmail, KnowsIdent, KnowsReset
<1>3. KnowsUser(q, local[q])' /\ KnowsAdmin(q, local[q])'
  BY <1>1 DEF KnowsUser, KnowsAdmin, Admin, Lives, LivesNext
<1> QED BY <1>2, <1>3 DEF Knows, KnowsAs

LEMMA WritersKnow ==
  ASSUME NEW q \in DOMAIN local, Alone(q),
         \/ DropIdentity(q) \/ PushIdentity(q) \/ CreateFromOAuth(q) \/ EnableFactor(q)
         \/ ConsumeRecoveryCode(q)
  PROVE  Knows(q)'
<1> DEFINE l == local[q]
           m == local'[q]
<1>1. /\ AccountTypes /\ RequestsFit /\ UserFits(q) /\ TokenFits(q) /\ KnowsAs(q, l)
      /\ q.op = "oauth" /\ l.user # 0 /\ l.pc # "done" => Lives(l.user)
  BY MoverKeeps DEF Alone, RunsAlong, Knows, KnowsAs, KnowsUser
<1>2. CASE DropIdentity(q)
  <2>1. /\ Same(q, "push") \/ Same(q, "email")
        /\ l.pc = "stale" /\ UNCHANGED <<users, resets>>
        /\ idents' = {row \in idents : row.id # l.row.id}
    BY <1>1, <1>2, GoesWhere DEF DropIdentity, pendings
  <2>2. m.pc \in {"push", "email"} /\ m.user = l.user
    BY <2>1 DEF Same
  <2>3. \A row \in idents' : row.ident # q.ident
    BY <1>1, <2>1 DEF KnowsAs, KnowsIdent
  <2> HIDE DEF l
  <2>4. KnowsEmail(q, local[q])' /\ KnowsIdent(q, local[q])' /\ KnowsReset(q, local[q])'
    BY <2>2, <2>3 DEF KnowsEmail, KnowsIdent, KnowsReset
  <2>5. KnowsUser(q, local[q])' /\ KnowsAdmin(q, local[q])'
    BY <1>1, <2>1, <2>2 DEF KnowsUser, KnowsAdmin, Admin, Lives
  <2> QED BY <2>4, <2>5 DEF Knows, KnowsAs
<1>3. CASE PushIdentity(q)
  <2>1. /\ Same(q, "look") \/ Same(q, "done")
        /\ l.pc = "push" /\ UNCHANGED users
    BY <1>1, <1>3, GoesWhere DEF PushIdentity
  <2>2. m.pc \in Unknowing /\ m.user = l.user
    BY <2>1 DEF Same, Unknowing
  <2>3. Lives(m.user) => LivesNext(m.user)
    BY <2>1 DEF Lives, LivesNext
  <2> QED BY <1>1, <2>1, <2>2, <2>3, PlainNext
<1>4. CASE CreateFromOAuth(q)
  <2> DEFINE u == Len(users) + 1
  <2>1. ReadsUser(q, "look", u)
    BY <1>4 DEF CreateFromOAuth
  <2>a. Appends(NewUser(q.email, FALSE))
    BY <1>1, <1>4, CreateFromOAuthEffect
  <2>b. users'[u] = NewUser(q.email, FALSE)
    BY <1>1, <2>a, AppendsAre
  <2>2. users'[u].live
    BY <2>b DEF NewUser
  <2> HIDE DEF u
  <2>3. Gets(q, StateOf("look", u, l.admin, l.pending, l.row, l.kind, l.token, l.code))
    BY <1>1, <2>1, ReadsUserTo
  <2>4. m.pc = "look" /\ m.user = u
    BY <2>3 DEF Gets, StateOf
  <2> QED BY <2>2, <2>4, PlainNext DEF Unknowing, LivesNext
<1>5. CASE EnableFactor(q)
  <2>1. /\ Same(q, "rotate") \/ Same(q, "done")
        /\ l.pc = "enable" /\ q.op = "confirmFactor"
    BY <1>1, <1>5, GoesWhere DEF EnableFactor, TokenFits
  <2>2. CASE Same(q, "rotate")
    <3>1. m.pc = "rotate" /\ m.user = l.user
      BY <2>2 DEF Same
    <3>2. l.user \in DOMAIN users
      BY <1>1, <2>1, UsersAre DEF UserFits, Nobodys
    <3>3. LET a == users[l.user] IN
          Replaces(l.user, AccountOf(a.email, a.password, a.live, a.admin, a.toggled,
                                     [on |-> TRUE, codes |-> Fresh(q)]))
      BY <1>1, <1>5, EnableFactorEffect
    <3>4. users'[l.user].factor.on
      BY <3>2, <3>3 DEF Replaces, UserBecomes, AccountOf
    <3> HIDE DEF l
    <3>5. KnowsEmail(q, local[q])' /\ KnowsIdent(q, local[q])' /\ KnowsReset(q, local[q])'
      BY <2>1, <3>1 DEF KnowsEmail, KnowsIdent, KnowsReset
    <3>6. KnowsUser(q, local[q])' /\ KnowsAdmin(q, local[q])'
      BY <2>1, <3>1, <3>4 DEF KnowsUser, KnowsAdmin, Admin, On
    <3> QED BY <3>5, <3>6 DEF Knows, KnowsAs
  <2> QED BY <2>1, <2>2, KnowsWhenDone
<1>6. CASE ConsumeRecoveryCode(q)
  <2>1. PICK code \in users[l.user].factor.codes : Consumes(q, code)
    BY <1>1, <1>6, ConsumeEffect
  <2>2. /\ m.pc = "rotate" /\ m.token = l.token /\ q.op = "second" /\ l.pc = "recovery"
    BY <2>1 DEF Consumes, Gets, StateOf, At
  <2>3. l.token.kind = "second"
    BY <1>1, <2>2 DEF TokenFits
  <2> HIDE DEF l
  <2>4. KnowsEmail(q, local[q])' /\ KnowsIdent(q, local[q])' /\ KnowsReset(q, local[q])'
    BY <2>2 DEF KnowsEmail, KnowsIdent, KnowsReset
  <2>5. KnowsUser(q, local[q])' /\ KnowsAdmin(q, local[q])'
    BY <2>2, <2>3 DEF KnowsUser, KnowsAdmin, Admin
  <2> QED BY <2>4, <2>5 DEF Knows, KnowsAs
<1> QED BY <1>2, <1>3, <1>4, <1>5, <1>6

LEMMA MoverKnows ==
  ASSUME NEW q \in DOMAIN local, Alone(q), AccountStep(q) \/ FactorStep(q)
  PROVE  Knows(q)'
<1>1. RunsAlong(q) /\ AccountTypes /\ TokenFits(q)
  BY MoverKeeps DEF Alone, RunsAlong
<1>2. CASE RotateSession(q)
  <2>1. Same(q, "in") /\ q.op \in {"second", "confirmFactor"}
    BY <1>1, <1>2, GoesWhere DEF RotateSession, TokenFits
  <2> QED BY <2>1, KnowsWhenIn
<1>3. CASE \/ Ends(q) \/ PendRegistration(q) \/ CreateUser(q) \/ PendEmailChange(q) \/ ChangeEmail(q)
           \/ ChangePassword(q) \/ SoftDelete(q) \/ SetRole(q) \/ ToggleLock(q) \/ OpenSession(q)
           \/ UnlinkIdentity(q) \/ ReplaceReset(q) \/ WriteReset(q) \/ Enroll(q) \/ DisableFactor(q)
           \/ RegenerateCodes(q)
  BY <1>1, <1>3, DoersFit, KnowsWhenDone
<1> QED BY <1>2, <1>3, GoersKnow, FindersKnow, LookersKnow, WritersKnow DEF AccountStep, FactorStep

-----------------------------------------------------------------------------
(* What is so as long as no two requests overlap stays so after a step of a*)
(* request that knows what it read.                                        *)
LEMMA AddressesStayOne ==
  ASSUME NEW q \in DOMAIN local, Alone(q), AccountStep(q) \/ FactorStep(q)
  PROVE  \A u, v \in Untouched' :
           u # v => users'[u].email # users'[v].email \/ users'[u].email = NoEmail
<1>1. /\ AccountTypes /\ RequestsFit /\ KnowsEmail(q, local[q])
      /\ \A u, v \in Untouched : u # v => users[u].email # users[v].email \/ users[u].email = NoEmail
  BY DEF Alone, RunsAlong, Knows, KnowsAs, SerialFacts
<1>2. \A u \in DOMAIN users : u \in Untouched' => u \in Untouched
  BY DEF Alone, RunsAlong, Steps, UsersGrow
<1>3. \A u \in Untouched' : u \in DOMAIN users'
  BY DEF Untouched, LiveUsers
<1>4. \A u \in Untouched : u \in LiveUsers /\ u \in DOMAIN users
  BY DEF Untouched, LiveUsers
<1>5. CASE ChangeEmail(q)
  <2> DEFINE p == local[q].pending
  <2>1. q.op = "confirmChange" /\ local[q].pc = "write"
    BY <1>5 DEF ChangeEmail, At
  <2>2. ~TakenByOther(p.email, p.user)
    BY <1>1, <2>1 DEF KnowsEmail
  <2> HIDE DEF p
  <2>3. LET a == users[p.user] IN
        Replaces(p.user, AccountOf(p.email, a.password, a.live, a.admin, a.toggled, a.factor))
    BY <1>1, <1>5, ChangeEmailEffect DEF p
  <2>4. /\ DOMAIN users' = DOMAIN users
        /\ \A v \in DOMAIN users : users'[v].email = IF v = p.user THEN p.email ELSE users[v].email
    BY <2>3 DEF Replaces, UserBecomes, AccountOf
  <2>5. \A u \in LiveUsers : u # p.user => users[u].email # p.email
    BY <2>2 DEF TakenByOther
  <2> QED BY <1>1, <1>2, <1>3, <1>4, <2>4, <2>5
<1>6. CASE ~ChangeEmail(q)
  <2>1. \A u \in DOMAIN users : users'[u].email = users[u].email
    BY <1>1, <1>6, AccountsKept DEF AccountKept, KeptAs
  <2>2. ASSUME NEW v \in DOMAIN users', v \notin DOMAIN users
        PROVE  /\ v = Len(users) + 1
               /\ \A u \in LiveUsers : users[u].email # users'[v].email \/ users'[v].email = NoEmail
    <3>1. /\ v = Len(users) + 1
          /\ \/ CreateUser(q) /\ users'[v] = NewUser(local[q].pending.email, TRUE)
             \/ CreateFromOAuth(q) /\ users'[v] = NewUser(q.email, FALSE)
      BY <1>1, <2>2, NewAccounts
    <3>2. CASE CreateUser(q) /\ users'[v] = NewUser(local[q].pending.email, TRUE)
      <4>1. users'[v].email = local[q].pending.email /\ ~Taken(local[q].pending.email)
        BY <1>1, <3>2 DEF CreateUser, At, KnowsEmail, NewUser
      <4> QED BY <3>1, <4>1 DEF Taken
    <3>3. CASE CreateFromOAuth(q) /\ users'[v] = NewUser(q.email, FALSE)
      <4>1. users'[v].email = q.email /\ (q.email = NoEmail \/ ~Taken(q.email))
        BY <1>1, <3>3 DEF CreateFromOAuth, At, KnowsEmail, NewUser
      <4> QED BY <3>1, <4>1 DEF Taken
    <3> QED BY <3>1, <3>2, <3>3
  <2>3. ASSUME NEW u \in Untouched', NEW v \in Untouched', u # v
        PROVE  users'[u].email # users'[v].email \/ users'[u].email = NoEmail
    <3>1. CASE u \in DOMAIN users /\ v \in DOMAIN users
      BY <1>1, <1>2, <2>1, <2>3, <3>1
    <3>2. CASE u \in DOMAIN users /\ v \notin DOMAIN users
      BY <1>2, <1>3, <1>4, <2>1, <2>2, <3>2
    <3>3. CASE u \notin DOMAIN users /\ v \in DOMAIN users
      BY <1>2, <1>3, <1>4, <2>1, <2>2, <3>3
    <3>4. CASE u \notin DOMAIN users /\ v \notin DOMAIN users
      BY <1>3, <2>2, <2>3, <3>4
    <3> QED BY <3>1, <3>2, <3>3, <3>4
  <2> QED BY <2>3
<1> QED BY <1>5, <1>6

LEMMA IdentitiesStayOne ==
  ASSUME NEW q \in DOMAIN local, Alone(q), AccountStep(q) \/ FactorStep(q)
  PROVE  \A one, two \in idents' : one.ident = two.ident => one = two
<1>1. /\ KnowsIdent(q, local[q])
      /\ \A one, two \in idents : one.ident = two.ident => one = two
  BY DEF Alone, Knows, KnowsAs, SerialFacts
<1>2. CASE idents' \subseteq idents
  BY <1>1, <1>2
<1>3. CASE PushIdentity(q) \/ CreateFromOAuth(q)
  <2>1. \E u : idents' = idents \cup {[id |-> made + 1, ident |-> q.ident, user |-> u]}
    BY <1>3 DEF PushIdentity, CreateFromOAuth, AddsRow
  <2>2. PICK u : idents' = idents \cup {[id |-> made + 1, ident |-> q.ident, user |-> u]}
    BY <2>1
  <2> DEFINE new == [id |-> made + 1, ident |-> q.ident, user |-> u]
  <2>3. new.ident = q.ident /\ idents' = idents \cup {new}
    BY <2>2
  <2>4. \A row \in idents : row.ident # q.ident
    BY <1>1, <1>3 DEF PushIdentity, CreateFromOAuth, At, KnowsIdent
  <2> HIDE DEF new
  <2> QED BY <1>1, <2>3, <2>4
<1>4. CASE DropIdentity(q) \/ UnlinkIdentity(q)
  BY <1>2, <1>4 DEF DropIdentity, UnlinkIdentity
<1>5. CASE ~WritesRows(q)
  BY <1>2, <1>5, EachIsOne, GoersKeep, OthersKeep
<1> QED BY <1>3, <1>4, <1>5 DEF WritesRows

LEMMA LinksStayOnce ==
  ASSUME NEW q \in DOMAIN local, Alone(q), ResetsFit, AccountStep(q) \/ FactorStep(q)
  PROVE  \A r \in resets' : r.times <= 1
<1>1. /\ KnowsReset(q, local[q]) /\ resets \subseteq Reset
      /\ \A r \in resets : r.times <= 1
  BY DEF Alone, RunsAlong, Knows, KnowsAs, SerialFacts, AccountTypes
<1>2. CASE UNCHANGED resets
  BY <1>1, <1>2
<1>3. CASE ReplaceReset(q)
  <2> DEFINE new == [request |-> q, user |-> local[q].user, used |-> FALSE, times |-> 0]
  <2>1. resets' \subseteq resets \cup {new}
    BY <1>3 DEF ReplaceReset
  <2>2. new.times = 0
    OBVIOUS
  <2> HIDE DEF new
  <2> QED BY <1>1, <2>1, <2>2
<1>4. CASE WriteReset(q)
  <2> DEFINE p == local[q].pending
  <2>1. /\ p \in resets /\ ~p.used
        /\ resets' = {IF r.request = p.request THEN [r EXCEPT !.used = TRUE, !.times = @ + 1] ELSE r :
                        r \in resets}
    BY <1>1, <1>4 DEF WriteReset, At, KnowsReset
  <2>2. p.times = 0 /\ \A r \in resets : r.request = p.request => r = p
    BY <2>1 DEF ResetsFit
  <2> HIDE DEF p
  <2>3. resets' = {UsedOf(r, p.request) : r \in resets}
    BY <2>1 DEF UsedOf
  <2>4. ASSUME NEW r \in resets
        PROVE  UsedOf(r, p.request).times <= 1
    <3>1. CASE r.request # p.request
      BY <1>1, <2>4, <3>1 DEF UsedOf
    <3>2. CASE r.request = p.request
      <4>1. r = p /\ p \in Reset
        BY <1>1, <2>1, <2>2, <3>2
      <4>2. UsedOf(p, p.request).times = p.times + 1
        BY <4>1, UsedIs
      <4> QED BY <2>2, <4>1, <4>2
    <3> QED BY <3>1, <3>2
  <2> QED BY <2>3, <2>4
<1>5. CASE ~ReplaceReset(q) /\ ~WriteReset(q)
  <2>1. CASE Goer(q)
    BY <1>2, <1>5, <2>1 DEF Goer, Prove, Ends, StartRegistration, IssueCode, PendRegistration, VerifyCode,
       CreateUser, AskEmailChange, PendEmailChange, ChangeEmail, ChangePassword, SoftDelete, Others, SetRole,
       ToggleLock, OpenSession, DropIdentity, PushIdentity, UnlinkIdentity,
       Enroll, ReadEnrolment, EnableFactor, DisableFactor, RegenerateCodes,
       VerifyTotp, RotateSession, pendings, pendingMails
  <2>2. CASE Reader(q) \/ Looker(q)
    BY <1>2, <2>2, OthersKeepMails
  <2> QED BY <2>1, <2>2, EachIsOne
<1> QED BY <1>3, <1>4, <1>5

LEMMA SessionsStayLive ==
  ASSUME NEW q \in DOMAIN local, Alone(q), AccountStep(q) \/ FactorStep(q)
  PROVE  \A s \in sessions' : LivesNext(s.user)
<1>1. /\ AccountTypes /\ RequestsFit /\ KnowsUser(q, local[q]) /\ UserFits(q)
      /\ \A s \in sessions : Lives(s.user) /\ s.user \in DOMAIN users
  BY MoverKeeps DEF Alone, RunsAlong, Knows, KnowsAs, SerialFacts
<1>2. \A u \in DOMAIN users : ~(SoftDelete(q) /\ u = local[q].user) /\ Lives(u) => LivesNext(u)
  BY <1>1, AccountsKept DEF AccountKept, KeptAs, Lives, LivesNext
<1>3. CASE ~WritesSessions(q)
  <2>1. sessions' = sessions /\ ~SoftDelete(q)
    BY <1>3, EachIsOne, GoersKeep, OthersKeep DEF WritesSessions
  <2> QED BY <1>1, <1>2, <2>1
<1>4. CASE SoftDelete(q)
  <2>1. \A s \in sessions' : s \in sessions /\ s.user # local[q].user
    BY <1>4 DEF SoftDelete
  <2> QED BY <1>1, <1>2, <2>1
<1>5. ASSUME NEW u, NEW k, LivesNext(u), ~SoftDelete(q),
             sessions' \subseteq sessions \cup {SessionOf(u, q, k)}
      PROVE  \A s \in sessions' : LivesNext(s.user)
  <2>1. SessionOf(u, q, k).user = u
    BY DEF SessionOf
  <2> QED BY <1>1, <1>2, <1>5, <2>1
<1>6. CASE WriteReset(q)
  <2>1. sessions' \subseteq sessions /\ ~SoftDelete(q)
    BY <1>6 DEF WriteReset, SoftDelete, At
  <2> QED BY <1>1, <1>2, <2>1
<1>7. CASE CreateUser(q)
  <2>1. Appends(NewUser(local[q].pending.email, TRUE))
    BY <1>1, <1>7, CreateUserEffect
  <2>2. users'[Len(users) + 1] = NewUser(local[q].pending.email, TRUE)
    BY <1>1, <2>1, AppendsAre
  <2>3. LivesNext(Len(users) + 1)
    BY <2>2 DEF LivesNext, NewUser
  <2>4. sessions' \subseteq sessions \cup {SessionOf(Len(users) + 1, q, "full")} /\ ~SoftDelete(q)
    BY <1>7 DEF CreateUser, SessionOf, SoftDelete, At
  <2> QED BY <1>5, <2>3, <2>4
<1>8. CASE OpenSession(q)
  <2>1. /\ sessions' \subseteq sessions \cup {SessionOf(local[q].user, q, local[q].kind)}
        /\ ~SoftDelete(q) /\ local[q].pc = "session"
    BY <1>8 DEF OpenSession, SessionOf, SoftDelete, At
  <2>2. Lives(local[q].user) /\ local[q].user \in DOMAIN users
    BY <1>1, <2>1, UsersAre DEF KnowsUser, UserFits, Nobodys
  <2> QED BY <1>2, <1>5, <2>1, <2>2
<1>9. CASE RotateSession(q)
  <2>1. /\ sessions' \subseteq sessions \cup {SessionOf(local[q].token.user, q, "full")}
        /\ ~SoftDelete(q) /\ local[q].token \in sessions
    BY <1>9 DEF RotateSession, SessionOf, SoftDelete, At
  <2> QED BY <1>1, <1>2, <1>5, <2>1
<1> QED BY <1>3, <1>4, <1>6, <1>7, <1>8, <1>9 DEF WritesSessions

LEMMA OffersStayOff ==
  ASSUME NEW q \in DOMAIN local, Alone(q), AccountStep(q) \/ FactorStep(q)
  PROVE  \A u \in enrolling' : u \in DOMAIN users' /\ ~users'[u].factor.on
<1>1. /\ AccountTypes /\ RequestsFit /\ KnowsUser(q, local[q]) /\ UserFits(q)
      /\ DOMAIN users \subseteq DOMAIN users'
      /\ \A u \in enrolling : u \in DOMAIN users /\ ~users[u].factor.on
  BY MoverKeeps DEF Alone, RunsAlong, Knows, KnowsAs, SerialFacts, On
<1>2. CASE EnableFactor(q)
  <2> DEFINE w == local[q].user
             b == users[w]
             new == AccountOf(b.email, b.password, b.live, b.admin, b.toggled,
                              [on |-> TRUE, codes |-> Fresh(q)])
  <2>1. UserBecomes(w, new) /\ enrolling' = enrolling \ {w}
    BY <1>1, <1>2, EnableFactorEffect DEF Replaces, EnableFactor
  <2> HIDE DEF new, w
  <2>2. \A u \in enrolling' : u \in DOMAIN users' /\ users'[u] = users[u]
    BY <1>1, <2>1 DEF UserBecomes
  <2> QED BY <1>1, <2>1, <2>2
<1>3. CASE ~EnableFactor(q)
  <2>1. \A u \in DOMAIN users : users'[u].factor.on => users[u].factor.on
    BY <1>1, <1>3, AccountsKept DEF AccountKept, KeptAs
  <2>2. CASE Enroll(q)
    <3>1. /\ enrolling' = enrolling \cup {local[q].user} /\ users' = users
          /\ q.op = "enroll" /\ local[q].pc = "enroll"
      BY <2>2 DEF Enroll, At, accounts
    <3>2. local[q].user \in DOMAIN users /\ ~users[local[q].user].factor.on
      BY <1>1, <3>1, UsersAre DEF KnowsUser, UserFits, Nobodys, On
    <3> QED BY <1>1, <3>1, <3>2
  <2>3. CASE ~Enroll(q)
    <3>1. CASE Goer(q)
      BY <1>1, <1>3, <2>1, <2>3, <3>1 DEF Goer, Prove, Ends, StartRegistration, IssueCode,
         PendRegistration, VerifyCode, CreateUser, AskEmailChange, PendEmailChange, ChangeEmail,
         ChangePassword, SoftDelete, Others, SetRole, ToggleLock, OpenSession, DropIdentity,
         PushIdentity, UnlinkIdentity, ReplaceReset, WriteReset, ReadEnrolment, DisableFactor,
         RegenerateCodes, VerifyTotp, RotateSession, pendings
    <3>2. CASE Reader(q) \/ Looker(q)
      BY <1>1, <2>1, <3>2, OthersKeepMails
    <3> QED BY <3>1, <3>2, EachIsOne
  <2> QED BY <2>2, <2>3
<1> QED BY <1>2, <1>3

GovernsNext(v) == users'[v].toggled \/ (users'[v].live /\ users'[v].admin)

LEMMA AnAdminGoesOn ==
  ASSUME NEW q \in DOMAIN local, Alone(q), AccountStep(q) \/ FactorStep(q)
  PROVE  (\E u \in DOMAIN users' : users'[u].admin) => \E u \in DOMAIN users' : GovernsNext(u)
<1> DEFINE me == local[q].user
<1>1. /\ AccountTypes /\ RequestsFit /\ KnowsAdmin(q, local[q]) /\ KnowsUser(q, local[q])
      /\ UserFits(q) /\ DOMAIN users \subseteq DOMAIN users'
      /\ (\E u \in DOMAIN users : users[u].admin) => \E u \in DOMAIN users : Governs(u)
  BY MoverKeeps DEF Alone, RunsAlong, Knows, KnowsAs, SerialFacts, Governs
<1>2. \A u \in DOMAIN users :
        ~(SoftDelete(q) /\ u = me) /\ ~(SetRole(q) /\ u = q.user) /\ Governs(u) => GovernsNext(u)
  BY <1>1, AccountsKept DEF AccountKept, KeptAs, Governs, GovernsNext
<1>3. \A u \in DOMAIN users : /\ users[u].toggled => GovernsNext(u)
                              /\ ~SoftDelete(q) /\ Lives(u) => LivesNext(u)
                              /\ ~SetRole(q) /\ ~OpenSession(q) => (users'[u].admin => users[u].admin)
  BY <1>1, AccountsKept DEF AccountKept, KeptAs, GovernsNext, Lives, LivesNext
<1>4. \A u \in OtherAdmins(me) : u \in DOMAIN users /\ u # me /\ Governs(u)
  BY DEF OtherAdmins, LiveUsers, Governs
<1>5. CASE SoftDelete(q)
  <2>1. /\ ~SetRole(q) /\ ~OpenSession(q) /\ ~CreateUser(q) /\ ~CreateFromOAuth(q)
        /\ ~users[me].admin \/ OtherAdmins(me) # {}
    BY <1>1, <1>5 DEF SoftDelete, SetRole, OpenSession, CreateUser, CreateFromOAuth, At, KnowsAdmin
  <2>2. CASE OtherAdmins(me) # {}
    BY <1>1, <1>2, <1>4, <2>1, <2>2
  <2>3. CASE ~users[me].admin
    <3>1. ASSUME NEW u \in DOMAIN users', users'[u].admin
          PROVE  \E v \in DOMAIN users : users[v].admin
      BY <1>1, <1>3, <2>1, <3>1, NewAccounts
    <3>2. ASSUME NEW v \in DOMAIN users, Governs(v)
          PROVE  GovernsNext(v)
      BY <1>2, <1>3, <2>1, <2>3, <3>2 DEF Governs
    <3> QED BY <1>1, <3>1, <3>2
  <2> QED BY <2>1, <2>2, <2>3
<1>6. CASE SetRole(q)
  <2>1. /\ ~SoftDelete(q) /\ q.op \in Admin /\ local[q].pc = q.op /\ q.op \in {"promote", "demote"}
        /\ q.user \in DOMAIN users
    BY <1>6 DEF SoftDelete, SetRole, At, Admin
  <2>2. users[me].admin /\ Lives(me) /\ me \in DOMAIN users
    BY <1>1, <2>1, UsersAre DEF KnowsAdmin, UserFits, Nobodys
  <2>3. Governs(me)
    BY <2>2 DEF Governs, Lives
  <2>4. CASE q.user # me
    BY <1>1, <1>2, <2>1, <2>2, <2>3, <2>4
  <2>5. CASE q.user = me /\ q.op = "demote"
    <3>1. OtherAdmins(me) # {}
      BY <1>1, <2>1, <2>5 DEF KnowsAdmin
    <3> QED BY <1>1, <1>2, <1>4, <2>1, <2>5, <3>1
  <2>6. CASE q.user = me /\ q.op = "promote"
    <3> DEFINE is == q.op = "promote"
    <3>1. LET a == users[q.user] IN
          Replaces(q.user, AccountOf(a.email, a.password, a.live, is, a.toggled, a.factor))
      BY <1>1, <1>6, SetRoleEffect
    <3>a. is
      BY <2>6
    <3> HIDE DEF is
    <3>b. users'[me].admin = is
      BY <2>1, <2>6, <3>1 DEF Replaces, UserBecomes, AccountOf
    <3>2. users'[me].admin
      BY <3>a, <3>b, Zenon
    <3>3. LivesNext(me)
      BY <1>3, <2>1, <2>2
    <3> QED BY <1>1, <2>2, <3>2, <3>3 DEF LivesNext, GovernsNext
  <2> QED BY <2>1, <2>4, <2>5, <2>6
<1>7. CASE ~SoftDelete(q) /\ ~SetRole(q)
  <2>1. ASSUME NEW v \in DOMAIN users, Governs(v)
        PROVE  \E u \in DOMAIN users' : GovernsNext(u)
    BY <1>1, <1>2, <1>7, <2>1
  <2>2. ASSUME NEW u \in DOMAIN users', users'[u].admin, u \notin DOMAIN users
        PROVE  GovernsNext(u)
    BY <1>1, <2>2, NewAccounts DEF NewUser, GovernsNext
  <2>3. ASSUME NEW u \in DOMAIN users, users'[u].admin, ~users[u].admin
        PROVE  GovernsNext(u)
    <3>1. OpenSession(q)
      BY <1>3, <1>7, <2>3
    <3>2. u = me
      <4>1. LET a == users[me] IN
            Replaces(me, AccountOf(a.email, a.password, a.live, a.admin \/ Raises(q), a.toggled, a.factor))
        BY <1>1, <3>1, OpenSessionEffect
      <4> QED BY <2>3, <4>1 DEF Replaces, UserBecomes
    <3>3. Lives(me)
      BY <1>1, <3>1 DEF OpenSession, KnowsUser
    <3>4. LivesNext(u)
      BY <1>3, <1>7, <2>3, <3>2, <3>3
    <3> QED BY <2>3, <3>4 DEF LivesNext, GovernsNext
  <2>4. ASSUME NEW u \in DOMAIN users', users'[u].admin
        PROVE  \E v \in DOMAIN users' : GovernsNext(v)
    <3>1. CASE u \notin DOMAIN users
      BY <2>2, <2>4, <3>1
    <3>2. CASE u \in DOMAIN users /\ ~users[u].admin
      BY <2>3, <2>4, <3>2
    <3>3. CASE u \in DOMAIN users /\ users[u].admin
      BY <1>1, <2>1, <3>3
    <3> QED BY <3>1, <3>2, <3>3
  <2> QED BY <2>4
<1> QED BY <1>5, <1>6, <1>7

LEMMA SerialFactsStay ==
  ASSUME NEW q \in DOMAIN local, Alone(q), ResetsFit, AccountStep(q) \/ FactorStep(q)
  PROVE  SerialFacts'
<1>1. \A u, v \in Untouched' : u # v => users'[u].email # users'[v].email \/ users'[u].email = NoEmail
  BY AddressesStayOne
<1>2. \A one, two \in idents' : one.ident = two.ident => one = two
  BY IdentitiesStayOne
<1>3. \A r \in resets' : r.times <= 1
  BY LinksStayOnce
<1>4. \A s \in sessions' : LivesNext(s.user)
  BY SessionsStayLive
<1>5. \A u \in enrolling' : u \in DOMAIN users' /\ ~users'[u].factor.on
  BY OffersStayOff
<1>6. (\E u \in DOMAIN users' : users'[u].admin) => \E u \in DOMAIN users' : GovernsNext(u)
  BY AnAdminGoesOn
<1> QED BY <1>1, <1>2, <1>3, <1>4, <1>5, <1>6 DEF SerialFacts, Lives, LivesNext, On, GovernsNext

-----------------------------------------------------------------------------
(* Requests that overlap are told by "passed": a step of theirs is a write,*)
(* a step that acts on what was read, or one that changes nothing another  *)
(* could have read.                                                        *)
LEMMA LoginRaisesNobody ==
  ASSUME AccountTypes, NEW q \in DOMAIN local, OpenSession(q), ~Raises(q)
  PROVE  users' = users
<1> DEFINE u == local[q].user
           is == users[u].admin \/ Raises(q)
<1>1. users' = [users EXCEPT ![u].admin = is]
  BY DEF OpenSession, Raises
<1>2. CASE u \in DOMAIN users
  <2>1. users[u].admin \in BOOLEAN /\ users[u] \in Account /\ users \in Seq(Account)
    BY <1>2, UsersTyped DEF AccountTypes
  <2>2. is = users[u].admin
    BY <2>1, Zenon
  <2> HIDE DEF is, u
  <2>3. [users[u] EXCEPT !.admin = is] = users[u]
    BY <2>1, <2>2 DEF Account
  <2>4. [users EXCEPT ![u].admin = is] = [users EXCEPT ![u] = [users[u] EXCEPT !.admin = is]]
    OBVIOUS
  <2> QED BY <1>1, <2>1, <2>3, <2>4
<1>3. CASE u \notin DOMAIN users
  <2> HIDE DEF is, u
  <2> QED BY <1>1, <1>3 DEF AccountTypes
<1> QED BY <1>2, <1>3

Quiet == UNCHANGED <<users, idents, resets, sessions, enrolling, passed, overlapped>>

LEMMA WritesOrNot ==
  ASSUME AccountTypes, NEW q \in DOMAIN local, AccountStep(q) \/ FactorStep(q)
  PROVE  Writes(q) \/ (Acts(q) /\ UNCHANGED <<users, idents, resets>>) \/ Quiet
<1>1. CASE \/ CreateUser(q) \/ ChangeEmail(q) \/ ChangePassword(q) \/ SoftDelete(q) \/ SetRole(q)
           \/ ToggleLock(q) \/ DropIdentity(q) \/ PushIdentity(q) \/ UnlinkIdentity(q)
           \/ ReplaceReset(q) \/ WriteReset(q) \/ Enroll(q) \/ EnableFactor(q) \/ DisableFactor(q)
           \/ RegenerateCodes(q) \/ CreateFromOAuth(q) \/ ConsumeRecoveryCode(q)
  BY <1>1 DEF CreateUser, ChangeEmail, ChangePassword, SoftDelete, SetRole, ToggleLock, DropIdentity,
     PushIdentity, UnlinkIdentity, ReplaceReset, WriteReset, Enroll, EnableFactor, DisableFactor,
     RegenerateCodes, CreateFromOAuth, ConsumeRecoveryCode
<1>2. CASE RotateSession(q)
  BY <1>2 DEF RotateSession, accounts, pendings
<1>3. CASE OpenSession(q)
  <2>1. CASE Raises(q)
    BY <1>3, <2>1 DEF OpenSession, Raises
  <2>2. CASE ~Raises(q)
    <3>1. Acts(q) /\ UNCHANGED <<idents, resets>>
      BY <1>3, <2>2 DEF OpenSession, Raises, pendings
    <3> QED BY <1>3, <2>2, <3>1, LoginRaisesNobody
  <2> QED BY <2>1, <2>2
<1>4. CASE \/ Prove(q) \/ Ends(q) \/ StartRegistration(q) \/ IssueCode(q) \/ PendRegistration(q)
           \/ VerifyCode(q) \/ AskEmailChange(q) \/ PendEmailChange(q) \/ Others(q)
           \/ ReadEnrolment(q) \/ VerifyTotp(q)
  BY <1>4 DEF Prove, Ends, StartRegistration, IssueCode, PendRegistration, VerifyCode, AskEmailChange,
     PendEmailChange, Others, ReadEnrolment, VerifyTotp, Quiet, accounts, pendings, overlaps
<1>5. CASE \/ Authenticate(q) \/ VerifyRegistration(q) \/ ConfirmEmailChange(q) \/ Login(q)
           \/ LookForFactor(q) \/ FindIdentity(q) \/ FindOwner(q) \/ FindEmail(q)
           \/ RequestReset(q) \/ ConfirmReset(q) \/ FindPending(q)
  BY <1>5 DEF Authenticate, VerifyRegistration, ConfirmEmailChange, Login, LookForFactor, FindIdentity,
     FindOwner, FindEmail, RequestReset, ConfirmReset, FindPending, Quiet, accounts, pendings, overlaps
<1> QED BY <1>1, <1>2, <1>3, <1>4, <1>5 DEF AccountStep, FactorStep

(* A request that acts unnoticed knows what it read.                       *)
LEMMA ActsKnowing ==
  ASSUME Fits, Serial, NEW q \in DOMAIN local, Steps(q), Writes(q) \/ Acts(q), ~overlapped'
  PROVE  Alone(q) /\ ~overlapped
<1>1. ~overlapped /\ q \notin passed
  BY DEF Writes, Acts
<1>2. RunsAlong(q)
  BY DEF Fits, RunsAlong
<1> QED BY <1>1, <1>2 DEF Serial, Alone

LEMMA OthersKnowWhenQuiet ==
  ASSUME NEW r, Knows(r), local'[r] = local[r], UNCHANGED <<users, idents, resets>>
  PROVE  Knows(r)'
<1>1. KnowsAs(r, local'[r])
  BY DEF Knows
<1> QED BY <1>1, KnownStill

LEMMA OthersKnowWhenIdle ==
  ASSUME RequestsFit, NEW r \in DOMAIN local, local'[r] = local[r], r \notin UnderWay
  PROVE  Knows(r)'
<1>1. local[r].pc \in {"ready", "done", "in"}
  BY DEF UnderWay
<1>2. r.op = "oauth" /\ local[r].user # 0 => local[r].pc = "done"
  BY <1>1 DEF RequestsFit, UserFits, StepFits
<1> QED BY <1>1, <1>2, PlainNext DEF Unknowing

LEMMA SerialStays ==
  ASSUME Fits, Serial, NEW q \in DOMAIN local, AccountStep(q) \/ FactorStep(q), ~overlapped'
  PROVE  SerialFacts' /\ \A r \in DOMAIN local' \ passed' : Knows(r)'
<1>1. /\ Steps(q) /\ OthersWait(q) /\ AccountTypes /\ RequestsFit /\ ResetsFit
      /\ DOMAIN local' = DOMAIN local
  BY FitsStay DEF Fits, Steps, Moving, OthersWait
<1>2. CASE Writes(q)
  <2>1. Alone(q) /\ ~overlapped
    BY <1>1, <1>2, ActsKnowing
  <2>2. SerialFacts' /\ Knows(q)'
    BY <1>1, <2>1, SerialFactsStay, MoverKnows
  <2>3. passed' = passed \cup (UnderWay \ {q})
    BY <1>2 DEF Writes
  <2>4. ASSUME NEW r \in DOMAIN local, r # q, r \notin passed'
        PROVE  Knows(r)'
    BY <1>1, <2>3, <2>4, OthersKnowWhenIdle DEF OthersWait
  <2> QED BY <1>1, <2>2, <2>4
<1>3. CASE Acts(q) /\ UNCHANGED <<users, idents, resets>>
  <2>1. Alone(q) /\ ~overlapped
    BY <1>1, <1>3, ActsKnowing
  <2>2. SerialFacts' /\ Knows(q)'
    BY <1>1, <2>1, SerialFactsStay, MoverKnows
  <2>3. passed' = passed
    BY <1>3 DEF Acts
  <2>4. ASSUME NEW r \in DOMAIN local, r # q, r \notin passed'
        PROVE  Knows(r)'
    BY <1>1, <1>3, <2>1, <2>3, <2>4, OthersKnowWhenQuiet DEF OthersWait, Serial
  <2> QED BY <1>1, <2>2, <2>4
<1>4. CASE Quiet
  <2>1. ~overlapped /\ SerialFacts /\ passed' = passed
    BY <1>4 DEF Quiet, Serial
  <2>2. SerialFacts'
    BY <1>4, <2>1 DEF Quiet, SerialFacts, Untouched, LiveUsers, Lives, On
  <2>3. ASSUME NEW r \in DOMAIN local, r \notin passed'
        PROVE  Knows(r)'
    <3>1. Knows(r)
      BY <2>1, <2>3 DEF Serial
    <3>2. CASE r = q
      BY <1>1, <2>1, <3>1, <3>2, MoverKnows DEF Alone, Fits, RunsAlong
    <3>3. CASE r # q
      BY <1>1, <1>4, <2>3, <3>1, <3>3, OthersKnowWhenQuiet DEF OthersWait, Quiet
    <3> QED BY <3>2, <3>3
  <2> QED BY <1>1, <2>2, <2>3
<1> QED BY <1>1, <1>2, <1>3, <1>4, WritesOrNot

LEMMA SerialKept ==
  ASSUME Serial, UNCHANGED vars \/ \E c \in DOMAIN codes : Expire(c)
  PROVE  Serial'
<1>1. UNCHANGED <<users, idents, resets, sessions, enrolling, local, passed, overlapped>>
  BY DEF Expire, vars, accounts, overlaps
<1>2. CASE overlapped'
  BY <1>2 DEF Serial
<1>3. CASE ~overlapped'
  <2>1. SerialFacts /\ \A r \in DOMAIN local \ passed : Knows(r)
    BY <1>1, <1>3 DEF Serial
  <2>2. SerialFacts'
    BY <1>1, <2>1 DEF SerialFacts, Untouched, LiveUsers, Lives, On
  <2>3. ASSUME NEW r \in DOMAIN local \ passed
        PROVE  Knows(r)'
    BY <1>1, <2>1, <2>3, OthersKnowWhenQuiet
  <2> QED BY <1>1, <2>2, <2>3 DEF Serial
<1> QED BY <1>2, <1>3

-----------------------------------------------------------------------------
(* What requests before have left.                                         *)
Started ==
  [pc |-> "ready", user |-> 0, admin |-> FALSE, pending |-> NoPending, row |-> NoRow,
   kind |-> "full", token |-> NoSession, code |-> <<>>]

LEMMA StartFits ==
  ASSUME Init
  PROVE  Fits /\ Serial
<1>1. PICK mix \in Mixes :
        /\ users = mix.users /\ idents = mix.idents
        /\ made = Cardinality(mix.idents) /\ sessions = mix.sessions
        /\ local = [q \in mix.requests |-> Started]
  BY DEF Init, Started
<1>2. /\ codes = <<>> /\ pendReg = {} /\ pendChange = {} /\ resets = {} /\ enrolling = {}
      /\ passed = {} /\ overlapped = FALSE
  BY DEF Init
<1>3. /\ users \in Seq(Account) /\ IsFiniteSet(idents) /\ DOMAIN local \subseteq Requests
      /\ idents \subseteq Identity /\ sessions \subseteq Session
      /\ \A row \in idents : row.user \in DOMAIN users /\ row.id <= made
      /\ \A one, two \in idents : one.id = two.id \/ one.ident = two.ident => one = two
      /\ \A s \in sessions : s.user \in DOMAIN users /\ s.request \notin DOMAIN local /\ Lives(s.user)
  BY <1>1, MixAssumptions, AccountsAssumptions DEF Lives
<1>4. /\ \A u \in Untouched : users[u].password \/ \E row \in idents : row.user = u
      /\ \A u, v \in Untouched : u = v \/ users[u].email # users[v].email \/ users[u].email = NoEmail
  <2>1. Untouched = {w \in DOMAIN mix.users : mix.users[w].live /\ ~mix.users[w].toggled}
    BY <1>1 DEF Untouched, LiveUsers
  <2> QED BY <1>1, <2>1, MixAssumptions
<1>5. \A u, v \in DOMAIN users : \A code \in users[u].factor.codes :
        code[1] \notin DOMAIN local /\ (Owns(v, code) => u = v)
  BY <1>1, MixAssumptions DEF Owns
<1>6. (\E u \in DOMAIN users : users[u].admin) =>
        \E u \in DOMAIN users : users[u].toggled \/ (users[u].live /\ users[u].admin)
  BY <1>1, MixAssumptions
<1>7. \A q \in DOMAIN local : /\ local[q].pc = "ready" /\ local[q].user = 0
                              /\ local[q].token = NoSession /\ local[q].code = <<>>
  BY <1>1 DEF Started
<1>8. AccountTypes
  <2>1. made \in Nat
    BY <1>1, <1>3, FS_CardinalityType
  <2>2. Started \in LocalState
    <3>1. /\ NoPending \in Pending /\ NoRow \in Identity \cup {NoRow}
          /\ NoSession \in Session \cup {NoSession} /\ <<>> \in RecoveryCode \cup {<<>>}
          /\ "full" \in Kinds /\ "ready" \in Pcs /\ FALSE \in BOOLEAN /\ 0 \in Nat
      BY PcsAre DEF Pending, Kinds
    <3> QED BY <3>1 DEF Started, LocalState
  <2>3. local \in [DOMAIN local -> LocalState]
    BY <1>1, <2>2
  <2>4. codes \in Seq(MailedCode) /\ FALSE \in BOOLEAN
    BY <1>2
  <2>5. /\ pendReg \subseteq Registration /\ pendChange \subseteq Change /\ resets \subseteq Reset
        /\ enrolling \subseteq Nat /\ passed \subseteq DOMAIN local /\ overlapped \in BOOLEAN
    BY <1>2
  <2> QED BY <1>3, <2>1, <2>3, <2>4, <2>5 DEF AccountTypes
<1>9. Len(users) \in Nat /\ RequestsFit
  <2>1. Len(users) \in Nat
    BY <1>3
  <2> QED BY <1>7, <2>1 DEF RequestsFit, UserFits, RowFits, StepFits, TokenFits, Nobodys
<1>10. RowsFit /\ SessionsFit /\ EntriesDiffer
  BY <1>3, <1>7 DEF RowsFit, SessionsFit, EntriesDiffer, Spent
<1>11. MailedCodesFit /\ RecoveryCodesFit /\ ResetsFit /\ KeepsACredential
  BY <1>2, <1>4, <1>5, <1>7 DEF MailedCodesFit, RecoveryCodesFit, ResetsFit, KeepsACredential, MadeBy
<1>12. SerialFacts
  BY <1>2, <1>3, <1>4, <1>6 DEF SerialFacts
<1>13. \A q \in DOMAIN local : Knows(q)
  BY <1>7, KnowsPlain DEF Knows, Unknowing
<1> QED BY <1>8, <1>9, <1>10, <1>11, <1>12, <1>13 DEF Fits, Serial

(* The invariant: what is true however requests interleave, and what is as *)
(* long as none has overlapped another's update.                           *)
THEOREM AccountInvHolds == Spec => []AccountInv
<1>1. Init => AccountInv
  BY StartFits DEF AccountInv
<1>2. AccountInv /\ [Next]_vars => AccountInv'
  <2>1. CASE \E q \in DOMAIN local : AccountStep(q) \/ FactorStep(q)
    <3>1. ASSUME NEW q \in DOMAIN local, AccountStep(q) \/ FactorStep(q), AccountInv
          PROVE  AccountInv'
      <4>1. Fits'
        BY <3>1, FitsStay DEF AccountInv
      <4>2. Serial'
        BY <3>1, SerialStays DEF AccountInv, Serial
      <4> QED BY <4>1, <4>2 DEF AccountInv
    <3> QED BY <2>1, <3>1
  <2>2. CASE UNCHANGED vars \/ \E c \in DOMAIN codes : Expire(c)
    BY <2>2, FitsKept, SerialKept DEF AccountInv
  <2> QED BY <2>1, <2>2 DEF Next
<1> QED BY <1>1, <1>2, PTL DEF Spec

(* However many requests try it at once, a mailed code lets one through and*)
(* none after MaxAttempts wrong tries, an intermediate session is exchanged*)
(* once, and no two log-ins rest on one recovery code.                     *)
THEOREM CodesLetOneThroughAlways == Spec => []CodesLetOneThrough
<1>1. AccountInv => CodesLetOneThrough
  <2> SUFFICES ASSUME Fits
               PROVE  CodesLetOneThrough
    BY DEF AccountInv
  <2>1. ASSUME NEW c \in DOMAIN codes
        PROVE  codes[c].passes <= (IF codes[c].attempts < MaxAttempts THEN 1 ELSE 0)
    <3>1. codes[c].passes \in Nat /\ codes[c].attempts \in Nat /\ MaxAttempts \in Nat
      <4>1. codes[c] \in MailedCode
        BY DEF Fits, AccountTypes
      <4> QED BY <4>1, AccountsAssumptions DEF MailedCode
    <3>2. codes[c].passes <= 1 /\ (codes[c].passes = 1 => codes[c].attempts < MaxAttempts)
      BY DEF Fits, MailedCodesFit
    <3> QED BY <3>1, <3>2
  <2>2. \A one, two \in {q \in DOMAIN local : local[q].pc = "in"} :
          one # two => /\ local[one].token # local[two].token
                       /\ local[one].code # local[two].code \/ local[one].code = <<>>
    BY DEF Fits, EntriesDiffer, RecoveryCodesFit
  <2> QED BY <2>1, <2>2 DEF CodesLetOneThrough
<1> QED BY <1>1, AccountInvHolds, PTL

(* Every account nobody has locked keeps a password or an identity, and    *)
(* when no request went by what it had read before another's update a      *)
(* log-in comes to it, or its address was an earlier account's.            *)
THEOREM AlwaysALoginHolds == Spec => []AlwaysALogin
<1>1. AccountInv => AlwaysALogin
  <2> SUFFICES ASSUME AccountInv, NEW u \in Untouched
               PROVE  /\ users[u].password \/ \E row \in idents : row.user = u
                      /\ ~overlapped => ByPassword(u) \/ ByProvider(u) \/ Overshadowed(u)
    BY DEF AlwaysALogin
  <2>1. users[u].password \/ \E row \in idents : row.user = u
    BY DEF AccountInv, Fits, KeepsACredential
  <2>2. ASSUME ~overlapped, NEW row \in idents, row.user = u PROVE ByProvider(u)
    <3>1. \A other \in idents : other.ident = row.ident => other = row
      BY <2>2 DEF AccountInv, Serial, SerialFacts
    <3>2. row.id \in Nat
      BY <2>2 DEF AccountInv, Fits, AccountTypes, Identity
    <3> QED BY <2>2, <3>1, <3>2 DEF ByProvider
  <2>3. ASSUME ~overlapped, users[u].password PROVE ByPassword(u) \/ Overshadowed(u)
    <3>1. DOMAIN users = 1..Len(users) /\ Len(users) \in Nat /\ u \in DOMAIN users
      BY DEF AccountInv, Fits, AccountTypes, Untouched, LiveUsers
    <3>2. CASE users[u].email = NoEmail
      BY <2>3, <3>2 DEF ByPassword
    <3>3. ASSUME users[u].email # NoEmail, NEW v \in DOMAIN users,
                 users[v].email = users[u].email, ~(u <= v)
          PROVE  Overshadowed(u)
      <4>1. v \notin Untouched /\ v < u
        BY <2>3, <3>1, <3>3 DEF AccountInv, Serial, SerialFacts
      <4> QED BY <2>3, <3>3, <4>1 DEF Overshadowed
    <3> QED BY <2>3, <3>2, <3>3 DEF ByPassword
  <2> QED BY <2>1, <2>2, <2>3
<1> QED BY <1>1, AccountInvHolds, PTL

(* Accounts share no address and no identity, a reset link works once, a   *)
(* deleted account has no session and no factor is on offer where one is   *)
(* on, unless a request went by what it had read before another's update.  *)
THEOREM SerialIsConsistentAlways == Spec => []SerialIsConsistent
<1>1. AccountInv => SerialIsConsistent
  BY DEF AccountInv, Serial, SerialFacts, SerialIsConsistent, Lives
<1> QED BY <1>1, AccountInvHolds, PTL

(* Where there was an administrator one is left, unless requests overlap or*)
(* an account was locked.                                                  *)
THEOREM AnAdminStaysAlways == Spec => []AnAdminStays
<1>1. AccountInv => AnAdminStays
  BY DEF AccountInv, Serial, SerialFacts, AnAdminStays
<1> QED BY <1>1, AccountInvHolds, PTL

-----------------------------------------------------------------------------
(* Full sessions.                                                          *)
Verified(s) ==
  IF users'[s.user].factor.on THEN Exchanged(s, {"second", "enrol"})
  ELSE ~Exchanged(s, {"enrol"}) /\ (s.request.op = "login" => s.request.email \notin AdminEmails)

LEMMA EntersVerified ==
  ASSUME AccountInv, NEW q \in DOMAIN local, AccountStep(q) \/ FactorStep(q), ~overlapped',
         NEW s \in sessions', s \notin sessions, s.kind = "full"
  PROVE  Verified(s)
<1>1. Fits /\ Serial /\ Steps(q) /\ AccountTypes /\ RequestsFit
  BY FitsStay DEF AccountInv, Fits
<1>2. sessions' # sessions
  OBVIOUS
<1>3. CASE CreateUser(q)
  <2> DEFINE new == [user |-> Len(users) + 1, request |-> q, kind |-> "full"]
             email == local[q].pending.email
  <2>1. sessions' = sessions \cup {new} /\ q.op = "verify"
    BY <1>3 DEF CreateUser, At
  <2>2. s = new /\ s.user = Len(users) + 1 /\ s.request = q /\ sessions \subseteq sessions'
    BY <2>1
  <2>3. Appends(NewUser(email, TRUE))
    BY <1>1, <1>3, CreateUserEffect
  <2>4. users'[s.user] = NewUser(email, TRUE)
    BY <1>1, <2>2, <2>3, AppendsAre
  <2>5. ~users'[s.user].factor.on
    BY <2>4 DEF NewUser, NoFactor
  <2> QED BY <2>1, <2>2, <2>5 DEF Verified, Exchanged
<1>4. CASE OpenSession(q)
  <2> DEFINE new == [user |-> local[q].user, request |-> q, kind |-> local[q].kind]
  <2>1. sessions' = sessions \cup {new} /\ local[q].pc = "session"
    BY <1>4 DEF OpenSession
  <2>2. /\ s.user = local[q].user /\ s.request = q /\ local[q].kind = "full"
        /\ sessions \subseteq sessions'
    BY <2>1
  <2>3. Alone(q)
    BY <1>1, <1>4, ActsKnowing DEF OpenSession
  <2>4. KnowsUser(q, local[q])
    BY <2>3 DEF Alone, Knows, KnowsAs
  <2>5. ~users[s.user].factor.on /\ (q.op = "login" => q.email \notin AdminEmails)
    BY <2>1, <2>2, <2>4 DEF KnowsUser, On
  <2>6. s.user \in DOMAIN users
    BY <1>1, <2>1, <2>2, UsersAre DEF RequestsFit, UserFits, Nobodys
  <2>7. ~EnableFactor(q)
    BY <2>1 DEF EnableFactor
  <2>8. ~users'[s.user].factor.on
    BY <1>1, <2>5, <2>6, <2>7, AccountsKept DEF AccountKept, KeptAs
  <2> QED BY <2>2, <2>5, <2>8 DEF Verified, Exchanged
<1>5. CASE RotateSession(q)
  <2> DEFINE old == local[q].token
             new == [user |-> old.user, request |-> q, kind |-> "full"]
  <2>1. /\ local[q].pc = "rotate" /\ old \in sessions
        /\ sessions' = (sessions \ {old}) \cup {new}
        /\ users' = users
    BY <1>5 DEF RotateSession, accounts
  <2>2. new.kind = "full" /\ new.user = old.user /\ new.request = q
    OBVIOUS
  <2>3. /\ old.kind \in {"second", "enrol"} /\ old.user = local[q].user
        /\ q.op \in {"second", "confirmFactor"}
    BY <1>1, <2>1 DEF RequestsFit, TokenFits
  <2>4. Alone(q)
    BY <1>1, <1>5, ActsKnowing DEF RotateSession
  <2>5. old.kind = "enrol" => users[old.user].factor.on
    BY <2>1, <2>3, <2>4 DEF Alone, Knows, KnowsAs, KnowsUser, On
  <2> HIDE DEF new, old
  <2>6. s = new /\ old \notin sessions' /\ \A t \in sessions \ sessions' : t = old
    BY <2>1, <2>2, <2>3
  <2> QED BY <2>1, <2>2, <2>3, <2>5, <2>6 DEF Verified, Exchanged
<1>6. CASE ~CreateUser(q) /\ ~OpenSession(q) /\ ~RotateSession(q)
  <2>1. CASE WritesSessions(q)
    BY <1>6, <2>1 DEF WritesSessions, SoftDelete, WriteReset
  <2>2. CASE ~WritesSessions(q)
    BY <1>2, <2>2, EachIsOne, GoersKeep, OthersKeep
  <2> QED BY <2>1, <2>2
<1> QED BY <1>3, <1>4, <1>5, <1>6

(* Who has a second factor, or is on the allow-list and has a password,    *)
(* gets a full session only in exchange for an intermediate one, and one   *)
(* for setting up a factor only once it is on, unless requests overlap.    *)
THEOREM EntryIsVerifiedAlways == Spec => EntryIsVerified
<1>1. AccountInv /\ [Next]_vars => [VerifiedEntries]_vars
  <2> SUFFICES ASSUME AccountInv, Next
               PROVE  VerifiedEntries
    OBVIOUS
  <2>1. CASE \E q \in DOMAIN local : AccountStep(q) \/ FactorStep(q)
    <3>1. \A s \in sessions' : s \notin sessions /\ s.kind = "full" /\ ~overlapped' => Verified(s)
      BY <2>1, EntersVerified
    <3> QED BY <3>1 DEF Verified, VerifiedEntries, On
  <2>2. CASE \E c \in DOMAIN codes : Expire(c)
    BY <2>2 DEF Expire, VerifiedEntries
  <2> QED BY <2>1, <2>2 DEF Next
<1> QED BY <1>1, AccountInvHolds, PTL DEF Spec, EntryIsVerified

-----------------------------------------------------------------------------
(***************************************************************************)
(* The queue of the mails (EmailQueue).  What the log says of every mail is*)
(* true, and nobody is sent more copies within a window than the limit and *)
(* one for each copy the log has not heard of, for any                     *)
(* mails, accounts and addresses, any limit, window, attempts and length of*)
(* the log, and however often something fails or the process stops.        *)
(***************************************************************************)
MailPcs == {"new", "checked", "refusing", "refused", "queued", "taken", "delivered",
            "dropped", "lost"}
DrainPcs == {"idle", "next", "send", "log", "giveUp"}

Table == [Mails -> [pc : MailPcs, tries : Nat, sent : Nat, doubts : Nat, at : Nat]]

MailType ==
  /\ mails \in Table
  /\ queue \in Seq(Mails)
  /\ drain \in [pc : DrainPcs, mail : Mails \cup {NoMail}]
  /\ clock \in Nat

(* A mail the loop never had was never tried.                              *)
Early(pc) ==
  pc = "new" \/ pc = "checked" \/ pc = "refusing" \/ pc = "refused" \/ pc = "queued"

Untried ==
  \A m \in Mails : Early(mails[m].pc) =>
    mails[m].tries = 0 /\ mails[m].sent = 0 /\ mails[m].doubts = 0

(* The queue holds mails that wait, each of them once.                     *)
QueueWaits ==
  /\ \A i \in 1..Len(queue) : mails[queue[i]].pc = "queued"
  /\ \A i, j \in 1..Len(queue) : queue[i] = queue[j] => i = j

(* What the loop knows of the mail it has, at each of its steps.           *)
AtSend(mail) == mail.tries < Allowed /\ mail.sent <= mail.doubts
AtLog(mail) == mail.tries <= Allowed /\ mail.sent >= 1 /\ mail.sent <= mail.doubts + 1
AtGiveUp(mail) == mail.tries = Allowed /\ mail.sent <= mail.doubts

LoopKnows ==
  drain.pc = "send" \/ drain.pc = "log" \/ drain.pc = "giveUp" =>
    /\ drain.mail \in Mails /\ mails[drain.mail].pc = "taken"
    /\ drain.pc = "send" => AtSend(mails[drain.mail])
    /\ drain.pc = "log" => AtLog(mails[drain.mail])
    /\ drain.pc = "giveUp" => AtGiveUp(mails[drain.mail])

MailInv == MailType /\ Untried /\ QueueWaits /\ LoopKnows /\ LogIsTrue

-----------------------------------------------------------------------------
SameCounts(one, other) ==
  one.tries = other.tries /\ one.sent = other.sent /\ one.doubts = other.doubts

(* A change of where a mail is changes nothing else of it, and no other.   *)
LEMMA SetPc ==
  ASSUME mails \in Table, NEW m \in Mails, NEW pc \in MailPcs,
         mails' = [mails EXCEPT ![m].pc = pc]
  PROVE  /\ mails' \in Table
         /\ \A n \in Mails : /\ SameCounts(mails'[n], mails[n])
                             /\ mails'[n].pc = IF n = m THEN pc ELSE mails[n].pc
BY DEF Table, SameCounts

LEMMA AllowedIsPositive == Allowed \in Nat \ {0}
BY EmailAssumptions DEF Allowed

LEMMA ShiftQueue ==
  ASSUME NEW q \in Seq(Mails), q # <<>>
  PROVE  /\ Head(q) \in Mails /\ Head(q) = q[1] /\ Len(q) \in Nat /\ Len(q) >= 1
         /\ Tail(q) \in Seq(Mails) /\ Len(Tail(q)) = Len(q) - 1
         /\ \A i \in 1..Len(Tail(q)) : Tail(q)[i] = q[i + 1] /\ q[i + 1] \in Mails
OBVIOUS

LEMMA MailInitInv == MailInit => MailInv
<1> SUFFICES ASSUME MailInit PROVE MailInv
  OBVIOUS
<1>1. mails = [m \in Mails |-> [pc |-> "new", tries |-> 0, sent |-> 0, doubts |-> 0, at |-> 0]]
  BY DEF MailInit, NewMail
<1>2. mails \in Table
  BY <1>1 DEF Table, MailPcs
<1>3. \A m \in Mails : /\ mails[m].pc = "new" /\ mails[m].tries = 0
                       /\ mails[m].sent = 0 /\ mails[m].doubts = 0
  BY <1>1
<1>4. queue = <<>> /\ drain = [pc |-> "idle", mail |-> NoMail] /\ clock = 0 /\ smtp \in BOOLEAN
  BY DEF MailInit, Idle
<1>5. MailType /\ QueueWaits /\ LoopKnows
  BY <1>2, <1>4 DEF MailType, QueueWaits, LoopKnows, DrainPcs
<1>6. Untried /\ LogIsTrue
  BY <1>3 DEF Untried, LogIsTrue, Early
<1> QED BY <1>5, <1>6 DEF MailInv

(* What a change of where one mail is asks of the mail.                    *)
LEMMA MoveKeepsMails ==
  ASSUME MailInv, NEW m \in Mails, NEW pc \in MailPcs,
         mails' = [mails EXCEPT ![m].pc = pc], UNCHANGED <<smtp, clock>>,
         pc = "delivered" => mails[m].sent > 0,
         pc = "dropped" => AtGiveUp(mails[m]),
         Early(pc) => Early(mails[m].pc)
  PROVE  mails' \in Table /\ Untried' /\ LogIsTrue'
<1>1. /\ mails' \in Table
      /\ \A n \in Mails : SameCounts(mails'[n], mails[n])
                         /\ mails'[n].pc = IF n = m THEN pc ELSE mails[n].pc
  BY SetPc DEF MailInv, MailType
<1>2. Untried'
  BY <1>1 DEF MailInv, Untried, SameCounts
<1>3. LogIsTrue'
  BY <1>1 DEF MailInv, LogIsTrue, SameCounts, AtGiveUp, Allowed
<1> QED BY <1>1, <1>2, <1>3

(* The loop's mail is another one, or has none of its counts changed.      *)
LEMMA LoopStillKnows ==
  ASSUME MailInv, UNCHANGED <<smtp, drain>>,
         \A n \in Mails : mails[n].pc = "taken" =>
           SameCounts(mails'[n], mails[n]) /\ mails'[n].pc = "taken"
  PROVE  LoopKnows'
BY DEF MailInv, LoopKnows, SameCounts, AtSend, AtLog, AtGiveUp, Allowed

(* The request: the mail stays untried, and enters the queue once.         *)
LEMMA RequestKeepsInv ==
  ASSUME MailInv, NEW m \in Mails, Check(m) \/ Admit(m) \/ Refuse(m)
  PROVE  MailInv'
<1>1. PICK pc \in {"checked", "refusing", "queued", "refused"} :
        mails' = [mails EXCEPT ![m].pc = pc] /\ (pc = "queued" <=> Admit(m))
  BY DEF Check, Admit, Refuse
<1>2. /\ mails[m].pc = "new" \/ mails[m].pc = "checked" \/ mails[m].pc = "refusing"
      /\ UNCHANGED <<smtp, drain, clock>>
  BY DEF Check, Admit, Refuse
<1>3. pc \in MailPcs
  BY DEF MailPcs
<1>4. mails' \in Table /\ Untried' /\ LogIsTrue'
  BY <1>1, <1>2, <1>3, MoveKeepsMails DEF Early
<1>5. \A n \in Mails : SameCounts(mails'[n], mails[n])
                     /\ mails'[n].pc = IF n = m THEN pc ELSE mails[n].pc
  BY <1>1, <1>3, SetPc DEF MailInv, MailType
<1>6. LoopKnows'
  BY <1>2, <1>5, LoopStillKnows
<1>7. queue \in Seq(Mails) /\ QueueWaits
  BY DEF MailInv, MailType
<1>8. CASE Admit(m)
  <2>1. queue' = Append(queue, m) /\ mails'[m].pc = "queued"
    BY <1>1, <1>5, <1>8 DEF Admit
  <2>2. \A i \in 1..Len(queue) : queue[i] # m
    BY <1>2, <1>7 DEF QueueWaits
  <2>3. /\ queue' \in Seq(Mails) /\ Len(queue') = Len(queue) + 1 /\ Len(queue) \in Nat
        /\ \A i \in 1..Len(queue) : queue'[i] = queue[i] /\ queue[i] \in Mails
        /\ queue'[Len(queue) + 1] = m
    BY <2>1, <1>7
  <2>4. \A i \in 1..Len(queue') : i \in 1..Len(queue) \/ i = Len(queue) + 1
    BY <2>3
  <2>5. QueueWaits'
    BY <1>5, <1>7, <2>1, <2>2, <2>3, <2>4 DEF QueueWaits
  <2>6. MailType'
    BY <1>2, <1>4, <2>3 DEF MailInv, MailType
  <2> QED BY <1>4, <1>6, <2>5, <2>6 DEF MailInv
<1>9. CASE ~Admit(m)
  <2>1. queue' = queue
    BY <1>9 DEF Check, Refuse
  <2>2. \A i \in 1..Len(queue) : queue[i] # m /\ queue[i] \in Mails
    <3>1. CASE Check(m)
      BY <3>1, <1>7 DEF Check, QueueWaits
    <3>2. CASE Refuse(m)
      BY <3>2, <1>7 DEF Refuse, QueueWaits
    <3> QED BY <1>9, <3>1, <3>2
  <2>3. QueueWaits'
    BY <1>5, <1>7, <2>1, <2>2 DEF QueueWaits
  <2>4. MailType'
    BY <1>2, <1>4, <2>1 DEF MailInv, MailType
  <2> QED BY <1>4, <1>6, <2>3, <2>4 DEF MailInv
<1> QED BY <1>8, <1>9

LEMMA TakeKeepsInv ==
  ASSUME MailInv, Wake \/ TakeNext
  PROVE  MailInv'
<1>1. queue \in Seq(Mails) /\ QueueWaits /\ mails \in Table /\ UNCHANGED <<smtp, clock>>
  BY DEF MailInv, MailType, Wake, TakeNext
<1>2. CASE UNCHANGED <<mails, queue>>
  <2>1. \/ UNCHANGED drain
        \/ /\ drain'.pc = "idle" \/ drain'.pc = "next"
           /\ drain' \in [pc : DrainPcs, mail : Mails \cup {NoMail}]
    <3>1. CASE Wake
      BY <3>1 DEF Wake, MailInv, MailType, DrainPcs
    <3>2. CASE TakeNext /\ queue = <<>>
      BY <3>2 DEF TakeNext, Idle, DrainPcs
    <3>3. CASE TakeNext /\ queue # <<>>
      <4>1. queue' = Tail(queue)
        BY <3>3 DEF TakeNext
      <4> QED BY <4>1, <3>3, <1>1, <1>2, ShiftQueue
    <3> QED BY <3>1, <3>2, <3>3
  <2>2. LoopKnows'
    BY <1>1, <1>2, <2>1 DEF MailInv, LoopKnows, AtSend, AtLog, AtGiveUp, Allowed
  <2>3. MailType'
    BY <1>1, <1>2, <2>1 DEF MailInv, MailType
  <2>4. Untried' /\ QueueWaits' /\ LogIsTrue'
    BY <1>1, <1>2 DEF MailInv, Untried, QueueWaits, LogIsTrue, Allowed
  <2> QED BY <2>2, <2>3, <2>4 DEF MailInv
<1>3. CASE ~UNCHANGED <<mails, queue>>
  <2> DEFINE h == Head(queue)
  <2>1. /\ queue # <<>> /\ queue' = Tail(queue)
        /\ drain' = [pc |-> "send", mail |-> h]
        /\ mails' = [mails EXCEPT ![h].pc = "taken"]
    BY <1>3 DEF Wake, TakeNext
  <2>2. /\ h \in Mails /\ h = queue[1] /\ Len(queue) \in Nat /\ Len(queue) >= 1
        /\ queue' \in Seq(Mails) /\ Len(queue') = Len(queue) - 1
        /\ \A i \in 1..Len(queue') : queue'[i] = queue[i + 1] /\ queue[i + 1] \in Mails
    BY <1>1, <2>1, ShiftQueue
  <2>3. "taken" \in MailPcs
    BY DEF MailPcs
  <2> HIDE DEF h
  <2>4. mails' \in Table /\ Untried' /\ LogIsTrue'
    BY <1>1, <2>1, <2>2, <2>3, MoveKeepsMails DEF Early
  <2>5. \A n \in Mails : SameCounts(mails'[n], mails[n])
                       /\ mails'[n].pc = IF n = h THEN "taken" ELSE mails[n].pc
    BY <1>1, <2>1, <2>2, <2>3, SetPc
  <2>6. mails[h].pc = "queued"
    BY <1>1, <2>2 DEF QueueWaits
  <2>7. drain'.pc = "send" /\ drain'.mail = h /\ mails'[h].pc = "taken"
    BY <2>1, <2>2, <2>5
  <2>8. /\ mails'[h].tries = 0 /\ mails'[h].sent = 0 /\ mails'[h].doubts = 0
        /\ Allowed' = Allowed /\ Allowed \in Nat \ {0}
    BY <1>1, <2>2, <2>5, <2>6, AllowedIsPositive DEF MailInv, Untried, Early, SameCounts, Allowed
  <2>9. LoopKnows'
    BY <2>2, <2>7, <2>8 DEF LoopKnows, AtSend
  <2>10. QueueWaits'
    <3>1. ASSUME NEW i \in 1..Len(queue') PROVE queue[i + 1] # h /\ i + 1 \in 1..Len(queue)
      BY <1>1, <2>2 DEF QueueWaits
    <3>2. \A i \in 1..Len(queue') : mails'[queue'[i]].pc = "queued"
      BY <1>1, <2>2, <2>5, <3>1 DEF QueueWaits
    <3>3. \A i, j \in 1..Len(queue') : queue'[i] = queue'[j] => i = j
      BY <1>1, <2>2, <3>1 DEF QueueWaits
    <3> QED BY <3>2, <3>3 DEF QueueWaits
  <2>11. MailType'
    BY <1>1, <2>1, <2>2, <2>4 DEF MailInv, MailType, DrainPcs
  <2> QED BY <2>4, <2>9, <2>10, <2>11 DEF MailInv
<1> QED BY <1>2, <1>3

(* An attempt, and the entry that ends it, leave the counts as the next    *)
(* step of the loop expects them.                                          *)
LEMMA LoopMailKeepsInv ==
  ASSUME MailInv, UNCHANGED <<smtp, queue, clock>>, mails' \in Table, MailType',
         drain.mail \in Mails, mails[drain.mail].pc = "taken",
         \A n \in Mails : n # drain.mail => mails'[n] = mails[n],
         \/ mails'[drain.mail].pc = "taken" \/ mails'[drain.mail].pc = "delivered"
         \/ mails'[drain.mail].pc = "dropped",
         mails'[drain.mail].sent <= 1 + mails'[drain.mail].doubts,
         mails'[drain.mail].pc = "delivered" => mails'[drain.mail].sent > 0,
         mails'[drain.mail].pc = "dropped" => AtGiveUp(mails'[drain.mail])
  PROVE  Untried' /\ LogIsTrue' /\ QueueWaits'
<1>1. Allowed' = Allowed
  BY DEF Allowed
<1>2. Untried'
  BY DEF MailInv, Untried, Early
<1>3. LogIsTrue'
  BY <1>1 DEF MailInv, LogIsTrue, AtGiveUp
<1>4. \A i \in 1..Len(queue) : queue[i] \in Mails
  BY DEF MailInv, MailType
<1>5. QueueWaits'
  BY <1>4 DEF MailInv, QueueWaits
<1> QED BY <1>2, <1>3, <1>5

LEMMA SendKeepsInv ==
  ASSUME MailInv, Send
  PROVE  MailInv'
<1> DEFINE m == drain.mail
<1>1. m \in Mails /\ mails[m].pc = "taken" /\ AtSend(mails[m])
  BY DEF Send, MailInv, LoopKnows
<1>2. PICK out \in BOOLEAN, told \in BOOLEAN :
        /\ told => out
        /\ mails' = [mails EXCEPT ![m].tries = @ + 1,
                       ![m].sent = IF out THEN @ + 1 ELSE @,
                       ![m].at = IF out THEN clock ELSE @,
                       ![m].doubts = IF out /\ ~told THEN @ + 1 ELSE @]
        /\ Moves(IF told THEN "log" ELSE AfterFailure(mails[m].tries + 1))
  BY DEF Send
<1>3. /\ UNCHANGED <<smtp, queue, clock>> /\ Allowed' = Allowed /\ mails \in Table
      /\ clock \in Nat
  BY DEF Send, Allowed, MailInv, MailType
<1>4. /\ \A n \in Mails : n # m => mails'[n] = mails[n]
      /\ mails'[m].pc = "taken" /\ mails'[m].tries = mails[m].tries + 1
      /\ mails'[m].sent = IF out THEN mails[m].sent + 1 ELSE mails[m].sent
      /\ mails'[m].doubts = IF out /\ ~told THEN mails[m].doubts + 1 ELSE mails[m].doubts
      /\ mails' \in Table
  BY <1>1, <1>2, <1>3 DEF Table
<1>5. /\ mails[m].tries \in Nat /\ mails[m].sent \in Nat /\ mails[m].doubts \in Nat
      /\ Allowed \in Nat
  BY <1>1, <1>3, AllowedIsPositive DEF Table
<1>6. drain' = [drain EXCEPT !.pc = IF told THEN "log" ELSE AfterFailure(mails[m].tries + 1)]
  BY <1>2 DEF Moves
<1>7. /\ drain'.mail = m /\ drain'.pc = IF told THEN "log" ELSE AfterFailure(mails[m].tries + 1)
      /\ drain' \in [pc : DrainPcs, mail : Mails \cup {NoMail}]
  BY <1>6 DEF MailInv, MailType, DrainPcs, AfterFailure
<1>8. MailType'
  BY <1>3, <1>4, <1>7 DEF MailInv, MailType
<1>9. mails'[m].sent <= 1 + mails'[m].doubts
  BY <1>1, <1>2, <1>4, <1>5 DEF AtSend
<1>10. Untried' /\ LogIsTrue' /\ QueueWaits'
  BY <1>1, <1>3, <1>4, <1>8, <1>9, LoopMailKeepsInv
<1>11. LoopKnows'
  <2> HIDE DEF m
  <2>1. CASE told
    BY <2>1, <1>1, <1>2, <1>3, <1>4, <1>5, <1>7 DEF LoopKnows, AtSend, AtLog
  <2>2. CASE ~told /\ mails[m].tries + 1 < Allowed
    BY <2>2, <1>1, <1>3, <1>4, <1>5, <1>7 DEF LoopKnows, AtSend, AfterFailure
  <2>3. CASE ~told /\ ~(mails[m].tries + 1 < Allowed)
    BY <2>3, <1>1, <1>3, <1>4, <1>5, <1>7 DEF LoopKnows, AtSend, AtGiveUp, AfterFailure
  <2> QED BY <2>1, <2>2, <2>3
<1> QED BY <1>8, <1>10, <1>11 DEF MailInv

LEMMA EntryKeepsInv ==
  ASSUME MailInv, LogSuccess \/ GiveUp
  PROVE  MailInv'
<1> DEFINE m == drain.mail
<1>1. /\ m \in Mails /\ mails[m].pc = "taken" /\ UNCHANGED <<smtp, queue, clock>>
      /\ Allowed' = Allowed /\ mails \in Table
  <2>1. drain.pc = "log" \/ drain.pc = "giveUp"
    BY DEF LogSuccess, GiveUp
  <2>2. m \in Mails /\ mails[m].pc = "taken" /\ mails \in Table
    BY <2>1 DEF MailInv, LoopKnows, MailType
  <2>3. UNCHANGED <<smtp, queue, clock>>
    BY DEF LogSuccess, GiveUp
  <2> QED BY <2>2, <2>3 DEF Allowed
<1>2. /\ mails[m].tries \in Nat /\ mails[m].sent \in Nat /\ mails[m].doubts \in Nat
      /\ Allowed \in Nat /\ clock \in Nat
  BY <1>1, AllowedIsPositive DEF Table, MailInv, MailType
<1>3. CASE drain' = Onwards
  <2>1. \/ LogSuccess /\ mails' = [mails EXCEPT ![m].pc = "delivered"]
        \/ GiveUp /\ mails' = [mails EXCEPT ![m].pc = "dropped"]
    BY <1>3 DEF LogSuccess, GiveUp, Moves, Onwards, AfterFailure
  <2>2. /\ mails' \in Table /\ \A n \in Mails : n # m => mails'[n] = mails[n]
        /\ SameCounts(mails'[m], mails[m])
        /\ \/ mails'[m].pc = "delivered" /\ LogSuccess
           \/ mails'[m].pc = "dropped" /\ GiveUp
    <3>1. "delivered" \in MailPcs /\ "dropped" \in MailPcs
      BY DEF MailPcs
    <3>2. CASE mails' = [mails EXCEPT ![m].pc = "delivered"] /\ LogSuccess
      <4>1. mails' \in Table
        BY <1>1, <1>2, <3>1, <3>2 DEF Table
      <4>2. /\ \A n \in Mails : n # m => mails'[n] = mails[n]
            /\ SameCounts(mails'[m], mails[m]) /\ mails'[m].pc = "delivered"
        BY <1>1, <3>2 DEF Table, SameCounts
      <4> QED BY <4>1, <4>2, <3>2
    <3>3. CASE mails' = [mails EXCEPT ![m].pc = "dropped"] /\ GiveUp
      BY <1>1, <3>1, <3>3 DEF Table, SameCounts
    <3> QED BY <2>1, <3>2, <3>3
  <2>3. drain'.pc = "next" /\ drain' \in [pc : DrainPcs, mail : Mails \cup {NoMail}]
    BY <1>3 DEF Onwards, DrainPcs
  <2>4. LogSuccess => AtLog(mails[m])
    BY DEF LogSuccess, MailInv, LoopKnows
  <2>5. GiveUp => AtGiveUp(mails[m])
    BY DEF GiveUp, MailInv, LoopKnows
  <2>6. MailType'
    BY <1>1, <2>2, <2>3 DEF MailInv, MailType
  <2>7. Untried' /\ LogIsTrue' /\ QueueWaits'
    <3>1. mails'[m].sent <= 1 + mails'[m].doubts
      BY <1>2, <2>2, <2>4, <2>5 DEF AtLog, AtGiveUp, SameCounts
    <3>2. mails'[m].pc = "delivered" => mails'[m].sent > 0
      BY <1>2, <2>2, <2>4 DEF AtLog, SameCounts
    <3>3. mails'[m].pc = "dropped" => AtGiveUp(mails'[m])
      BY <2>2, <2>5 DEF AtGiveUp, SameCounts
    <3> QED BY <1>1, <2>2, <2>6, <3>1, <3>2, <3>3, LoopMailKeepsInv
  <2>8. LoopKnows'
    BY <2>3 DEF LoopKnows
  <2> QED BY <2>6, <2>7, <2>8 DEF MailInv
<1>4. CASE drain' # Onwards
  <2>1. /\ LogSuccess /\ mails' = [mails EXCEPT ![m].doubts = @ + 1]
        /\ Moves(AfterFailure(mails[m].tries))
    BY <1>4 DEF LogSuccess, GiveUp
  <2>2. AtLog(mails[m])
    BY <2>1 DEF LogSuccess, MailInv, LoopKnows
  <2>3. /\ \A n \in Mails : n # m => mails'[n] = mails[n]
        /\ mails'[m].pc = "taken" /\ mails'[m].tries = mails[m].tries
        /\ mails'[m].sent = mails[m].sent /\ mails'[m].doubts = mails[m].doubts + 1
        /\ mails' \in Table
    BY <1>1, <2>1 DEF Table
  <2>4. /\ drain'.mail = m /\ drain'.pc = AfterFailure(mails[m].tries)
        /\ drain' \in [pc : DrainPcs, mail : Mails \cup {NoMail}]
    BY <2>1 DEF Moves, MailInv, MailType, DrainPcs, AfterFailure
  <2>5. MailType'
    BY <1>1, <2>3, <2>4 DEF MailInv, MailType
  <2>6. mails'[m].sent <= 1 + mails'[m].doubts
    BY <1>2, <2>2, <2>3 DEF AtLog
  <2>7. Untried' /\ LogIsTrue' /\ QueueWaits'
    BY <1>1, <2>3, <2>5, <2>6, LoopMailKeepsInv
  <2>8. LoopKnows'
    <3> HIDE DEF m
    <3>1. CASE mails[m].tries < Allowed
      BY <3>1, <1>1, <1>2, <2>2, <2>3, <2>4 DEF LoopKnows, AtSend, AtLog, AfterFailure
    <3>2. CASE ~(mails[m].tries < Allowed)
      BY <3>2, <1>1, <1>2, <2>2, <2>3, <2>4 DEF LoopKnows, AtGiveUp, AtLog, AfterFailure
    <3> QED BY <3>1, <3>2
  <2> QED BY <2>5, <2>7, <2>8 DEF MailInv
<1> QED BY <1>3, <1>4

(* What is lost was neither delivered nor given up.                        *)
LEMMA LosesKeepsInv ==
  ASSUME MailInv, Loses
  PROVE  MailInv'
<1>1. mails \in Table /\ "lost" \in MailPcs
  BY DEF MailInv, MailType, MailPcs
<1>2. /\ mails' \in Table
      /\ \A n \in Mails : /\ SameCounts(mails'[n], mails[n])
                          /\ mails'[n].pc = mails[n].pc \/ mails'[n].pc = "lost"
  BY <1>1 DEF Loses, Table, SameCounts
<1>3. UNCHANGED <<smtp, clock>> /\ queue' = <<>> /\ drain' = [pc |-> "idle", mail |-> NoMail]
  BY DEF Loses, Idle
<1>4. MailType' /\ QueueWaits' /\ LoopKnows'
  BY <1>2, <1>3 DEF MailInv, MailType, QueueWaits, LoopKnows, DrainPcs
<1>5. Untried'
  BY <1>2 DEF MailInv, Untried, Early, SameCounts
<1>6. LogIsTrue'
  BY <1>2, <1>3 DEF MailInv, LogIsTrue, Allowed, SameCounts
<1> QED BY <1>4, <1>5, <1>6 DEF MailInv

LEMMA MailStepInv == MailInv /\ [MailNext]_mailVars => MailInv'
<1> SUFFICES ASSUME MailInv, [MailNext]_mailVars PROVE MailInv'
  OBVIOUS
<1>1. CASE \E m \in Mails : Check(m) \/ Admit(m) \/ Refuse(m)
  BY <1>1, RequestKeepsInv
<1>2. CASE Wake \/ TakeNext
  BY <1>2, TakeKeepsInv
<1>3. CASE Send
  BY <1>3, SendKeepsInv
<1>4. CASE LogSuccess \/ GiveUp
  BY <1>4, EntryKeepsInv
<1>5. CASE ThrowsOut \/ Stop
  BY <1>5, LosesKeepsInv DEF ThrowsOut, Stop
<1>6. CASE Tick
  BY <1>6 DEF Tick, MailInv, MailType, Untried, QueueWaits, LoopKnows, LogIsTrue,
       AtSend, AtLog, AtGiveUp, Allowed
<1>7. CASE UNCHANGED mailVars
  BY <1>7 DEF mailVars, MailInv, MailType, Untried, QueueWaits, LoopKnows, LogIsTrue,
       AtSend, AtLog, AtGiveUp, Allowed
<1> QED BY <1>1, <1>2, <1>3, <1>4, <1>5, <1>6, <1>7 DEF MailNext, LoopStep

(* The log tells what became of each mail, for any number of failures of   *)
(* the server and of the log, and any number of stops of the process.      *)
THEOREM LogIsTrueHolds == MailInit /\ [][MailNext]_mailVars => []LogIsTrue
<1>1. MailInv => LogIsTrue
  BY DEF MailInv
<1> QED BY <1>1, MailInitInv, MailStepInv, PTL

-----------------------------------------------------------------------------
(* No mail went out later than now.                                        *)
WentBefore == \A m \in Mails : mails[m].at <= clock

LEMMA WentStep ==
  ASSUME MailInv, WentBefore, [MailNext]_mailVars
  PROVE  WentBefore'
<1>1. mails \in Table /\ clock \in Nat
  BY DEF MailInv, MailType
<1>2. CASE UNCHANGED clock /\ \A m \in Mails : mails'[m].at = mails[m].at
  BY <1>2 DEF WentBefore
<1>3. ASSUME NEW m \in Mails, Check(m) \/ Admit(m) \/ Refuse(m)
      PROVE  UNCHANGED clock /\ \A n \in Mails : mails'[n].at = mails[n].at
  <2>1. PICK pc \in MailPcs : mails' = [mails EXCEPT ![m].pc = pc]
    BY <1>3 DEF Check, Admit, Refuse, MailPcs
  <2> QED BY <1>1, <1>3, <2>1 DEF Check, Admit, Refuse, Table
<1>4. ASSUME Wake \/ TakeNext
      PROVE  UNCHANGED clock /\ \A n \in Mails : mails'[n].at = mails[n].at
  <2>1. /\ UNCHANGED clock
        /\ mails' = mails \/ mails' = [mails EXCEPT ![Head(queue)].pc = "taken"]
    BY <1>4 DEF Wake, TakeNext
  <2>2. ASSUME NEW m, mails' = [mails EXCEPT ![m].pc = "taken"], NEW n \in Mails
        PROVE  mails'[n].at = mails[n].at
    BY <1>1, <2>2 DEF Table
  <2> QED BY <2>1, <2>2
<1>5. ASSUME LogSuccess \/ GiveUp
      PROVE  UNCHANGED clock /\ \A n \in Mails : mails'[n].at = mails[n].at
  <2>1. \/ mails' = [mails EXCEPT ![drain.mail].pc = "delivered"]
        \/ mails' = [mails EXCEPT ![drain.mail].pc = "dropped"]
        \/ mails' = [mails EXCEPT ![drain.mail].doubts = @ + 1]
    BY <1>5 DEF LogSuccess, GiveUp
  <2>2. ASSUME NEW pc, mails' = [mails EXCEPT ![drain.mail].pc = pc], NEW n \in Mails
        PROVE  mails'[n].at = mails[n].at
    BY <1>1, <2>2 DEF Table
  <2>3. ASSUME mails' = [mails EXCEPT ![drain.mail].doubts = @ + 1], NEW n \in Mails
        PROVE  mails'[n].at = mails[n].at
    BY <1>1, <2>3 DEF Table
  <2>4. UNCHANGED clock
    BY <1>5 DEF LogSuccess, GiveUp
  <2> QED BY <2>1, <2>2, <2>3, <2>4
<1>6. ASSUME ThrowsOut \/ Stop
      PROVE  UNCHANGED clock /\ \A n \in Mails : mails'[n].at = mails[n].at
  BY <1>1, <1>6 DEF ThrowsOut, Stop, Loses, Table
<1>7. CASE Send
  <2>1. PICK out \in BOOLEAN, told \in BOOLEAN :
          mails' = [mails EXCEPT ![drain.mail].tries = @ + 1,
                      ![drain.mail].sent = IF out THEN @ + 1 ELSE @,
                      ![drain.mail].at = IF out THEN clock ELSE @,
                      ![drain.mail].doubts = IF out /\ ~told THEN @ + 1 ELSE @]
    BY <1>7 DEF Send
  <2>2. \A n \in Mails : mails'[n].at = mails[n].at \/ mails'[n].at = clock
    BY <1>1, <2>1 DEF Table
  <2>3. clock' = clock
    BY <1>7 DEF Send
  <2> QED BY <1>1, <2>2, <2>3 DEF WentBefore
<1>8. CASE Tick
  <2>1. clock' = clock + 1 /\ mails' = mails /\ \A m \in Mails : mails[m].at \in Nat
    BY <1>1, <1>8 DEF Tick, Table
  <2> QED BY <1>1, <2>1 DEF WentBefore
<1>9. CASE UNCHANGED mailVars
  BY <1>2, <1>9 DEF mailVars
<1> QED BY <1>2, <1>3, <1>4, <1>5, <1>6, <1>7, <1>8, <1>9 DEF MailNext, LoopStep

(* The rate limit.  A group is the mails to one address or of one account. *)
Groups ==
  {{m \in Mails : AddressOf[m] = AddressOf[n]} : n \in Mails}
  \cup {{m \in Mails : UserOf[n] # NoUser /\ UserOf[m] = UserOf[n]} : n \in Mails}

LEMMA GroupsAreAlike ==
  ASSUME NEW group \in Groups
  PROVE  group \subseteq Mails /\ \A m, n \in group : Alike(m, n)
BY DEF Groups, Alike

Delivered(m) == mails[m].pc = "delivered" /\ clock - mails[m].at <= Window
Recent(group) == {m \in group : Delivered(m)}
Under(m) == mails[m].pc \in OnItsWay

Entries == [mail : Mails, success : BOOLEAN, at : Nat]
EntryOf(m, success, at) == [mail |-> m, success |-> success, at |-> at]

(* A success that counts is in the log, unless it was cut off.             *)
RecentAreLogged ==
  ~forgotten => \A m \in Mails : Delivered(m) =>
    \E i \in 1..Len(mailLog) :
      mailLog[i].mail = m /\ mailLog[i].success /\ mailLog[i].at >= mails[m].at

(* No two alike are on their way, unless there was a burst.                *)
AloneOnItsWay ==
  ~crowded => \A m, n \in Mails : Alike(m, n) /\ Under(m) /\ Under(n) => m = n

(* One that is on its way still has room.                                  *)
RoomIsLeft ==
  ~crowded /\ ~forgotten => \A group \in Groups :
    /\ IsFiniteSet(Recent(group)) /\ Cardinality(Recent(group)) <= Limit
    /\ (\E m \in group : Under(m)) => Cardinality(Recent(group)) < Limit

RateInv ==
  /\ mailLog \in Seq(Entries) /\ crowded \in BOOLEAN /\ forgotten \in BOOLEAN
  /\ RecentAreLogged /\ AloneOnItsWay /\ RoomIsLeft

(* The log keeps what it had, unless what it drops no longer counts.       *)
LogKeeps ==
  /\ mailLog' \in Seq(Entries) /\ forgotten' \in BOOLEAN
  /\ ~forgotten' => /\ ~forgotten
                    /\ \A i \in 1..Len(mailLog) : Counts(mailLog[i]) =>
                         \E j \in 1..Len(mailLog') : mailLog'[j] = mailLog[i]

LEMMA UnloggedKeeps ==
  ASSUME mailLog \in Seq(Entries), forgotten \in BOOLEAN, Unlogged
  PROVE  LogKeeps
BY DEF Unlogged, LogKeeps

LEMMA LogsKeeps ==
  ASSUME mailLog \in Seq(Entries), forgotten \in BOOLEAN, clock \in Nat,
         NEW m \in Mails, NEW success \in BOOLEAN, Logs(m, success)
  PROVE  LogKeeps /\ \E j \in 1..Len(mailLog') : mailLog'[j] = EntryOf(m, success, clock)
<1> DEFINE entry == EntryOf(m, success, clock)
           longer == Append(mailLog, entry)
           cut == IF Len(longer) > MaxLog THEN 1 ELSE 0
<1>1. entry \in Entries
  BY DEF Entries, EntryOf
<1>2. /\ mailLog' = SubSeq(longer, 1 + cut, Len(longer))
      /\ forgotten' = (forgotten \/ (cut = 1 /\ Counts(longer[1])))
  BY DEF Logs, EntryOf
<1> HIDE DEF entry
<1>3. /\ longer \in Seq(Entries) /\ Len(longer) = Len(mailLog) + 1 /\ Len(mailLog) \in Nat
      /\ \A i \in 1..Len(mailLog) : longer[i] = mailLog[i]
      /\ longer[Len(mailLog) + 1] = entry
  BY <1>1
<1>4. cut \in {0, 1} /\ (cut = 1 => Len(mailLog) >= 1)
  BY <1>3, EmailAssumptions
<1> HIDE DEF longer, cut
<1>5. \A i \in 1 + cut..Len(longer) : longer[i] \in Entries
  BY <1>3, <1>4
<1>6. /\ mailLog' \in Seq(Entries) /\ Len(mailLog') = Len(mailLog) + 1 - cut
      /\ \A i \in 1..Len(mailLog) + 1 - cut : mailLog'[i] = longer[i + cut]
  <2>1. 1 + cut \in Int /\ Len(longer) \in Int
    BY <1>3, <1>4
  <2>2. /\ SubSeq(longer, 1 + cut, Len(longer)) \in Seq(Entries)
        /\ Len(SubSeq(longer, 1 + cut, Len(longer))) =
             IF 1 + cut <= Len(longer) THEN Len(longer) - (1 + cut) + 1 ELSE 0
        /\ \A i \in 1..Len(longer) - (1 + cut) + 1 :
             SubSeq(longer, 1 + cut, Len(longer))[i] = longer[1 + cut + i - 1]
    BY <1>5, <2>1, SubSeqProperties
  <2>3. 1 + cut <= Len(longer) /\ Len(longer) - (1 + cut) + 1 = Len(mailLog) + 1 - cut
    BY <1>3, <1>4
  <2>4. Len(mailLog') = Len(mailLog) + 1 - cut
    BY <1>2, <2>2, <2>3
  <2>5. ASSUME NEW i \in 1..Len(mailLog) + 1 - cut PROVE mailLog'[i] = longer[i + cut]
    <3>1. mailLog'[i] = longer[1 + cut + i - 1]
      BY <1>2, <2>2, <2>3
    <3>2. 1 + cut + i - 1 = i + cut
      BY <1>4
    <3> QED BY <3>1, <3>2
  <2> QED BY <1>2, <2>2, <2>4, <2>5
<1>7. mailLog'[Len(mailLog) + 1 - cut] = entry
  BY <1>3, <1>4, <1>6
<1>8. ASSUME ~forgotten', NEW i \in 1..Len(mailLog), Counts(mailLog[i])
      PROVE  \E j \in 1..Len(mailLog') : mailLog'[j] = mailLog[i]
  <2>1. cut = 1 => i # 1
    BY <1>2, <1>3, <1>8
  <2>2. i - cut \in 1..Len(mailLog) + 1 - cut /\ i - cut + cut = i
    BY <1>3, <1>4, <2>1
  <2> QED BY <1>3, <1>6, <2>2
<1>9. forgotten' \in BOOLEAN /\ (~forgotten' => ~forgotten)
  BY <1>2
<1>10. Len(mailLog) + 1 - cut \in 1..Len(mailLog')
  BY <1>3, <1>4, <1>6
<1> QED BY <1>6, <1>7, <1>8, <1>9, <1>10 DEF LogKeeps, entry

(* What was logged and still counts is logged after a step that adds no    *)
(* delivery.                                                               *)
LEMMA LoggedStays ==
  ASSUME MailInv, RateInv, LogKeeps, NEW m \in Mails, ~forgotten', clock' = clock,
         Delivered(m)
  PROVE  \E i \in 1..Len(mailLog') :
           mailLog'[i].mail = m /\ mailLog'[i].success /\ mailLog'[i].at >= mails[m].at
<1>1. PICK i \in 1..Len(mailLog) :
        mailLog[i].mail = m /\ mailLog[i].success /\ mailLog[i].at >= mails[m].at
  BY DEF LogKeeps, RateInv, RecentAreLogged
<1>2. mailLog[i].at \in Nat /\ mails[m].at \in Nat /\ clock \in Nat
  <2>1. mailLog \in Seq(Entries) /\ mails \in Table /\ clock \in Nat
    BY DEF RateInv, MailInv, MailType
  <2>2. mailLog[i] \in Entries
    BY <2>1
  <2> QED BY <2>1, <2>2 DEF Entries, Table
<1>3. Counts(mailLog[i])
  BY <1>1, <1>2, EmailAssumptions DEF Counts, Delivered
<1> QED BY <1>1, <1>3 DEF LogKeeps

(* Nothing is newly on its way or delivered.                               *)
Quieter ==
  \A m \in Mails : /\ Under(m)' => Under(m)
                   /\ Delivered(m)' => Delivered(m) /\ mails'[m].at = mails[m].at

LEMMA FewerAreRecent ==
  ASSUME NEW group \in Groups, IsFiniteSet(Recent(group)), Recent(group)' \subseteq Recent(group)
  PROVE  /\ IsFiniteSet(Recent(group)') /\ Cardinality(Recent(group)') \in Nat
         /\ Cardinality(Recent(group)) \in Nat
         /\ Cardinality(Recent(group)') <= Cardinality(Recent(group))
BY FS_Subset, FS_CardinalityType

LEMMA QuietKeepsRate ==
  ASSUME MailInv, RateInv, Quieter, crowded' \in BOOLEAN, crowded => crowded',
         \/ LogKeeps /\ clock' = clock
         \/ UNCHANGED <<mailLog, forgotten>>
  PROVE  RateInv'
<1>1. /\ mailLog' \in Seq(Entries) /\ forgotten' \in BOOLEAN /\ (~forgotten' => ~forgotten)
  BY DEF LogKeeps, RateInv
<1>2. RecentAreLogged'
  <2> SUFFICES ASSUME ~forgotten', NEW m \in Mails, Delivered(m)'
               PROVE  \E i \in 1..Len(mailLog') :
                        /\ mailLog'[i].mail = m /\ mailLog'[i].success
                        /\ mailLog'[i].at >= mails'[m].at
    BY DEF RecentAreLogged
  <2>1. Delivered(m) /\ mails'[m].at = mails[m].at
    BY DEF Quieter
  <2>2. CASE LogKeeps /\ clock' = clock
    BY <2>1, <2>2, LoggedStays
  <2>3. CASE UNCHANGED <<mailLog, forgotten>>
    BY <2>1, <2>3 DEF RateInv, RecentAreLogged
  <2> QED BY <2>2, <2>3
<1>3. AloneOnItsWay'
  BY DEF AloneOnItsWay, RateInv, Quieter, Alike
<1>4. ASSUME ~crowded', ~forgotten', NEW group \in Groups
      PROVE  /\ IsFiniteSet(Recent(group)') /\ Cardinality(Recent(group)') <= Limit
             /\ (\E m \in group : Under(m)') => Cardinality(Recent(group)') < Limit
  <2>1. /\ IsFiniteSet(Recent(group)) /\ Cardinality(Recent(group)) <= Limit
        /\ (\E m \in group : Under(m)) => Cardinality(Recent(group)) < Limit
    BY <1>1, <1>4 DEF RateInv, RoomIsLeft
  <2>2. group \subseteq Mails
    BY GroupsAreAlike
  <2>3. Recent(group)' \subseteq Recent(group)
    BY <2>2 DEF Recent, Quieter
  <2>4. (\E m \in group : Under(m)') => \E m \in group : Under(m)
    BY <2>2 DEF Quieter
  <2>5. /\ IsFiniteSet(Recent(group)') /\ Cardinality(Recent(group)') \in Nat
        /\ Cardinality(Recent(group)) \in Nat
        /\ Cardinality(Recent(group)') <= Cardinality(Recent(group))
    BY <2>1, <2>3, FewerAreRecent
  <2> QED BY <2>1, <2>4, <2>5, EmailAssumptions
<1>5. RoomIsLeft'
  BY <1>4 DEF RoomIsLeft
<1> QED BY <1>1, <1>2, <1>3, <1>5 DEF RateInv

(* What was held against the log was all that counts for its group.        *)
LEMMA RecentAreCounted ==
  ASSUME MailInv, RateInv, ~forgotten, NEW group \in Groups, NEW m \in group
  PROVE  /\ IsFiniteSet(Recent(group)) /\ Cardinality(Recent(group)) \in Nat
         /\ Counted(m) \in Nat /\ Cardinality(Recent(group)) <= Counted(m)
<1> DEFINE Hits == {i \in DOMAIN mailLog : Counts(mailLog[i]) /\ Alike(m, mailLog[i].mail)}
           f == [n \in Recent(group) |-> CHOOSE i \in Hits : mailLog[i].mail = n]
<1>1. DOMAIN mailLog = 1..Len(mailLog) /\ Len(mailLog) \in Nat
  BY DEF RateInv
<1>2. IsFiniteSet(Hits) /\ Cardinality(Hits) \in Nat
  <2>1. IsFiniteSet(1..Len(mailLog))
    BY <1>1, FS_Interval
  <2>2. Hits \in SUBSET (1..Len(mailLog))
    BY <1>1
  <2> QED BY <2>1, <2>2, FS_Subset, FS_CardinalityType
<1>3. ASSUME NEW n \in Recent(group) PROVE \E i \in Hits : mailLog[i].mail = n
  <2>1. n \in Mails /\ Delivered(n) /\ Alike(m, n)
    BY GroupsAreAlike DEF Recent
  <2>2. PICK i \in 1..Len(mailLog) :
          mailLog[i].mail = n /\ mailLog[i].success /\ mailLog[i].at >= mails[n].at
    BY <2>1 DEF RateInv, RecentAreLogged
  <2>3. mailLog[i].at \in Nat /\ mails[n].at \in Nat /\ clock \in Nat
    <3>1. mailLog \in Seq(Entries) /\ mails \in Table /\ clock \in Nat
      BY DEF RateInv, MailInv, MailType
    <3>2. mailLog[i] \in Entries
      BY <3>1, <2>2
    <3> QED BY <2>1, <3>1, <3>2 DEF Entries, Table
  <2>4. Counts(mailLog[i])
    BY <2>1, <2>2, <2>3, EmailAssumptions DEF Counts, Delivered
  <2> QED BY <1>1, <2>1, <2>2, <2>4
<1> HIDE DEF Hits
<1>4. \A n \in Recent(group) : f[n] \in Hits /\ mailLog[f[n]].mail = n
  BY <1>3
<1>5. f \in Injection(Recent(group), Hits)
  <2>1. f \in [Recent(group) -> Hits]
    BY <1>4
  <2>2. \A n, o \in Recent(group) : f[n] = f[o] => n = o
    BY <1>4
  <2> QED BY <2>1, <2>2 DEF Injection, IsInjective
<1> HIDE DEF f
<1>6. IsFiniteSet(Recent(group)) /\ Cardinality(Recent(group)) <= Cardinality(Hits)
  BY <1>2, <1>5, FS_Injection
<1>7. Cardinality(Recent(group)) \in Nat
  BY <1>6, FS_CardinalityType
<1> QED BY <1>2, <1>6, <1>7 DEF Counted, Hits

(* The request: it went on because there was room, and nobody like it was  *)
(* on the way, or there was a burst.                                       *)
LEMMA CheckKeepsRate ==
  ASSUME MailInv, RateInv, NEW m \in Mails, Check(m)
  PROVE  RateInv'
<1>1. mails \in Table /\ UNCHANGED <<mailLog, forgotten, clock>> /\ mails[m].pc = "new"
  BY DEF Check, Unlogged, MailInv, MailType
<1>2. /\ \A n \in Mails : n # m => mails'[n] = mails[n]
      /\ mails'[m].pc = IF MayGo(m) THEN "checked" ELSE "refusing"
  BY <1>1 DEF Check, Table
<1>3. /\ crowded' = (crowded \/ \E n \in Mails : Alike(m, n) /\ Under(n))
      /\ crowded' \in BOOLEAN /\ (crowded => crowded')
  BY DEF Check, Under
<1>4. \A n \in Mails : /\ Under(n)' => Under(n) \/ (n = m /\ MayGo(m))
                       /\ Delivered(n)' => Delivered(n) /\ mails'[n].at = mails[n].at
  BY <1>1, <1>2 DEF Under, Delivered, OnItsWay
<1>5. CASE ~MayGo(m)
  BY <1>1, <1>3, <1>4, <1>5, QuietKeepsRate DEF Quieter
<1>6. CASE MayGo(m)
  <2>1. RecentAreLogged'
    BY <1>1, <1>4 DEF RateInv, RecentAreLogged
  <2>2. AloneOnItsWay'
    <3>1. ASSUME ~crowded', NEW n \in Mails, NEW o \in Mails, Alike(n, o), Under(n)', Under(o)'
          PROVE  n = o
      <4>1. ~crowded /\ \A x \in Mails : Alike(m, x) => ~Under(x)
        BY <1>3, <3>1
      <4>2. Alike(m, n) /\ o = m => ~Under(n)
        BY <4>1
      <4>3. n # m /\ o # m => Under(n) /\ Under(o)
        BY <1>4, <3>1
      <4>4. n = m /\ o # m => Under(o) /\ Alike(m, o)
        BY <1>4, <3>1
      <4>5. o = m /\ n # m => Under(n) /\ Alike(m, n)
        BY <1>4, <3>1 DEF Alike
      <4> QED BY <3>1, <4>1, <4>3, <4>4, <4>5 DEF RateInv, AloneOnItsWay
    <3> QED BY <3>1 DEF AloneOnItsWay, Alike
  <2>3. ASSUME ~crowded', ~forgotten', NEW group \in Groups
        PROVE  /\ IsFiniteSet(Recent(group)') /\ Cardinality(Recent(group)') <= Limit
               /\ (\E n \in group : Under(n)') => Cardinality(Recent(group)') < Limit
    <3>1. group \subseteq Mails /\ ~crowded /\ ~forgotten
      BY <1>1, <1>3, <2>3, GroupsAreAlike
    <3>2. /\ IsFiniteSet(Recent(group)) /\ Cardinality(Recent(group)) <= Limit
          /\ (\E n \in group : Under(n)) => Cardinality(Recent(group)) < Limit
      BY <3>1 DEF RateInv, RoomIsLeft
    <3>3. Recent(group)' \subseteq Recent(group)
      BY <1>4, <3>1 DEF Recent
    <3>4. m \in group => Cardinality(Recent(group)) < Limit
      <4>1. m \in group => /\ Cardinality(Recent(group)) \in Nat /\ Counted(m) \in Nat
                           /\ Cardinality(Recent(group)) <= Counted(m)
        BY <3>1, RecentAreCounted
      <4> QED BY <1>6, <4>1, EmailAssumptions DEF MayGo
    <3>5. (\E n \in group : Under(n)') => m \in group \/ \E n \in group : Under(n)
      BY <1>4, <3>1
    <3>6. /\ IsFiniteSet(Recent(group)') /\ Cardinality(Recent(group)') \in Nat
          /\ Cardinality(Recent(group)) \in Nat
          /\ Cardinality(Recent(group)') <= Cardinality(Recent(group))
      BY <3>2, <3>3, FewerAreRecent
    <3> QED BY <3>2, <3>4, <3>5, <3>6, EmailAssumptions
  <2>4. RoomIsLeft'
    BY <2>3 DEF RoomIsLeft
  <2> QED BY <1>1, <1>3, <2>1, <2>2, <2>4 DEF RateInv
<1> QED BY <1>5, <1>6

(* The delivery takes the room that was left for it.                       *)
LEMMA DeliveryKeepsRate ==
  ASSUME MailInv, WentBefore, RateInv, LogSuccess, Logs(drain.mail, TRUE), drain' = Onwards,
         mails' = [mails EXCEPT ![drain.mail].pc = "delivered"]
  PROVE  RateInv'
<1> DEFINE m == drain.mail
<1>1. /\ m \in Mails /\ mails[m].pc = "taken" /\ mails \in Table /\ clock \in Nat
      /\ UNCHANGED <<clock, crowded>>
  BY DEF LogSuccess, MailInv, LoopKnows, MailType
<1>2. /\ \A n \in Mails : n # m => mails'[n] = mails[n]
      /\ mails'[m].pc = "delivered" /\ mails'[m].at = mails[m].at
      /\ mails[m].at \in Nat /\ mails[m].at <= clock
  BY <1>1 DEF Table, WentBefore
<1>3. LogKeeps /\ \E j \in 1..Len(mailLog') : mailLog'[j] = EntryOf(m, TRUE, clock)
  BY <1>1, LogsKeeps DEF RateInv
<1> HIDE DEF m
<1>4. /\ Under(m)
      /\ \A n \in Mails : Under(n)' => Under(n) /\ n # m
      /\ \A n \in Mails : Delivered(n)' => n = m \/ (Delivered(n) /\ mails'[n].at = mails[n].at)
  BY <1>1, <1>2 DEF Under, Delivered, OnItsWay
<1>5. RecentAreLogged'
  <2> SUFFICES ASSUME ~forgotten', NEW n \in Mails, Delivered(n)'
               PROVE  \E i \in 1..Len(mailLog') :
                        /\ mailLog'[i].mail = n /\ mailLog'[i].success
                        /\ mailLog'[i].at >= mails'[n].at
    BY DEF RecentAreLogged
  <2>1. CASE n = m
    BY <1>1, <1>2, <1>3, <2>1 DEF EntryOf
  <2>2. CASE n # m
    <3>1. Delivered(n) /\ mails'[n].at = mails[n].at
      BY <1>4, <2>2
    <3> QED BY <1>1, <1>3, <3>1, LoggedStays
  <2> QED BY <2>1, <2>2
<1>6. AloneOnItsWay'
  BY <1>1, <1>4 DEF RateInv, AloneOnItsWay, Alike
<1>7. ASSUME ~crowded', ~forgotten', NEW group \in Groups
      PROVE  /\ IsFiniteSet(Recent(group)') /\ Cardinality(Recent(group)') <= Limit
             /\ (\E n \in group : Under(n)') => Cardinality(Recent(group)') < Limit
  <2>1. group \subseteq Mails /\ ~crowded /\ ~forgotten /\ \A n, o \in group : Alike(n, o)
    BY <1>1, <1>3, <1>7, GroupsAreAlike DEF LogKeeps
  <2>2. /\ IsFiniteSet(Recent(group)) /\ Cardinality(Recent(group)) <= Limit
        /\ (\E n \in group : Under(n)) => Cardinality(Recent(group)) < Limit
    BY <2>1 DEF RateInv, RoomIsLeft
  <2>3. CASE m \notin group
    <3>1. Recent(group)' \subseteq Recent(group)
      BY <1>4, <2>1, <2>3 DEF Recent
    <3>2. /\ IsFiniteSet(Recent(group)') /\ Cardinality(Recent(group)') \in Nat
          /\ Cardinality(Recent(group)) \in Nat
          /\ Cardinality(Recent(group)') <= Cardinality(Recent(group))
      BY <2>2, <3>1, FewerAreRecent
    <3>3. (\E n \in group : Under(n)') => \E n \in group : Under(n)
      BY <1>4, <2>1
    <3> QED BY <2>2, <3>2, <3>3, EmailAssumptions
  <2>4. CASE m \in group
    <3>1. Recent(group)' \in SUBSET (Recent(group) \cup {m})
      BY <1>4, <2>1 DEF Recent
    <3>2. /\ IsFiniteSet(Recent(group) \cup {m}) /\ Cardinality(Recent(group)) \in Nat
          /\ Cardinality(Recent(group) \cup {m}) <= Cardinality(Recent(group)) + 1
      <4>1. Cardinality(Recent(group)) \in Nat
        BY <2>2, FS_CardinalityType
      <4>2. /\ IsFiniteSet(Recent(group) \cup {m})
            /\ Cardinality(Recent(group) \cup {m}) =
                 IF m \in Recent(group) THEN Cardinality(Recent(group))
                 ELSE Cardinality(Recent(group)) + 1
        BY <2>2, FS_AddElement
      <4> QED BY <4>1, <4>2
    <3>3. /\ IsFiniteSet(Recent(group)') /\ Cardinality(Recent(group)') \in Nat
          /\ Cardinality(Recent(group)') <= Cardinality(Recent(group) \cup {m})
      BY <3>1, <3>2, FS_Subset, FS_CardinalityType
    <3>4. Cardinality(Recent(group) \cup {m}) \in Nat
      BY <3>2, FS_CardinalityType
    <3>5. Cardinality(Recent(group)) < Limit
      BY <1>4, <2>2, <2>4
    <3>6. ~\E n \in group : Under(n)'
      BY <1>1, <1>4, <2>1, <2>4 DEF RateInv, AloneOnItsWay
    <3> QED BY <3>2, <3>3, <3>4, <3>5, <3>6, EmailAssumptions
  <2> QED BY <2>3, <2>4
<1>8. RoomIsLeft'
  BY <1>7 DEF RoomIsLeft
<1> QED BY <1>1, <1>3, <1>5, <1>6, <1>8 DEF RateInv, LogKeeps

(* Whatever leaves the mails as they are, or takes one off its way without *)
(* delivering it.                                                          *)
LEMMA MovesAreQuiet ==
  ASSUME MailInv, NEW m \in Mails, NEW pc \in MailPcs, mails' = [mails EXCEPT ![m].pc = pc],
         clock' = clock, pc # "delivered", Under(m) \/ pc \notin OnItsWay
  PROVE  Quieter
<1>1. mails \in Table
  BY DEF MailInv, MailType
<1>2. /\ \A n \in Mails : n # m => mails'[n] = mails[n]
      /\ mails'[m].pc = pc
  BY <1>1 DEF Table
<1> QED BY <1>2 DEF Quieter, Under, Delivered

LEMMA RateStep ==
  ASSUME MailInv, WentBefore, RateInv, MailNext
  PROVE  RateInv'
<1> USE DEF MailPcs, OnItsWay
<1>1. ASSUME NEW m \in Mails, Admit(m) PROVE RateInv'
  <2>1. Quieter
    BY <1>1, MovesAreQuiet DEF Admit, Under
  <2> QED BY <1>1, <2>1, QuietKeepsRate DEF Admit, Unlogged, RateInv
<1>2. ASSUME NEW m \in Mails, Refuse(m) PROVE RateInv'
  <2>1. Quieter
    BY <1>2, MovesAreQuiet DEF Refuse
  <2>2. LogKeeps
    <3>1. CASE Logs(m, FALSE)
      BY <3>1, LogsKeeps DEF MailInv, MailType, RateInv
    <3>2. CASE Unlogged
      BY <3>2, UnloggedKeeps DEF RateInv
    <3> QED BY <1>2, <3>1, <3>2 DEF Refuse
  <2> QED BY <1>2, <2>1, <2>2, QuietKeepsRate DEF Refuse, RateInv
<1>3. CASE Wake
  <2>1. Quieter
    BY <1>3 DEF Wake, Quieter, Under, Delivered
  <2> QED BY <1>3, <2>1, QuietKeepsRate DEF Wake, Unlogged, RateInv
<1>4. CASE TakeNext
  <2>1. Quieter
    <3>1. CASE queue = <<>>
      <4>1. UNCHANGED <<mails, clock>>
        BY <1>4, <3>1 DEF TakeNext
      <4> QED BY <4>1 DEF Quieter, Under, Delivered
    <3>2. CASE queue # <<>>
      <4>1. /\ Head(queue) \in Mails /\ Head(queue) = queue[1] /\ Len(queue) \in Nat
            /\ Len(queue) >= 1
        BY <3>2, ShiftQueue DEF MailInv, MailType
      <4>2. Under(Head(queue))
        BY <4>1 DEF MailInv, QueueWaits, Under
      <4>3. mails' = [mails EXCEPT ![Head(queue)].pc = "taken"] /\ clock' = clock
        BY <1>4, <3>2 DEF TakeNext
      <4> QED BY <4>1, <4>2, <4>3, MovesAreQuiet
    <3> QED BY <3>1, <3>2
  <2> QED BY <1>4, <2>1, QuietKeepsRate DEF TakeNext, Unlogged, RateInv
<1>5. CASE Send
  <2>1. /\ drain.mail \in Mails /\ mails \in Table
        /\ UNCHANGED <<clock, crowded, mailLog, forgotten>>
    BY <1>5 DEF Send, MailInv, LoopKnows, MailType, Unlogged
  <2>2. mails[drain.mail].pc = "taken"
    BY <1>5 DEF Send, MailInv, LoopKnows
  <2>3. \A n \in Mails : /\ mails'[n].pc = mails[n].pc
                         /\ n # drain.mail => mails'[n].at = mails[n].at
    BY <1>5, <2>1 DEF Send, Table
  <2>4. Quieter
    BY <2>1, <2>2, <2>3 DEF Quieter, Under, Delivered
  <2> QED BY <2>1, <2>4, QuietKeepsRate DEF RateInv
<1>6. CASE LogSuccess
  <2>1. /\ drain.mail \in Mails /\ mails[drain.mail].pc = "taken" /\ mails \in Table
        /\ UNCHANGED <<clock, crowded>>
    BY <1>6 DEF LogSuccess, MailInv, LoopKnows, MailType
  <2>2. CASE Unlogged /\ mails' = [mails EXCEPT ![drain.mail].doubts = @ + 1]
    <3>1. \A n \in Mails : mails'[n].pc = mails[n].pc /\ mails'[n].at = mails[n].at
      BY <2>1, <2>2 DEF Table
    <3>2. Quieter
      BY <2>1, <3>1 DEF Quieter, Under, Delivered
    <3> QED BY <2>1, <2>2, <3>2, QuietKeepsRate DEF RateInv, Unlogged
  <2>3. CASE /\ Logs(drain.mail, TRUE) /\ drain' = Onwards
             /\ mails' = [mails EXCEPT ![drain.mail].pc = "delivered"]
    BY <1>6, <2>3, DeliveryKeepsRate
  <2> QED BY <1>6, <2>2, <2>3 DEF LogSuccess
<1>7. CASE GiveUp
  <2>1. /\ drain.mail \in Mails /\ mails[drain.mail].pc = "taken" /\ clock \in Nat
        /\ UNCHANGED <<clock, crowded>> /\ Logs(drain.mail, FALSE)
        /\ mails' = [mails EXCEPT ![drain.mail].pc = "dropped"]
    BY <1>7 DEF GiveUp, MailInv, LoopKnows, MailType
  <2>2. Quieter
    BY <2>1, MovesAreQuiet
  <2>3. LogKeeps
    BY <2>1, LogsKeeps DEF RateInv
  <2> QED BY <2>1, <2>2, <2>3, QuietKeepsRate DEF RateInv
<1>8. CASE ThrowsOut \/ Stop
  <2>1. Loses /\ mails \in Table /\ UNCHANGED <<clock, crowded, mailLog, forgotten>>
    BY <1>8 DEF ThrowsOut, Stop, Loses, Unlogged, MailInv, MailType
  <2>2. \A n \in Mails : /\ mails'[n].at = mails[n].at
                         /\ mails'[n].pc = mails[n].pc \/ mails'[n].pc = "lost"
    BY <2>1 DEF Loses, Table
  <2>3. Quieter
    BY <2>1, <2>2 DEF Quieter, Under, Delivered
  <2> QED BY <2>1, <2>3, QuietKeepsRate DEF RateInv
<1>9. CASE Tick
  <2>1. clock' = clock + 1 /\ clock \in Nat /\ mails \in Table
        /\ UNCHANGED <<mails, crowded, mailLog, forgotten>>
    BY <1>9 DEF Tick, MailInv, MailType
  <2>2. \A n \in Mails : mails[n].at \in Nat
    BY <2>1 DEF Table
  <2>3. Quieter
    BY <2>1, <2>2, EmailAssumptions DEF Quieter, Under, Delivered
  <2> QED BY <2>1, <2>3, QuietKeepsRate DEF RateInv
<1> QED BY <1>1, <1>2, <1>3, <1>4, <1>5, <1>6, <1>7, <1>8, <1>9, CheckKeepsRate
        DEF MailNext, LoopStep

LEMMA RateInitInv == MailInit => RateInv
<1> SUFFICES ASSUME MailInit PROVE RateInv
  OBVIOUS
<1>1. \A m \in Mails : mails[m].pc = "new"
  BY DEF MailInit, NewMail
<1>2. mailLog \in Seq(Entries) /\ crowded \in BOOLEAN /\ forgotten \in BOOLEAN
  <2>1. mailLog = <<>> /\ crowded = FALSE /\ forgotten = FALSE
    BY DEF MailInit
  <2>2. <<>> \in Seq(Entries)
    OBVIOUS
  <2> QED BY <2>1, <2>2
<1>3. \A m \in Mails : ~Delivered(m) /\ ~Under(m)
  BY <1>1 DEF Delivered, Under, OnItsWay
<1>4. RecentAreLogged /\ AloneOnItsWay
  BY <1>3 DEF RecentAreLogged, AloneOnItsWay
<1>5. \A group \in Groups : Recent(group) = {} /\ group \subseteq Mails
  BY <1>3, GroupsAreAlike DEF Recent
<1>6. RoomIsLeft
  <2>1. ASSUME NEW group \in Groups
        PROVE  /\ IsFiniteSet(Recent(group)) /\ Cardinality(Recent(group)) = 0
               /\ ~\E m \in group : Under(m)
    BY <1>3, <1>5, FS_EmptySet
  <2> QED BY <2>1, EmailAssumptions DEF RoomIsLeft
<1> QED BY <1>2, <1>4, <1>6 DEF RateInv

LEMMA RateStutter ==
  ASSUME RateInv, UNCHANGED mailVars
  PROVE  RateInv'
BY DEF mailVars, RateInv, RecentAreLogged, AloneOnItsWay, RoomIsLeft, Delivered, Recent, Under

(* The copies the log has heard of, or is about to: the last one of a mail *)
(* delivered within the window, or of the one on its way.                  *)
Heard(c) == c[2] > mails[c[1]].doubts /\ mails[c[1]].pc # "lost"

CopiesOf(group) ==
  {c \in Mails \X (1..Tries) :
     c[1] \in group /\ c[2] <= mails[c[1]].sent /\ clock - mails[c[1]].at <= Window}

LEMMA CopiesAreFinite == IsFiniteSet(Mails \X (1..Tries))
<1>1. IsFiniteSet(1..Tries) /\ IsFiniteSet(Mails)
  BY EmailAssumptions, FS_Interval
<1> QED BY <1>1, FS_Product

LEMMA HeardAreRecent ==
  ASSUME MailInv, NEW group \in Groups, NEW c \in CopiesOf(group), Heard(c)
  PROVE  /\ c[1] \in group /\ c[2] = mails[c[1]].sent
         /\ c[1] \in Recent(group) \/ Under(c[1])
<1> DEFINE m == c[1]
           k == c[2]
<1>1. m \in Mails /\ m \in group /\ k \in 1..Tries /\ k <= mails[m].sent
  BY DEF CopiesOf
<1>2. k > mails[m].doubts /\ mails[m].pc # "lost" /\ clock - mails[m].at <= Window
  BY DEF Heard, CopiesOf
<1> HIDE DEF m, k
<1>3. mails[m].sent \in Nat /\ mails[m].doubts \in Nat /\ mails[m].pc \in MailPcs
  BY <1>1 DEF MailInv, MailType, Table
<1>4. mails[m].sent <= 1 + mails[m].doubts /\ k \in Nat
  BY <1>1, EmailAssumptions DEF MailInv, LogIsTrue
<1>5. k = mails[m].sent
  BY <1>1, <1>2, <1>3, <1>4
<1>6. ~Early(mails[m].pc) /\ mails[m].pc # "dropped"
  BY <1>1, <1>2, <1>3, <1>5 DEF MailInv, Untried, LogIsTrue
<1>7. mails[m].pc = "taken" \/ mails[m].pc = "delivered"
  BY <1>2, <1>3, <1>6 DEF Early, MailPcs
<1>8. m \in Recent(group) \/ Under(m)
  BY <1>1, <1>2, <1>7 DEF Recent, Delivered, Under, OnItsWay
<1> QED BY <1>1, <1>5, <1>8 DEF m, k

(* One copy for each mail that was delivered, and one for a mail on its    *)
(* way, which still had room.                                              *)
LEMMA HeardAreFew ==
  ASSUME MailInv, RateInv, ~crowded, ~forgotten, NEW group \in Groups
  PROVE  Cardinality({c \in CopiesOf(group) : Heard(c)}) <= Limit
<1> DEFINE told == {c \in CopiesOf(group) : Heard(c)}
           way == {m \in group : Under(m)}
           first == [c \in told |-> c[1]]
<1>1. /\ IsFiniteSet(Recent(group)) /\ Cardinality(Recent(group)) <= Limit
      /\ way # {} => Cardinality(Recent(group)) < Limit
      /\ Cardinality(Recent(group)) \in Nat
  BY FS_CardinalityType DEF RateInv, RoomIsLeft
<1>2. \A m, n \in way : m = n
  BY GroupsAreAlike DEF RateInv, AloneOnItsWay
<1>3. first \in Injection(told, Recent(group) \cup way)
  <2>1. first \in [told -> Recent(group) \cup way]
    BY HeardAreRecent
  <2>2. ASSUME NEW c \in told, NEW d \in told, first[c] = first[d] PROVE c = d
    <3>1. c[1] = d[1] /\ c[2] = mails[c[1]].sent /\ d[2] = mails[d[1]].sent
      BY <2>2, HeardAreRecent
    <3>2. c \in Mails \X (1..Tries) /\ d \in Mails \X (1..Tries)
      BY DEF CopiesOf
    <3> QED BY <3>1, <3>2
  <2> QED BY <2>1, <2>2 DEF Injection, IsInjective
<1> HIDE DEF told, way, first
<1>4. IsFiniteSet(Recent(group) \cup way) /\ Cardinality(Recent(group) \cup way) <= Limit
  <2>1. CASE way = {}
    <3>1. Recent(group) \cup way = Recent(group)
      BY <2>1
    <3> QED BY <1>1, <3>1
  <2>2. CASE way # {}
    <3>1. PICK m \in way : TRUE
      BY <2>2
    <3>2. Recent(group) \cup way = Recent(group) \cup {m}
      BY <1>2, <3>1
    <3>3. /\ IsFiniteSet(Recent(group) \cup {m})
          /\ Cardinality(Recent(group) \cup {m}) =
               IF m \in Recent(group) THEN Cardinality(Recent(group))
               ELSE Cardinality(Recent(group)) + 1
      BY <1>1, FS_AddElement
    <3> QED BY <1>1, <2>2, <3>2, <3>3, EmailAssumptions
  <2> QED BY <2>1, <2>2
<1>5. IsFiniteSet(told) /\ Cardinality(told) <= Cardinality(Recent(group) \cup way)
  BY <1>3, <1>4, FS_Injection
<1>6. Cardinality(told) \in Nat /\ Cardinality(Recent(group) \cup way) \in Nat
  BY <1>4, <1>5, FS_CardinalityType
<1>7. Cardinality(told) <= Limit
  BY <1>4, <1>5, <1>6, EmailAssumptions
<1> QED BY <1>7 DEF told

LEMMA CopiesAreFew ==
  ASSUME MailInv, RateInv, ~crowded, ~forgotten, NEW group \in Groups
  PROVE  Cardinality(CopiesOf(group)) <= Limit + Cardinality(Unheard(CopiesOf(group)))
<1> DEFINE all == CopiesOf(group)
           told == {c \in all : Heard(c)}
           untold == Unheard(all)
<1>1. IsFiniteSet(all)
  <2>1. all \in SUBSET (Mails \X (1..Tries))
    BY DEF CopiesOf
  <2> QED BY <2>1, CopiesAreFinite, FS_Subset
<1>2. told \in SUBSET all /\ untold \in SUBSET all
  BY DEF Unheard
<1>3. all = told \cup untold
  <2>1. ASSUME NEW c \in all PROVE Heard(c) \/ c \in untold
    <3>1. c[1] \in Mails /\ c[2] \in 1..Tries
      BY DEF CopiesOf
    <3>2. mails[c[1]].doubts \in Nat /\ c[2] \in Nat
      BY <3>1, EmailAssumptions DEF MailInv, MailType, Table
    <3>3. c[2] > mails[c[1]].doubts \/ c[2] <= mails[c[1]].doubts
      BY <3>2
    <3> QED BY <3>3 DEF Heard, Unheard
  <2> QED BY <1>2, <2>1
<1>4. Cardinality(told) <= Limit
  BY HeardAreFew
<1> HIDE DEF all, told, untold
<1>5. IsFiniteSet(told) /\ IsFiniteSet(untold)
  BY <1>1, <1>2, FS_Subset
<1>6. /\ Cardinality(told \cup untold) =
           Cardinality(told) + Cardinality(untold) - Cardinality(told \cap untold)
      /\ Cardinality(told) \in Nat /\ Cardinality(untold) \in Nat
      /\ Cardinality(told \cap untold) \in Nat
  <2>1. told \cap untold \in SUBSET told
    OBVIOUS
  <2>2. IsFiniteSet(told \cap untold)
    BY <1>5, <2>1, FS_Subset
  <2> QED BY <1>5, <2>2, FS_Union, FS_CardinalityType
<1>7. Cardinality(all) <= Limit + Cardinality(untold)
  BY <1>3, <1>4, <1>6, EmailAssumptions
<1> QED BY <1>7 DEF all, untold

LEMMA RateInvHolds == MailInv /\ RateInv => RateHolds
<1> SUFFICES ASSUME MailInv, RateInv, ~crowded, ~forgotten, NEW n \in Mails
             PROVE  LET near == {c \in Mails \X (1..Tries) :
                                   /\ AddressOf[c[1]] = AddressOf[n]
                                   /\ c[2] <= mails[c[1]].sent
                                   /\ clock - mails[c[1]].at <= Window}
                        mine == {c \in Mails \X (1..Tries) :
                                   /\ UserOf[n] # NoUser /\ UserOf[c[1]] = UserOf[n]
                                   /\ c[2] <= mails[c[1]].sent
                                   /\ clock - mails[c[1]].at <= Window}
                    IN /\ Cardinality(near) <= Limit + Cardinality(Unheard(near))
                       /\ Cardinality(mine) <= Limit + Cardinality(Unheard(mine))
  BY DEF RateHolds, Copies
<1> DEFINE near == {m \in Mails : AddressOf[m] = AddressOf[n]}
           mine == {m \in Mails : UserOf[n] # NoUser /\ UserOf[m] = UserOf[n]}
<1>1. near \in Groups /\ mine \in Groups
  BY DEF Groups
<1>2. CopiesOf(near) = {c \in Mails \X (1..Tries) :
                          /\ AddressOf[c[1]] = AddressOf[n]
                          /\ c[2] <= mails[c[1]].sent
                          /\ clock - mails[c[1]].at <= Window}
  BY DEF CopiesOf
<1>3. CopiesOf(mine) = {c \in Mails \X (1..Tries) :
                          /\ UserOf[n] # NoUser /\ UserOf[c[1]] = UserOf[n]
                          /\ c[2] <= mails[c[1]].sent
                          /\ clock - mails[c[1]].at <= Window}
  BY DEF CopiesOf
<1> HIDE DEF near, mine
<1>4. /\ Cardinality(CopiesOf(near)) <= Limit + Cardinality(Unheard(CopiesOf(near)))
      /\ Cardinality(CopiesOf(mine)) <= Limit + Cardinality(Unheard(CopiesOf(mine)))
  BY <1>1, CopiesAreFew
<1> QED BY <1>2, <1>3, <1>4

(* Within a window no account and no address is sent more copies than the  *)
(* limit and one for each copy the log has not heard of, whatever the limit*)
(* and the window, unless they were asked for in a burst or the log was cut*)
(* below the window.                                                       *)
THEOREM RateHoldsAlways == MailInit /\ [][MailNext]_mailVars => []RateHolds
<1> DEFINE Inv == MailInv /\ WentBefore /\ RateInv
<1>1. MailInit => Inv
  <2>1. MailInit => WentBefore
    BY DEF MailInit, NewMail, WentBefore
  <2> QED BY <2>1, MailInitInv, RateInitInv
<1>2. Inv /\ [MailNext]_mailVars => Inv'
  <2>1. MailInv /\ [MailNext]_mailVars => MailInv'
    BY MailStepInv
  <2>2. MailInv /\ WentBefore /\ [MailNext]_mailVars => WentBefore'
    BY WentStep
  <2>3. MailInv /\ WentBefore /\ RateInv /\ MailNext => RateInv'
    BY RateStep
  <2>4. RateInv /\ UNCHANGED mailVars => RateInv'
    BY RateStutter
  <2> QED BY <2>1, <2>2, <2>3, <2>4
<1>3. Inv => RateHolds
  BY RateInvHolds
<1> QED BY <1>1, <1>2, <1>3, PTL
=============================================================================
