------------------------------ MODULE SecondFactor ------------------------------
(***************************************************************************)
(* The second factor of an account (auth/totp.ts, auth/login-2fa.ts,       *)
(* auth/session.ts rotateSession and the routes over them), and all of     *)
(* signing in: Accounts with it.                                           *)
(*                                                                         *)
(* Whoever sends a code of the authenticator has the secret; a code that   *)
(* is wrong or late ends the request.  A recovery code is known by the     *)
(* request that made it.                                                   *)
(***************************************************************************)
EXTENDS Accounts

CONSTANT RecoveryCodes  \* made at a time: 8

ASSUME SecondFactorAssumptions == RecoveryCodes \in Nat

Fresh(q) == {<<q, i>> : i \in 1..RecoveryCodes}

pendingMails == <<codes, pendReg, pendChange, resets>>

-----------------------------------------------------------------------------
(* Setting a factor up and turning it off.                                 *)
Enroll(q) ==
  /\ At(q, "enroll", "enroll")
  /\ Writes(q)
  /\ enrolling' = enrolling \cup {local[q].user}
  /\ Goes(q, "done")
  /\ UNCHANGED <<accounts, pendingMails, sessions>>

(* The secret on offer is read and the code held against it.               *)
ReadEnrolment(q) ==
  /\ At(q, "confirmFactor", "confirmFactor") /\ local[q].user \in enrolling
  /\ Goes(q, "enable")
  /\ UNCHANGED <<accounts, pendings, sessions, overlaps>>

(* The factor read is stored, whatever has become of the account's factor  *)
(* and offer; an intermediate session is then exchanged.                   *)
EnableFactor(q) ==
  LET u == local[q].user IN
  /\ local[q].pc = "enable"
  /\ Writes(q)
  /\ users' = [users EXCEPT ![u].factor = [on |-> TRUE, codes |-> Fresh(q)]]
  /\ enrolling' = enrolling \ {u}
  /\ Goes(q, IF local[q].token.kind = "enrol" THEN "rotate" ELSE "done")
  /\ UNCHANGED <<idents, made, pendingMails, sessions>>

DisableFactor(q) ==
  LET u == local[q].user IN
  /\ At(q, "disable", "disable")
  /\ Writes(q)
  /\ users' = [users EXCEPT ![u].factor = NoFactor]
  /\ enrolling' = enrolling \ {u}
  /\ Goes(q, "done")
  /\ UNCHANGED <<idents, made, pendingMails, sessions>>

RegenerateCodes(q) ==
  /\ At(q, "regenerate", "regenerate") /\ On(local[q].user)
  /\ Writes(q)
  /\ users' = [users EXCEPT ![local[q].user].factor.codes = Fresh(q)]
  /\ Goes(q, "done")
  /\ UNCHANGED <<idents, made, pendings, sessions>>

-----------------------------------------------------------------------------
(* login2FA: the intermediate session, the code, the exchange.             *)
FindPending(q) ==
  \E s \in sessions : \E pc \in {"totp", "recovery"} :
    /\ At(q, "second", "ready") /\ s.kind = "second"
    /\ local' = [local EXCEPT ![q].pc = pc, ![q].user = s.user, ![q].token = s]
    /\ UNCHANGED <<accounts, pendings, sessions, overlaps>>

VerifyTotp(q) ==
  /\ At(q, "second", "totp") /\ On(local[q].user)
  /\ Goes(q, "rotate")
  /\ UNCHANGED <<accounts, pendings, sessions, overlaps>>

ConsumeRecoveryCode(q) ==
  LET u == local[q].user IN
  /\ At(q, "second", "recovery") /\ On(u)
  /\ Writes(q)
  /\ \E code \in users[u].factor.codes :
       /\ users' = [users EXCEPT ![u].factor.codes = @ \ {code}]
       /\ local' = [local EXCEPT ![q].pc = "rotate", ![q].code = code]
  /\ UNCHANGED <<idents, made, pendings, sessions>>

(* Mutant of RotateSession: the session found before the code was looked at*)
(* is taken to be there still.                                             *)
RotatesWhatItFound(q) ==
  /\ local[q].pc = "rotate"
  /\ Acts(q)
  /\ sessions' = (sessions \ {local[q].token})
                   \cup {[user |-> local[q].user, request |-> q, kind |-> "full"]}
  /\ Goes(q, "in")
  /\ UNCHANGED <<accounts, pendings>>

(* rotateSession: the session goes and a full one comes, in one update.    *)
RotateSession(q) ==
  LET old == local[q].token IN
  /\ local[q].pc = "rotate" /\ old \in sessions
  /\ Acts(q)
  /\ sessions' = (sessions \ {old}) \cup {[user |-> old.user, request |-> q, kind |-> "full"]}
  /\ Goes(q, "in")
  /\ UNCHANGED <<accounts, pendings>>

FactorStep(q) ==
  \/ Enroll(q) \/ ReadEnrolment(q) \/ EnableFactor(q) \/ DisableFactor(q) \/ RegenerateCodes(q)
  \/ FindPending(q) \/ VerifyTotp(q) \/ ConsumeRecoveryCode(q) \/ RotateSession(q)

Next ==
  \/ \E q \in DOMAIN local : AccountStep(q) \/ FactorStep(q)
  \/ \E c \in DOMAIN codes : Expire(c)

Spec == Init /\ [][Next]_vars

-----------------------------------------------------------------------------
(* A mailed code lets one request through, and none after MaxAttempts wrong*)
(* tries, however many try it at once; an intermediate session is exchanged*)
(* once, and no two log-ins rest on one recovery code ("Each code is       *)
(* one-shot", totp.ts).                                                    *)
CodesLetOneThrough ==
  /\ \A c \in DOMAIN codes :
       codes[c].passes <= (IF codes[c].attempts < MaxAttempts THEN 1 ELSE 0)
  /\ \A one, two \in {q \in DOMAIN local : local[q].pc = "in"} :
       one # two => /\ local[one].token # local[two].token
                    /\ local[one].code # local[two].code \/ local[one].code = <<>>

Exchanged(s, kinds) == \E old \in sessions \ sessions' : old.user = s.user /\ old.kind \in kinds

VerifiedEntries ==
  \A s \in sessions' \ sessions :
    s.kind = "full" /\ ~overlapped' =>
      IF On(s.user)' THEN Exchanged(s, {"second", "enrol"})
      ELSE ~Exchanged(s, {"enrol"}) /\ (s.request.op = "login" => s.request.email \notin AdminEmails)

(* Who has a second factor, or is on the allow-list and has a password,    *)
(* gets a full session only in exchange for an intermediate one, and one   *)
(* for setting up a factor only once it is on, unless a request went by    *)
(* what it had read before another one's update.                           *)
EntryIsVerified == [][VerifiedEntries]_vars
===============================================================================
