----------------------------- MODULE MCAccounts -----------------------------
(* Small instances of Accounts and SecondFactor for TLC, and of the queue   *)
(* of the mails they cause, which a behaviour without requests is about.   *)
EXTENDS SecondFactor, EmailQueue, TLC

CONSTANTS e1, e2, github1, google1, m1, m2, m3, ann

(* Two mails of one account, to two addresses, and a registration's to one. *)
Users == m1 :> ann @@ m2 :> ann @@ m3 :> NoUser
Addresses == m1 :> e1 @@ m2 :> e2 @@ m3 :> e1

Providers == [i \in Idents |-> IF i = github1 THEN "github" ELSE "google"]

(* The n-th request of its kind. *)
Asks(n, op, email, ident, user) ==
  [n |-> n, op |-> op, email |-> email, ident |-> ident, user |-> user]
Mail(n, op, email) == Asks(n, op, email, github1, 0)
Plain(n, op) == Mail(n, op, NoEmail)
Provider(n, op, ident, email) == Asks(n, op, email, ident, 0)
About(n, op, user) == Asks(n, op, NoEmail, github1, user)

(* Accounts with a session each: with a password, with a factor as well, or*)
(* with an identity and a factor.                                          *)
Factor == [on |-> TRUE, codes |-> Fresh(Plain(0, "confirmFactor"))]
Local(email) == NewUser(email, TRUE)
Careful(email) == [Local(email) EXCEPT !.factor = Factor]
Administrator(email) == [Local(email) EXCEPT !.admin = TRUE]
External(email) == [NewUser(email, FALSE) EXCEPT !.factor = Factor]
SignedIn(accountsMade) ==
  {[user |-> u, request |-> Plain(u, "login"), kind |-> "full"] : u \in DOMAIN accountsMade}

Mix(accountsMade, rows, made_) ==
  [users |-> accountsMade, idents |-> rows, sessions |-> SignedIn(accountsMade),
   requests |-> made_]
RowOf(user, ident) == {[id |-> 1, ident |-> ident, user |-> user]}

SmallMixes ==
  {Mix(<<>>, {}, {}),
   (* the same address registered twice, or registered and brought by a provider *)
   Mix(<<>>, {}, {Mail(1, "register", e1), Mail(2, "register", e1), Plain(1, "verify"),
                  Plain(2, "verify")}),
   Mix(<<>>, {}, {Mail(1, "register", e1), Plain(1, "verify"), Provider(1, "oauth", github1, e1),
                  Provider(2, "oauth", github1, NoEmail)}),
   (* an address changed to one that is being registered, or back *)
   Mix(<<Local(e1)>>, {}, {Mail(1, "askChange", e2), Plain(1, "confirmChange"),
                           Mail(1, "register", e2), Plain(1, "verify")}),
   (* an account deleted under a log-in, a reset, a link and a new registration *)
   Mix(<<Local(e1)>>, {}, {Plain(1, "delete"), Mail(1, "login", e1), Mail(1, "forgot", e1),
                           Plain(1, "reset"), Plain(2, "reset")}),
   Mix(<<Local(e1)>>, {}, {Plain(1, "delete"), Mail(1, "register", e1), Plain(1, "verify"),
                           Mail(1, "login", e1)}),
   Mix(<<External(e1), Local(e2)>>, RowOf(1, github1),
       {Plain(1, "delete"), Provider(1, "link", github1, NoEmail),
        Provider(1, "oauth", github1, e1)}),
   (* a locked account's address and identity are taken over, and it is unlocked *)
   Mix(<<External(e1), Administrator(e2)>>, RowOf(1, github1),
       {About(1, "lock", 1), About(2, "lock", 1), Provider(1, "oauth", github1, e1),
        Provider(2, "oauth", github1, e1)}),
   (* the ways into one account come and go *)
   Mix(<<External(e1)>>, RowOf(1, github1),
       {Provider(1, "link", google1, NoEmail), Provider(1, "unlink", github1, NoEmail),
        Provider(2, "unlink", google1, NoEmail), Plain(1, "password"),
        Provider(1, "oauth", google1, e1)}),
   (* two log-ins with a second factor that is turned off or gets new codes *)
   Mix(<<Careful(e1)>>, {}, {Mail(1, "login", e1), Plain(1, "second"), Plain(2, "second"),
                             Plain(1, "disable"), Plain(1, "regenerate")}),
   Mix(<<External(e1)>>, RowOf(1, github1),
       {Provider(1, "oauth", github1, NoEmail), Plain(1, "second"), Plain(1, "disable"),
        Plain(1, "enroll"), Plain(1, "delete")}),
   (* a factor set up twice, beside a log-in *)
   Mix(<<Local(e1)>>, {}, {Plain(1, "enroll"), Plain(2, "enroll"), Plain(1, "confirmFactor"),
                           Plain(2, "confirmFactor"), Mail(1, "login", e1)}),
   (* an administrator without a factor logs in *)
   Mix(<<Local(e2)>>, {}, {Mail(1, "login", e2), Plain(1, "enroll"), Plain(1, "confirmFactor"),
                           Plain(1, "disable"), Plain(1, "second")}),
   (* an administrator of the allow-list that was demoted logs in and leaves *)
   Mix(<<[Local(e2) EXCEPT !.admin = FALSE]>>, {}, {Mail(1, "login", e2), Plain(1, "delete")}),
   (* two admins at each other and at themselves *)
   Mix(<<Administrator(e1), Administrator(e2)>>, {},
       {About(1, "lock", 1), About(2, "lock", 2), About(1, "demote", 1), Plain(1, "delete")}),
   Mix(<<Administrator(e1), Administrator(e2)>>, {},
       {About(1, "demote", 1), About(2, "demote", 2), About(1, "promote", 1), Plain(1, "delete")})}

AllRequests ==
  UNION {mix.requests : mix \in SmallMixes} \cup {Plain(u, "login") : u \in 1..2}
    \cup {Plain(0, "confirmFactor")}

AboutMails == DOMAIN local = {}

MixInit == Init /\ MailInit /\ (AboutMails \/ smtp)

MixNext ==
  \/ Next /\ UNCHANGED mailVars
  \/ AboutMails /\ MailNext /\ UNCHANGED vars

MixSpec == MixInit /\ [][MixNext]_<<vars, mailVars>> /\ MailFairness
=============================================================================
