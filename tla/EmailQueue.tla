------------------------------ MODULE EmailQueue ------------------------------
(***************************************************************************)
(* The e-mails accounts cause (email/queue.ts, email/rate-limit.ts): a     *)
(* queue in memory, emptied by one loop at a time.  The server never       *)
(* starts the timer of startEmailQueue, so a mail admitted wakes the loop  *)
(* itself.                                                                 *)
(*                                                                         *)
(* A mail is asked for by a request, held against the log, queued, tried   *)
(* up to Tries times, and logged.  What throws out of the loop is a        *)
(* rejection nobody handles and ends the process; what is queued is lost   *)
(* then.  Left out: the templates (a mail that cannot be rendered is one   *)
(* that cannot be sent) and the pauses between attempts.                   *)
(***************************************************************************)
EXTENDS Integers, Sequences, FiniteSets

CONSTANTS
  Mails,     \* the mails that may be asked for
  UserOf,    \* mail -> the account it is for
  AddressOf, \* mail -> the address it goes to
  NoUser,    \* a registration is nobody's yet
  NoMail,
  Limit,     \* successes within Window before a mail is refused: 30
  Window,    \* the hour they count for
  Tries,     \* attempts at a mail: 3
  MaxLog,    \* entries the log keeps: 200
  MaxTime,   \* bound on the clock
  MaxBreaks, \* bound on what fails in a behaviour
  MaxStops   \* bound on the stops of the process

ASSUME EmailAssumptions ==
  /\ IsFiniteSet(Mails) /\ NoMail \notin Mails
  /\ DOMAIN UserOf = Mails /\ DOMAIN AddressOf = Mails
  /\ Limit \in Nat \ {0} /\ Tries \in Nat \ {0} /\ MaxLog \in Nat \ {0}
  /\ Window \in Nat /\ MaxTime \in Nat /\ MaxBreaks \in Nat /\ MaxStops \in Nat

VARIABLES
  smtp,     \* a server is configured; without one mails go to stdout
  mails,    \* mail -> how it stands; at: when it last went out
  queue,    \* mails admitted and not yet taken
  drain,    \* the loop: where it is and the mail it has
  woken,    \* a run of the loop is about to start
  mailLog,  \* the log, oldest entry first
  clock,
  crowded,  \* auxiliary: a mail was held against the log with one like it on its way
  forgotten, \* auxiliary: the log dropped a success that still counted
  breaks, stops

mailVars == <<smtp, mails, queue, drain, woken, mailLog, clock, crowded, forgotten, breaks, stops>>

NewMail == [pc |-> "new", tries |-> 0, sent |-> 0, doubts |-> 0, at |-> 0]
Idle == [pc |-> "idle", mail |-> NoMail]

MailInit ==
  /\ smtp \in BOOLEAN
  /\ mails = [m \in Mails |-> NewMail]
  /\ queue = <<>> /\ drain = Idle /\ woken = FALSE
  /\ mailLog = <<>> /\ clock = 0
  /\ crowded = FALSE /\ forgotten = FALSE /\ breaks = 0 /\ stops = 0

(* By account where there is one, or by address. *)
Alike(m, n) ==
  \/ UserOf[m] # NoUser /\ UserOf[n] = UserOf[m]
  \/ AddressOf[n] = AddressOf[m]

Counts(entry) == entry.success /\ clock - entry.at <= Window

Counted(m) == Cardinality({i \in DOMAIN mailLog : Counts(mailLog[i]) /\ Alike(m, mailLog[i].mail)})

(* Mutant of MayGo: the limit is one too high. *)
MayGoOver(m) == Counted(m) <= Limit

MayGo(m) == Counted(m) < Limit

(* One update of the store: the entry is appended and the log cut.         *)
Logs(m, success) ==
  LET longer == Append(mailLog, [mail |-> m, success |-> success, at |-> clock])
      cut == IF Len(longer) > MaxLog THEN 1 ELSE 0
  IN /\ mailLog' = SubSeq(longer, 1 + cut, Len(longer))
     /\ forgotten' = (forgotten \/ (cut = 1 /\ Counts(longer[1])))

Unlogged == UNCHANGED <<mailLog, forgotten>>
Breaks == breaks < MaxBreaks /\ breaks' = breaks + 1

-----------------------------------------------------------------------------
(* The request.                                                            *)
OnItsWay == {"checked", "queued", "taken"}

Check(m) ==
  /\ mails[m].pc = "new"
  /\ mails' = [mails EXCEPT ![m].pc = IF MayGo(m) THEN "checked" ELSE "refusing"]
  /\ crowded' = (crowded \/ \E n \in Mails : Alike(m, n) /\ mails[n].pc \in OnItsWay)
  /\ Unlogged /\ UNCHANGED <<smtp, queue, drain, woken, clock, breaks, stops>>

Admit(m) ==
  /\ mails[m].pc = "checked"
  /\ mails' = [mails EXCEPT ![m].pc = "queued"]
  /\ queue' = Append(queue, m) /\ woken' = TRUE
  /\ Unlogged /\ UNCHANGED <<smtp, drain, clock, crowded, breaks, stops>>

(* When the entry cannot be written the request fails. *)
Refuse(m) ==
  /\ mails[m].pc = "refusing"
  /\ mails' = [mails EXCEPT ![m].pc = "refused"]
  /\ (Logs(m, FALSE) /\ UNCHANGED breaks) \/ (Breaks /\ Unlogged)
  /\ UNCHANGED <<smtp, queue, drain, woken, clock, crowded, stops>>

-----------------------------------------------------------------------------
(* The loop.                                                               *)

(* One that finds another under way returns at once. *)
Wake ==
  /\ woken /\ woken' = FALSE
  /\ drain' = IF drain.pc = "idle" THEN [drain EXCEPT !.pc = "next"] ELSE drain
  /\ Unlogged /\ UNCHANGED <<smtp, mails, queue, clock, crowded, breaks, stops>>

TakeNext ==
  /\ drain.pc = "next"
  /\ \/ /\ queue = <<>>
        /\ drain' = Idle /\ UNCHANGED <<queue, mails>>
     \/ /\ queue # <<>>
        /\ queue' = Tail(queue)
        /\ drain' = [pc |-> "send", mail |-> Head(queue)]
        /\ mails' = [mails EXCEPT ![Head(queue)].pc = "taken"]
  /\ Unlogged /\ UNCHANGED <<smtp, woken, clock, crowded, breaks, stops>>

(* Without a server a mail is tried once.                                  *)
Allowed == IF smtp THEN Tries ELSE 1

(* Mutant of AfterFailure: a mail is given up one attempt early.           *)
AfterFailureEarly(tries) == IF tries + 1 < Allowed THEN "send" ELSE "giveUp"

(* Where a failed attempt leads.                                           *)
AfterFailure(tries) == IF tries < Allowed THEN "send" ELSE "giveUp"

Moves(pc) == drain' = [drain EXCEPT !.pc = pc]

(* The mail goes out, or is refused, or goes out and the answer is lost.   *)
Send ==
  LET m == drain.mail IN
  /\ drain.pc = "send"
  /\ \E out, told \in BOOLEAN :
       /\ told => out
       /\ mails' = [mails EXCEPT ![m].tries = @ + 1,
                      ![m].sent = IF out THEN @ + 1 ELSE @,
                      ![m].at = IF out THEN clock ELSE @,
                      ![m].doubts = IF out /\ ~told THEN @ + 1 ELSE @]
       /\ Moves(IF told THEN "log" ELSE AfterFailure(mails[m].tries + 1))
       /\ IF told THEN UNCHANGED breaks ELSE Breaks
       /\ out /\ ~told => smtp
  /\ Unlogged /\ UNCHANGED <<smtp, queue, woken, clock, crowded, stops>>

(* Mutant of Onwards: the loop ends with the mail it has. *)
OnwardsNot == Idle

Onwards == [pc |-> "next", mail |-> NoMail]

(* The entry of a success; when it fails the attempt has failed, and the   *)
(* mail is sent again.                                                     *)
LogSuccess ==
  LET m == drain.mail IN
  /\ drain.pc = "log"
  /\ \/ /\ Logs(m, TRUE) /\ drain' = Onwards
        /\ mails' = [mails EXCEPT ![m].pc = "delivered"]
        /\ UNCHANGED breaks
     \/ /\ Breaks /\ Unlogged /\ Moves(AfterFailure(mails[m].tries))
        /\ mails' = [mails EXCEPT ![m].doubts = @ + 1]
  /\ UNCHANGED <<smtp, queue, woken, clock, crowded, stops>>

GiveUp ==
  /\ drain.pc = "giveUp"
  /\ Logs(drain.mail, FALSE) /\ drain' = Onwards
  /\ mails' = [mails EXCEPT ![drain.mail].pc = "dropped"]
  /\ UNCHANGED <<smtp, queue, woken, clock, crowded, breaks, stops>>

-----------------------------------------------------------------------------
(* What the process held is gone; what was on its way is lost.             *)
Loses ==
  /\ mails' = [m \in Mails |->
       IF mails[m].pc \in OnItsWay \cup {"refusing"}
       THEN [mails[m] EXCEPT !.pc = "lost"] ELSE mails[m]]
  /\ queue' = <<>> /\ drain' = Idle /\ woken' = FALSE
  /\ Unlogged /\ UNCHANGED <<smtp, clock, crowded>>

(* The transport cannot be made for a mail just taken, or the entry of one *)
(* given up fails: that throws out of the loop.  (The transport is made for*)
(* the first mail of a process and kept; here it may fail for any.)        *)
ThrowsOut ==
  /\ \/ drain.pc = "send" /\ mails[drain.mail].tries = 0
     \/ drain.pc = "giveUp"
  /\ Breaks /\ Loses /\ UNCHANGED stops

Stop == stops < MaxStops /\ stops' = stops + 1 /\ Loses /\ UNCHANGED breaks

Tick ==
  /\ clock < MaxTime /\ clock' = clock + 1
  /\ UNCHANGED <<smtp, mails, queue, drain, woken, mailLog, crowded, forgotten, breaks, stops>>

LoopStep == Wake \/ TakeNext \/ Send \/ LogSuccess \/ GiveUp \/ ThrowsOut

MailNext ==
  \/ \E m \in Mails : Check(m) \/ Admit(m) \/ Refuse(m)
  \/ LoopStep \/ Stop \/ Tick

(* The event loop goes on.                                                 *)
MailFairness == WF_mailVars(LoopStep)

-----------------------------------------------------------------------------
(* The log tells what became of each mail: what it calls delivered went    *)
(* out, what was given up was tried as often as allowed, and a mail goes   *)
(* out once, and once more for each attempt whose answer or whose entry    *)
(* was lost (deliverItem).                                                 *)
LogIsTrue ==
  \A m \in Mails :
    /\ mails[m].sent <= 1 + mails[m].doubts
    /\ mails[m].pc = "delivered" => mails[m].sent > 0
    /\ mails[m].pc = "dropped" =>
         /\ mails[m].sent <= mails[m].doubts
         /\ mails[m].tries = Allowed

(* Mail c[1] going out for the c[2]-th time, for the mails that last did so*)
(* within the window.                                                      *)
Copies(Like(_)) ==
  {c \in Mails \X (1..Tries) :
     Like(c[1]) /\ c[2] <= mails[c[1]].sent /\ clock - mails[c[1]].at <= Window}

(* The log has not heard of a copy whose answer or whose entry was lost,   *)
(* nor of those of a mail that was lost with the process.                  *)
Unheard(copies) ==
  {c \in copies : c[2] <= mails[c[1]].doubts \/ mails[c[1]].pc = "lost"}

(* Within a window no account and no address is sent more copies than the  *)
(* limit and one for each copy the log has not heard of, unless they were  *)
(* asked for in a burst, which the log does not show yet, or the log was   *)
(* cut below the window (evaluateRateLimit).  The limit itself is no bound:*)
(* it counts entries of successes, and a mail whose answers are lost goes  *)
(* out up to Tries times and is entered as a failure.                      *)
RateHolds ==
  ~crowded /\ ~forgotten => \A n \in Mails :
    LET SameAddress(m) == AddressOf[m] = AddressOf[n]
        SameUser(m) == UserOf[n] # NoUser /\ UserOf[m] = UserOf[n]
        Within(copies) == Cardinality(copies) <= Limit + Cardinality(Unheard(copies))
    IN Within(Copies(SameAddress)) /\ Within(Copies(SameUser))

(* A mail that was admitted is delivered, given up or lost with the        *)
(* process: none is left in the queue by a loop that ended or by one that  *)
(* returned because another was running.                                   *)
MailsSettle ==
  \A m \in Mails : mails[m].pc = "queued" ~> mails[m].pc \in {"delivered", "dropped", "lost"}
===============================================================================
