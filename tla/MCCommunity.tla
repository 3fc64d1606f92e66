----------------------------- MODULE MCCommunity -----------------------------
(* Small instances of Community for TLC. *)
EXTENDS Community

CONSTANTS c1, s1, u1, u2, tick1, tick2

Add     == [op |-> "add", item |-> c1, user |-> u1]
Like    == [op |-> "like", item |-> c1, user |-> u1]
Report1 == [op |-> "report", item |-> c1, user |-> u1]
Report2 == [op |-> "report", item |-> c1, user |-> u2]
Keep    == [op |-> "keep", item |-> c1, user |-> u1]
Delete  == [op |-> "delete", item |-> c1, user |-> u2]
Accept  == [op |-> "accept", item |-> s1, user |-> u1]
Reject  == [op |-> "reject", item |-> s1, user |-> u2]
Notify  == [op |-> "notify", item |-> s1, user |-> u1]

AllCalls == {Add, Like, Report1, Report2, Keep, Delete, Accept, Reject, Notify}

(* A comment reported, hidden, kept or deleted; a like; two admins at one  *)
(* suggestion; a notification beside an index task; ticks that overlap.    *)
One(made) == [calls |-> made, ticks |-> {tick1}]
Two(made) == [calls |-> made, ticks |-> {tick1, tick2}]

SmallMixes ==
  {Two({Add, Delete}), One({Add, Report2, Delete}), One({Add, Report1, Keep}),
   One({Add, Report1, Report2}), One({Add, Like}), One({Accept, Reject}),
   One({Notify, Add}), Two({Notify})}
=============================================================================
