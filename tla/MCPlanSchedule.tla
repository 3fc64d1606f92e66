---------------------------- MODULE MCPlanSchedule ----------------------------
(* Small instances of PlanSchedule for TLC. *)
EXTENDS PlanSchedule, TLC

CONSTANTS p1, sched1, r1, r2, tick1, tick2

OneStep == p1 :> <<"config">>
OnePlan == sched1 :> p1

(* Two years of two months in weeks of two days, the second year a day     *)
(* longer; days of two hours of two minutes.                               *)
ShortMonths == <<2, 1, 2, 2, 2, 1, 2, 2, 2, 1>>

Star(first, last) == [first |-> first, last |-> last, step |-> 1]

AnyCron == [minute |-> FieldValues({Star(0, 1)}), hour |-> FieldValues({Star(0, 1)}),
            dayOfMonth |-> FieldValues({Star(1, 2)}), month |-> FieldValues({Star(1, 2)}),
            dayOfWeek |-> FieldValues({Star(0, 1)})]

SomeCrons == {AnyCron}
AllKeys == Schedules \X (0..LastMinute)

(* A field of several ranges, one with a step that leaves its end out.     *)
ASSUME FieldExample ==
  FieldValues({[first |-> 0, last |-> 6, step |-> 4], Star(2, 3)}) = {0, 2, 3, 4}

(* The search finds the first match, from every minute, for every cron.    *)
NonEmpty(S) == SUBSET S \ {{}}
AllCrons == [minute : NonEmpty(0..1), hour : NonEmpty(0..1), dayOfMonth : NonEmpty(1..2),
             month : NonEmpty(1..2), dayOfWeek : NonEmpty(0..1)]

ASSUME SearchFindsFirstMatch ==
  \A cron \in AllCrons, from \in 0..23 :
    NextRunAfter(cron, from) = FirstMatchAfter(cron, from)
===============================================================================
