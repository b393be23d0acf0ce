------------------------------ MODULE Schedules ------------------------------
(***************************************************************************)
(* The rules that decide when something is to happen, without state: the   *)
(* keepalive window of an account (internal/storage/store.go), the Cron    *)
(* minute of a tick and the plan of the automatic redemption               *)
(* (internal/service/manager.go).                                          *)
(*                                                                         *)
(* Time is counted from the first second of the first day of a month, which*)
(* is also the first day of a week; a month and a week may be shorter than *)
(* the calendar's.                                                         *)
(***************************************************************************)
EXTENDS Integers, FiniteSets

CONSTANTS
  Minute,     \* seconds of a minute: 60
  DayMinutes, \* minutes of a day: 1440
  WeekDays,   \* days of a week: 7
  MonthDays   \* days of a month

ASSUME ClockAssumption ==
  /\ Minute \in Nat \ {0} /\ DayMinutes \in Nat \ {0}
  /\ WeekDays \in Nat \ {0} /\ MonthDays \in Nat \ {0}

MinuteOf(second) == second \div Minute
DayOf(second) == second \div (Minute * DayMinutes)
MinuteOfDay(second) == MinuteOf(second) % DayMinutes
Weekday(second) == (DayOf(second) % WeekDays) + 1
-----------------------------------------------------------------------------
(* The keepalive window: from minute "start" of each of the days "days" of *)
(* the week to minute "end", past midnight if the end is not later.        *)

Window == [start : 0..(DayMinutes - 1), end : 0..(DayMinutes - 1),
           days : SUBSET (1..WeekDays)]

(* No day chosen means every day.                                          *)
Selected(window, weekday) == window.days = {} \/ weekday \in window.days

AnyPrevious(weekday) == weekday
Previous(weekday) == IF weekday = 1 THEN WeekDays ELSE weekday - 1

KeepaliveActiveAt(window, weekday, minute) ==
  \/ /\ window.start < window.end
     /\ Selected(window, weekday)
     /\ minute >= window.start /\ minute < window.end
  \/ /\ window.start > window.end
     /\ \/ minute >= window.start /\ Selected(window, weekday)
        \/ /\ minute < window.start /\ minute < window.end
           /\ Selected(window, Previous(weekday))

(* What the window means: it opens on the chosen days, and stays open for  *)
(* so many minutes.  An opening of yesterday was a day earlier.            *)
Length(window) ==
  IF window.start <= window.end THEN window.end - window.start
  ELSE DayMinutes - window.start + window.end
Covers(opening, window, minute) ==
  opening <= minute /\ minute < opening + Length(window)
Covered(window, weekday, minute) ==
  \/ Selected(window, weekday) /\ Covers(window.start, window, minute)
  \/ /\ Selected(window, IF weekday > 1 THEN weekday - 1 ELSE WeekDays)
     /\ Covers(window.start - DayMinutes, window, minute)
-----------------------------------------------------------------------------
(* Cron: a plan is a set of minutes of the day.  Next, of the cron library,*)
(* is the first second of the plan after a moment; a tick asks whether that*)
(* of 61 seconds ago has come, and names the claim after its own minute.   *)

Fires(plan, second) ==
  second % Minute = 0 /\ MinuteOfDay(second) \in plan

LookbackOne == 1
LookbackLong == 2 * Minute
Lookback == Minute + 1
CronDue(plan, now) ==
  \E second \in (now - Lookback + 1)..now : Fires(plan, second)
-----------------------------------------------------------------------------
(* redeemDue                                                               *)

DayOfMonth(day) == (day % MonthDays) + 1
LastDayOfMonth == -1

Plan == [type : {"daily"}]
        \cup [type : {"monthly"},
              days : SUBSET ((1..MonthDays) \cup {LastDayOfMonth}) \ {{}}]
        \cup [type : {"interval"}, every : 1..MonthDays]

(* The day an interval starts from is that of the last success; Never is   *)
(* no day.                                                                 *)
Never == -1

IntervalAlmostOver(plan, success, today) == today >= success + plan.every - 1
IntervalOver(plan, success, today) == today >= success + plan.every

OnPlan(plan, success, today) ==
  CASE plan.type = "daily" -> TRUE
    [] plan.type = "monthly" ->
         \/ DayOfMonth(today) \in plan.days
         \/ LastDayOfMonth \in plan.days /\ DayOfMonth(today) = MonthDays
    [] plan.type = "interval" ->
         success = Never \/ IntervalOver(plan, success, today)

RedeemDue(plan, ledger, today) ==
  /\ ledger.status # "pending" /\ ledger.attempt # today
  /\ OnPlan(plan, ledger.success, today)
=============================================================================
