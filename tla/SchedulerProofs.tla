-------------------------- MODULE SchedulerProofs --------------------------
(***************************************************************************)
(* Theorems about Scheduler for every length of a minute, a day, a week and*)
(* a month, every period of the ticks that is not longer than a minute, and*)
(* every plan.                                                             *)
(*                                                                         *)
(* The five properties do not depend on each other.  Each has an inductive *)
(* invariant: what a claim implies (Taken), which minutes are behind the   *)
(* latest tick (NotBehind), where a claim comes from (FromThePlan), what   *)
(* the latest comparison of the keepalive found (Compared), and how the    *)
(* ledger and the claim of the day bound the redemptions (LedgerDates,     *)
(* Redeemed).                                                              *)
(***************************************************************************)
EXTENDS Scheduler, TLAPS

(* Who is to start a task under a claim has not started it yet.            *)
Taken ==
  \A key \in Key :
    /\ starter[key] # "none" => key \in claims /\ started[key] = 0
    /\ started[key] > 0 => key \in claims /\ started[key] = 1

(* The claim of a minute is taken by the first tick of the minute.         *)
NotBehind ==
  on /\ ~maintenance /\ loop # "down" => \A key \in Key :
    key % DayMinutes \in CronPlan /\ calm <= key * Minute /\ key * Minute <= now
      => key \in claims

OfThePlan(key) ==
  \/ key % DayMinutes \in CronPlan
  \/ onTheMinute /\ (key - 1) % DayMinutes \in CronPlan
FromThePlan ==
  \A key \in Key :
    key \in claims \/ starter[key] # "none" \/ started[key] > 0 => OfThePlan(key)

Compared ==
  calm <= now /\ ~maintenance =>
    (kept <=> KeepaliveActiveAt(window, Weekday(now), MinuteOfDay(now)))

(* The date of an order is not in the future and not before an earlier one.*)
LedgerDates ==
  /\ ledger.success <= Today
  /\ ledger.status = "pending" =>
       ledger.attempt # Never /\ ledger.success <= ledger.attempt
                              /\ ledger.attempt <= Today
  /\ \A day \in succeeded : ledger.success # Never /\ day <= ledger.success

(* A day on which a redemption was started, or is about to be.             *)
OnTheDay(day) ==
  /\ day <= Today /\ day \in dayClaims
  /\ ledger.status = "pending" => ledger.attempt >= day
  /\ plan.type = "monthly" =>
       \/ DayOfMonth(day) \in plan.days
       \/ LastDayOfMonth \in plan.days /\ DayOfMonth(day) = MonthDays
  /\ plan.type = "interval" =>
       \A earlier \in succeeded : earlier < day => day - earlier >= plan.every
Redeemed ==
  /\ \A day \in Day : redeemed[day] > 0 => redeemed[day] = 1 /\ OnTheDay(day)
  /\ loop = "redeems" => redeemed[Today] = 0 /\ OnTheDay(Today)
-----------------------------------------------------------------------------
(* Arithmetic                                                              *)

LEMMA DivisionBounds ==
  ASSUME NEW n \in Int, NEW m \in Nat \ {0}
  PROVE  /\ n \div m \in Int /\ n % m \in 0..(m - 1)
         /\ m * (n \div m) <= n /\ n < m * (n \div m) + m
  <1>1. n \div m \in Int
    OBVIOUS
  <1>2. n % m \in 0..(m - 1)
    OBVIOUS
  <1>3. m * (n \div m) <= n
    OBVIOUS
  <1>4. n < m * (n \div m) + m
    OBVIOUS
  <1>5. QED
    BY <1>1, <1>2, <1>3, <1>4

LEMMA DivisionBelow ==
  ASSUME NEW n \in Nat, NEW m \in Nat \ {0}, NEW k \in Nat, n < k * m
  PROVE  n \div m \in 0..(k - 1)
  OBVIOUS

LEMMA DivisionIs ==
  ASSUME NEW n \in Int, NEW m \in Nat \ {0}, NEW k \in Int,
         n >= k * m, n < (k + 1) * m
  PROVE  n \div m = k
  OBVIOUS

LEMMA DivisionOfMultiple ==
  ASSUME NEW k \in Int, NEW m \in Nat \ {0}
  PROVE  (k * m) \div m = k /\ (k * m) % m = 0
  OBVIOUS

LEMMA DivisionGrows ==
  ASSUME NEW n \in Int, NEW l \in Int, NEW m \in Nat \ {0}, n <= l
  PROVE  n \div m <= l \div m
  <1>1. CASE l \div m < n \div m
    <2>1. /\ n \div m \in Int /\ l \div m \in Int
          /\ m * (n \div m) <= n /\ l < m * (l \div m) + m
      BY DivisionBounds
    <2>2. m * (l \div m) + m <= m * (n \div m)
      BY <1>1, <2>1
    <2>3. QED
      BY <2>1, <2>2
  <1>2. CASE ~(l \div m < n \div m)
    BY <1>2
  <1>3. QED
    BY <1>1, <1>2
-----------------------------------------------------------------------------
(* The clock                                                               *)

LEMMA ClockTypes ==
  ASSUME NEW second \in 0..(End - 1)
  PROVE  /\ MinuteOf(second) \in Key /\ DayOf(second) \in Day
         /\ MinuteOfDay(second) \in 0..(DayMinutes - 1)
         /\ Weekday(second) \in 1..WeekDays
  <1>1. /\ second \in Nat /\ Minute \in Nat \ {0} /\ DayMinutes \in Nat \ {0}
        /\ WeekDays \in Nat \ {0} /\ Days \in Nat \ {0}
    BY ClockAssumption, SchedulerAssumption DEF End
  <1>2. MinuteOf(second) \in Key
    <2>1. Days * DayMinutes \in Nat
      BY <1>1
    <2>2. second < (Days * DayMinutes) * Minute
      BY <1>1, <2>1 DEF End
    <2>3. QED
      BY <1>1, <2>1, <2>2, DivisionBelow DEF MinuteOf, Key
  <1>3. DayOf(second) \in Day
    <2>1. Minute * DayMinutes \in Nat \ {0}
      BY <1>1
    <2>2. second < Days * (Minute * DayMinutes)
      BY <1>1 DEF End
    <2>3. QED
      BY <1>1, <2>1, <2>2, DivisionBelow DEF DayOf, Day
  <1>4. MinuteOfDay(second) \in 0..(DayMinutes - 1)
    BY <1>1, <1>2, DivisionBounds DEF MinuteOfDay, Key
  <1>5. Weekday(second) \in 1..WeekDays
    <2>1. DayOf(second) % WeekDays \in 0..(WeekDays - 1)
      BY <1>1, <1>3, DivisionBounds DEF Day
    <2>2. QED
      BY <1>1, <2>1 DEF Weekday
  <1>6. QED
    BY <1>2, <1>3, <1>4, <1>5

LEMMA DaysGrow ==
  ASSUME NEW n \in Int, NEW l \in Int, n <= l
  PROVE  DayOf(n) <= DayOf(l)
  <1>1. Minute * DayMinutes \in Nat \ {0}
    BY ClockAssumption
  <1>2. QED
    BY <1>1, DivisionGrows DEF DayOf
-----------------------------------------------------------------------------
(* The rules                                                               *)

(* The test of a single moment finds exactly the minutes that an opening of*)
(* today or yesterday covers, for every window (store.go:46-71).           *)
THEOREM WindowRule ==
  ASSUME NEW w \in Window, NEW weekday \in 1..WeekDays,
         NEW minute \in 0..(DayMinutes - 1)
  PROVE  KeepaliveActiveAt(w, weekday, minute) <=> Covered(w, weekday, minute)
  <1>1. w.start \in 0..(DayMinutes - 1) /\ w.end \in 0..(DayMinutes - 1)
    BY DEF Window
  <1>2. DayMinutes \in Nat /\ WeekDays \in Nat
    BY ClockAssumption
  <1>3. Previous(weekday) = IF weekday > 1 THEN weekday - 1 ELSE WeekDays
    BY <1>2 DEF Previous
  <1> DEFINE yesterday == Selected(w, Previous(weekday))
  <1>4. Covered(w, weekday, minute) <=>
          \/ Selected(w, weekday) /\ Covers(w.start, w, minute)
          \/ yesterday /\ Covers(w.start - DayMinutes, w, minute)
    BY <1>3 DEF Covered
  <1>5. Covers(w.start, w, minute) <=>
          /\ w.start # w.end /\ minute >= w.start
          /\ w.start < w.end => minute < w.end
    BY <1>1, <1>2 DEF Covers, Length
  <1>6. Covers(w.start - DayMinutes, w, minute) <=>
          w.start > w.end /\ minute < w.end
    BY <1>1, <1>2 DEF Covers, Length
  <1>7. KeepaliveActiveAt(w, weekday, minute) <=>
          \/ /\ w.start < w.end /\ Selected(w, weekday)
             /\ minute >= w.start /\ minute < w.end
          \/ /\ w.start > w.end
             /\ \/ minute >= w.start /\ Selected(w, weekday)
                \/ minute < w.start /\ minute < w.end /\ yesterday
    BY DEF KeepaliveActiveAt
  <1> HIDE DEF yesterday
  <1>8. QED
    BY <1>1, <1>2, <1>4, <1>5, <1>6, <1>7

(* The first second of a minute of the plan is due until the next minute   *)
(* begins (manager.go:1901-1906).                                          *)
LEMMA DueInItsMinute ==
  ASSUME NEW key \in Key, key % DayMinutes \in CronPlan, NEW moment \in Nat,
         MinuteOf(moment) = key
  PROVE  CronDue(CronPlan, moment)
  <1>1. Minute \in Nat \ {0} /\ DayMinutes \in Nat \ {0} /\ key \in Int
    BY ClockAssumption DEF Key
  <1>2. key * Minute \in Int
    BY <1>1
  <1>3. Minute * key <= moment /\ moment < Minute * key + Minute
    <2>1. moment \in Int /\ moment \div Minute = key
      BY DEF MinuteOf
    <2>2. /\ Minute * (moment \div Minute) <= moment
          /\ moment < Minute * (moment \div Minute) + Minute
      BY <1>1, <2>1, DivisionBounds
    <2>3. QED
      BY <2>1, <2>2
  <1>4. Minute * key = key * Minute
    BY <1>1
  <1>5. key * Minute \in (moment - Lookback + 1)..moment
    BY <1>1, <1>2, <1>3, <1>4 DEF Lookback
  <1>6. Fires(CronPlan, key * Minute)
    BY <1>1, DivisionOfMultiple DEF Fires, MinuteOfDay, MinuteOf
  <1>7. QED
    BY <1>5, <1>6 DEF CronDue

(* What is due at a tick belongs to its minute, or to the one before and   *)
(* the tick comes on the first second.                                     *)
LEMMA DueIsOfThePlan ==
  ASSUME NEW moment \in Nat, CronDue(CronPlan, moment)
  PROVE  \/ MinuteOf(moment) % DayMinutes \in CronPlan
         \/ /\ moment % Minute = 0
            /\ (MinuteOf(moment) - 1) % DayMinutes \in CronPlan
  <1>1. Minute \in Nat \ {0} /\ DayMinutes \in Nat \ {0}
    BY ClockAssumption
  <1>2. PICK second \in (moment - Minute)..moment : Fires(CronPlan, second)
    <2>1. (moment - Lookback + 1)..moment = (moment - Minute)..moment
      BY <1>1 DEF Lookback
    <2>2. QED
      BY <2>1 DEF CronDue
  <1> DEFINE k == MinuteOf(moment)
             j == MinuteOf(second)
  <1>3. second \in Int /\ second % Minute = 0 /\ j % DayMinutes \in CronPlan
    BY <1>1, <1>2 DEF Fires, MinuteOfDay
  <1>4. /\ k \in Int /\ j \in Int
        /\ Minute * k <= moment /\ moment < Minute * k + Minute
    <2>1. moment \in Int
      OBVIOUS
    <2>2. k \in Int /\ Minute * k <= moment /\ moment < Minute * k + Minute
      <3>1. /\ moment \div Minute \in Int
            /\ Minute * (moment \div Minute) <= moment
            /\ moment < Minute * (moment \div Minute) + Minute
        BY <1>1, <2>1, DivisionBounds
      <3>2. QED
        BY <3>1 DEF MinuteOf
    <2>3. j \in Int
      BY <1>1, <1>3, DivisionBounds DEF MinuteOf
    <2>4. QED
      BY <2>2, <2>3
  <1>5. second = Minute * j
    <2>1. second % Minute = second - Minute * (second \div Minute)
      BY <1>1, <1>3
    <2>2. second \div Minute \in Int
      BY <1>1, <1>3
    <2>3. QED
      BY <1>1, <1>3, <2>1, <2>2 DEF MinuteOf
  <1>6. moment - Minute <= Minute * j /\ Minute * j <= moment
    BY <1>1, <1>2, <1>5
  <1> HIDE DEF k, j
  <1>7. j <= k
    <2>1. CASE j > k
      <3>1. Minute * k + Minute <= Minute * j
        BY <1>1, <1>4, <2>1
      <3>2. QED
        BY <1>1, <1>4, <1>6, <3>1
    <2>2. QED
      BY <1>4, <2>1
  <1>8. j >= k - 1
    <2>1. CASE j < k - 1
      <3>1. Minute * j + Minute < Minute * k
        BY <1>1, <1>4, <2>1
      <3>2. QED
        BY <1>1, <1>4, <1>6, <3>1
    <2>2. QED
      BY <1>4, <2>1
  <1>9. CASE j = k
    BY <1>3, <1>9 DEF k
  <1>10. CASE j = k - 1
    <2>1. Minute * j = Minute * k - Minute
      BY <1>1, <1>4, <1>10
    <2>2. Minute * k \in Int
      BY <1>1, <1>4
    <2>3. moment = Minute * k
      BY <1>1, <1>4, <1>6, <2>1, <2>2
    <2>4. moment % Minute = 0
      BY <1>1, <1>4, <2>3, DivisionOfMultiple
    <2>5. QED
      BY <1>3, <1>10, <2>4 DEF k
  <1>11. QED
    BY <1>4, <1>7, <1>8, <1>9, <1>10

(* On a day of its plan a redemption keeps the distance of an interval from*)
(* every earlier success (manager.go:1944-1966).                           *)
LEMMA PlanRule ==
  ASSUME NEW p \in Plan, NEW success, NEW day, OnPlan(p, success, day)
  PROVE  /\ p.type = "monthly" =>
              \/ DayOfMonth(day) \in p.days
              \/ LastDayOfMonth \in p.days /\ DayOfMonth(day) = MonthDays
         /\ p.type = "interval" =>
              success = Never \/ day >= success + p.every
  BY DEF OnPlan, IntervalOver, Plan
-----------------------------------------------------------------------------
(* Types                                                                   *)

LEMMA InitTypes == Init => TypeOK
  <1> SUFFICES ASSUME Init PROVE TypeOK
    OBVIOUS
  <1>1. /\ Minute \in Nat \ {0} /\ DayMinutes \in Nat \ {0}
        /\ Days \in Nat \ {0} /\ Every \in 1..Minute /\ MaxUpsets \in Nat
    BY ClockAssumption, SchedulerAssumption
  <1>2. now \in 0..(End - 1)
    <2>1. Days * DayMinutes \in Nat \ {0}
      BY <1>1
    <2>2. Minute <= (Days * DayMinutes) * Minute /\ End \in Int
      BY <1>1, <2>1 DEF End
    <2>3. now \in 0..(Every - 1)
      BY DEF Init
    <2>4. QED
      BY <1>1, <2>2, <2>3 DEF End
  <1>3. calm \in Nat
    <2>1. now \in 0..(Every - 1) /\ calm = now + Every
      BY DEF Init
    <2>2. QED
      BY <1>1, <2>1
  <1>4. NoWindow \in Window
    BY <1>1 DEF NoWindow, Window
  <1>5. plan \in Plan \cup {NoPlan} /\ window \in Window
    BY <1>4 DEF Init
  <1>6. ledger \in [status : {"", "pending", "success", "failed"},
                    attempt : {Never} \cup Day, success : {Never} \cup Day]
    BY DEF Init
  <1>7. /\ starter \in [Key -> {"none", "asks", "starts"}]
        /\ started \in [Key -> Nat] /\ redeemed \in [Day -> Nat]
    BY DEF Init
  <1>8. /\ loop = "waits" /\ on \in BOOLEAN /\ maintenance = FALSE
        /\ claims = {} /\ busy = FALSE /\ credited = FALSE
        /\ kept = FALSE /\ dayClaims = {} /\ succeeded = {}
        /\ onTheMinute = FALSE /\ upsets = 0
    BY DEF Init
  <1>9. /\ loop \in {"waits", "redeems", "down"}
        /\ maintenance \in BOOLEAN /\ busy \in BOOLEAN /\ credited \in BOOLEAN
        /\ kept \in BOOLEAN /\ onTheMinute \in BOOLEAN
        /\ claims \subseteq Key /\ dayClaims \subseteq Day /\ succeeded \subseteq Day
    BY <1>8
  <1>10. upsets \in 0..MaxUpsets
    BY <1>1, <1>8
  <1>11. QED
    BY <1>2, <1>3, <1>5, <1>6, <1>7, <1>8, <1>9, <1>10 DEF TypeOK

LEMMA NowIsNatural ==
  ASSUME TypeOK
  PROVE  now \in Nat /\ now \in 0..(End - 1) /\ now < End /\ End \in Nat
  <1>1. End \in Int
    BY ClockAssumption, SchedulerAssumption DEF End
  <1>2. now \in 0..(End - 1)
    BY DEF TypeOK
  <1>3. QED
    BY <1>1, <1>2

LEMMA ClockMoves ==
  ASSUME TypeOK, now' \in Nat, now <= now', now' < End
  PROVE  /\ now' \in 0..(End - 1) /\ Today <= Today' /\ Today \in Day /\ Today' \in Day
         /\ MinuteOf(now') \in Key
  <1>1. now' \in 0..(End - 1) /\ now \in 0..(End - 1)
    BY NowIsNatural
  <1>2. QED
    BY <1>1, ClockTypes, DaysGrow DEF Today

LEMMA TickTypes ==
  ASSUME TypeOK, Tick
  PROVE  TypeOK'
  <1>1. now' \in Nat /\ now <= now' /\ now' < End
    <2>1. Every \in Nat
      BY SchedulerAssumption, ClockAssumption
    <2>2. now \in Nat
      BY NowIsNatural
    <2>3. now' = now + Every /\ now' < End
      BY DEF Tick
    <2>4. QED
      BY <2>1, <2>2, <2>3
  <1>2. now' \in 0..(End - 1) /\ MinuteOf(now') \in Key /\ DayOf(now') \in Day
    BY <1>1, ClockMoves DEF Today
  <1>3. /\ claims' \subseteq Key
        /\ starter' \in [Key -> {"none", "asks", "starts"}]
    BY <1>2 DEF Tick, TakeMinute, TypeOK
  <1>4. dayClaims' \subseteq Day /\ loop' \in {"waits", "redeems", "down"}
    BY <1>2 DEF Tick, TakeDay, TypeOK
  <1>5. kept' \in BOOLEAN
    BY DEF Tick, Reconcile, TypeOK, KeepaliveActiveAt
  <1>6. credited' \in BOOLEAN /\ onTheMinute' \in BOOLEAN
    BY DEF Tick, NewDay, TypeOK
  <1>7. UNCHANGED <<maintenance, on, busy, started, plan, ledger, redeemed,
                    succeeded, window, upsets, calm>>
    BY DEF Tick, NoUpset
  <1>8. QED
    BY <1>2, <1>3, <1>4, <1>5, <1>6, <1>7 DEF TypeOK

LEMMA UpsetTypes ==
  ASSUME TypeOK, Upset
  PROVE  calm' \in Nat /\ upsets' \in 0..MaxUpsets
  <1>1. now \in Nat /\ upsets \in 0..MaxUpsets /\ MaxUpsets \in Nat
    BY NowIsNatural, SchedulerAssumption DEF TypeOK
  <1>2. upsets < MaxUpsets /\ upsets' = upsets + 1 /\ calm' = now + 1
    BY DEF Upset
  <1>3. QED
    BY <1>1, <1>2

LEMMA OtherTypes ==
  ASSUME TypeOK, ledger.status = "pending" => ledger.attempt # Never,
         \/ StartRedeem \/ \E k \in Key : Ask(k) \/ StartTask(k)
         \/ RunTask \/ EndTask \/ Order \/ Settle
         \/ Switch \/ Maintain \/ LoseTick \/ Crash \/ Restart
  PROVE  TypeOK'
  <1>1. now \in Nat /\ Today \in Day /\ MaxUpsets \in Nat /\ Every \in Nat \ {0}
    BY NowIsNatural, ClockTypes, SchedulerAssumption, ClockAssumption DEF Today
  <1>2. CASE StartRedeem
    <2>1. dayClaims' \subseteq Day
      BY <1>2 DEF StartRedeem, TypeOK
    <2>2. redeemed' \in [Day -> Nat]
      <3>1. redeemed \in [Day -> Nat]
        BY DEF TypeOK
      <3>2. redeemed' = redeemed \/ redeemed' = [redeemed EXCEPT ![Today] = @ + 1]
        BY <1>2 DEF StartRedeem
      <3>3. QED
        BY <1>1, <3>1, <3>2
    <2>3. /\ loop' = "waits"
          /\ UNCHANGED <<now, maintenance, onTheMinute, plan, ledger, succeeded,
                         tasks, keepalive, upsets, calm>>
      BY <1>2 DEF StartRedeem, NoUpset
    <2>4. QED
      BY <2>1, <2>2, <2>3 DEF TypeOK, tasks, keepalive
  <1>3. ASSUME NEW k \in Key, Ask(k)
        PROVE  TypeOK'
    <2>1. starter' \in [Key -> {"none", "asks", "starts"}]
      BY <1>3 DEF Ask, TypeOK
    <2>2. UNCHANGED <<claims, busy, started, upsets, calm>>
      BY <1>3 DEF Ask, NoUpset
    <2>3. UNCHANGED <<now, loop, maintenance, onTheMinute, on, credited,
                      redemption, keepalive>>
      BY <1>3 DEF Ask, StarterOnly
    <2>4. QED
      BY <2>1, <2>2, <2>3, ZenonT(60) DEF TypeOK, redemption, keepalive
  <1>4. ASSUME NEW k \in Key, StartTask(k)
        PROVE  TypeOK'
    <2>1. starter' \in [Key -> {"none", "asks", "starts"}]
      BY <1>4 DEF StartTask, TypeOK
    <2>2. claims' \subseteq Key
      <3>1. claims \subseteq Key
        BY DEF TypeOK
      <3>2. claims' = claims \/ claims' = claims \ {k}
        BY <1>4 DEF StartTask
      <3>3. QED
        BY <3>1, <3>2
    <2>2a. started' \in [Key -> Nat]
      <3>1. started \in [Key -> Nat]
        BY DEF TypeOK
      <3>2. started' = started \/ started' = [started EXCEPT ![k] = @ + 1]
        BY <1>4 DEF StartTask
      <3>3. QED
        BY <3>1, <3>2
    <2>3. busy' \in BOOLEAN
      <3>1. busy \in BOOLEAN
        BY DEF TypeOK
      <3>2. busy' = TRUE \/ busy' = busy
        BY <1>4 DEF StartTask
      <3>3. QED
        BY <3>1, <3>2
    <2>4. calm' \in Nat /\ upsets' \in 0..MaxUpsets
      <3>1. \/ upsets < MaxUpsets /\ upsets' = upsets + 1 /\ calm' = now + 1
            \/ upsets' = upsets /\ calm' = calm
            \/ upsets' = upsets /\ calm' = now + 1
        BY <1>4 DEF StartTask, NoUpset, Upset
      <3>2. calm \in Nat /\ upsets \in 0..MaxUpsets
        BY DEF TypeOK
      <3>3. QED
        BY <1>1, <3>1, <3>2
    <2>5. UNCHANGED <<now, loop, maintenance, onTheMinute, on, credited,
                      redemption, keepalive>>
      BY <1>4 DEF StartTask, StarterOnly
    <2>6. QED
      BY <2>1, <2>2, <2>2a, <2>3, <2>4, <2>5 DEF TypeOK, redemption, keepalive
  <1>5. CASE RunTask \/ EndTask
    <2>1. busy' \in BOOLEAN /\ credited' \in BOOLEAN
      BY <1>5 DEF RunTask, EndTask, TypeOK
    <2>2. UNCHANGED <<now, loop, onTheMinute, claims, starter, started,
                      keepalive, maintenance, on, redemption, upsets, calm>>
      BY <1>5 DEF RunTask, EndTask, Outside, NoUpset
    <2>3. QED
      BY <2>1, <2>2 DEF TypeOK, redemption, keepalive
  <1>6. CASE Order \/ Settle
    <2>1. /\ ledger' \in [status : {"", "pending", "success", "failed"},
                          attempt : {Never} \cup Day, success : {Never} \cup Day]
      <3>1. ledger \in [status : {"", "pending", "success", "failed"},
                        attempt : {Never} \cup Day, success : {Never} \cup Day]
        BY DEF TypeOK
      <3>2. \/ ledger' = [ledger EXCEPT !.status = "pending", !.attempt = Today]
            \/ ledger' = [ledger EXCEPT !.status = "failed"]
            \/ ledger' = [ledger EXCEPT !.status = "success",
                                        !.success = ledger.attempt]
        BY <1>6 DEF Order, Settle
      <3>3. QED
        BY <1>1, <3>1, <3>2
    <2>2. UNCHANGED <<now, loop, onTheMinute, claims, starter, started,
                      keepalive, maintenance, on, plan, dayClaims, redeemed,
                      busy, credited, upsets, calm>>
      BY <1>6 DEF Order, Settle, Outside, NoUpset
    <2>3. succeeded' \subseteq Day
      <3>1. succeeded \subseteq Day /\ ledger.attempt \in Day \cup {Never}
        BY DEF TypeOK
      <3>2. \/ succeeded' = succeeded
            \/ /\ succeeded' = succeeded \cup {ledger.attempt}
               /\ ledger.status = "pending"
        BY <1>6 DEF Order, Settle
      <3>3. QED
        BY <3>1, <3>2
    <2>4. QED
      BY <2>1, <2>2, <2>3 DEF TypeOK, keepalive
  <1>7. CASE Switch \/ Maintain
    <2>1. calm' \in Nat /\ upsets' \in 0..MaxUpsets
      BY <1>7, UpsetTypes DEF Switch, Maintain
    <2>2. on' \in BOOLEAN /\ maintenance' \in BOOLEAN
      BY <1>7 DEF Switch, Maintain, TypeOK
    <2>3. UNCHANGED <<now, loop, onTheMinute, claims, starter, started,
                      keepalive, busy, credited, redemption>>
      BY <1>7 DEF Switch, Maintain, Outside
    <2>4. QED
      BY <2>1, <2>2, <2>3 DEF TypeOK, redemption, keepalive
  <1>8. CASE LoseTick
    <2>1. now' \in Nat /\ now <= now' /\ now' < End
      BY <1>1, <1>8 DEF LoseTick
    <2>2. now' \in 0..(End - 1) /\ calm' \in Nat
      BY <1>8, <2>1, ClockMoves DEF LoseTick
    <2>3. upsets' \in 0..MaxUpsets
      <3>1. upsets \in 0..MaxUpsets
        BY DEF TypeOK
      <3>2. upsets < MaxUpsets /\ upsets' = upsets + 1
        BY <1>8 DEF LoseTick
      <3>3. QED
        BY <1>1, <3>1, <3>2
    <2>4. credited' \in BOOLEAN
      BY <1>8 DEF LoseTick, NewDay, TypeOK
    <2>5. UNCHANGED <<loop, maintenance, onTheMinute, on, claims, starter, busy,
                      started, redemption, keepalive>>
      BY <1>8 DEF LoseTick
    <2>6. QED
      BY <2>2, <2>3, <2>4, <2>5 DEF TypeOK, redemption, keepalive
  <1>9. CASE Crash
    <2>1. calm' \in Nat /\ upsets' \in 0..MaxUpsets
      BY <1>9, UpsetTypes DEF Crash
    <2>2. /\ loop' = "down" /\ starter' \in [Key -> {"none", "asks", "starts"}]
          /\ busy' = FALSE /\ maintenance' = FALSE /\ kept' = FALSE
      BY <1>9 DEF Crash
    <2>3. UNCHANGED <<now, onTheMinute, on, claims, credited, started,
                      redemption, window>>
      BY <1>9 DEF Crash
    <2>4. busy' \in BOOLEAN /\ maintenance' \in BOOLEAN /\ kept' \in BOOLEAN
      BY <2>2
    <2>5. QED
      BY <2>1, <2>2, <2>3, <2>4 DEF TypeOK, redemption
  <1>10. CASE Restart
    <2>1. PICK later \in 0..(Every - 1) :
            now + later < End /\ now' = now + later /\ calm' = now + later + Every
      BY <1>10 DEF Restart
    <2>2. now' \in Nat /\ now <= now' /\ now' < End /\ calm' \in Nat
      BY <1>1, <2>1
    <2>3. now' \in 0..(End - 1)
      BY <2>2, ClockMoves
    <2>4. credited' \in BOOLEAN
      BY <1>10 DEF Restart, NewDay, TypeOK
    <2>5. /\ loop' = "waits"
          /\ UNCHANGED <<maintenance, onTheMinute, upsets, on, claims, starter,
                         busy, started, redemption, keepalive>>
      BY <1>10 DEF Restart
    <2>6. QED
      BY <2>2, <2>3, <2>4, <2>5 DEF TypeOK, redemption, keepalive
  <1>11. QED
    BY <1>2, <1>3, <1>4, <1>5, <1>6, <1>7, <1>8, <1>9, <1>10

LEMMA TimeGrows ==
  ASSUME TypeOK, Next
  PROVE  now' \in Int /\ now <= now' /\ Today <= Today'
  <1>1. now \in Nat /\ Every \in Nat
    BY NowIsNatural, SchedulerAssumption, ClockAssumption
  <1>2. \/ now' = now
        \/ now' = now + Every
        \/ \E later \in 0..(Every - 1) : now' = now + later
    BY DEF Next, Tick, StartRedeem, Ask, StartTask, StarterOnly, RunTask, EndTask,
           Order, Settle, Switch, Maintain, Outside, LoseTick, Crash, Restart
  <1>3. now' \in Int /\ now <= now'
    BY <1>1, <1>2
  <1>4. QED
    BY <1>1, <1>3, DaysGrow DEF Today

LEMMA LedgerDatesStep ==
  ASSUME TypeOK, LedgerDates, Next
  PROVE  LedgerDates'
  <1>1. /\ Today \in Int /\ Today' \in Int /\ Today <= Today' /\ Never = -1
        /\ Today # Never
    <2>1. Today \in Int /\ Today # -1
      BY NowIsNatural, ClockTypes DEF Today, Day
    <2>2. Today' \in Int
      BY TimeGrows, ClockAssumption, DivisionBounds DEF Today, DayOf
    <2>3. QED
      BY <2>1, <2>2, TimeGrows DEF Never
  <1>2. ledger \in [status : {"", "pending", "success", "failed"},
                    attempt : {Never} \cup Day, success : {Never} \cup Day]
    BY DEF TypeOK
  <1>3. /\ ledger.success \in Int /\ ledger.attempt \in Int
        /\ \A day \in succeeded : day \in Int
    <2>1. Day \subseteq Int /\ Never \in Int
      BY DEF Day, Never
    <2>2. succeeded \subseteq Day
      BY DEF TypeOK
    <2>3. QED
      BY <1>2, <2>1, <2>2
  <1>4. CASE Order
    <2>1. /\ ledger' = [ledger EXCEPT !.status = "pending", !.attempt = Today]
          /\ succeeded' = succeeded /\ now' = now
      BY <1>4 DEF Order, Outside
    <2>2. ledger'.success = ledger.success /\ ledger'.attempt = Today
      BY <1>2, <2>1
    <2>3. Today' = Today
      BY <2>1 DEF Today
    <2>4. QED
      BY <1>1, <1>3, <2>1, <2>2, <2>3 DEF LedgerDates
  <1>5. CASE Settle
    <2>1. now' = now /\ Today' = Today /\ ledger.status = "pending"
      BY <1>5 DEF Settle, Outside, Today
    <2>2. CASE ledger' = [ledger EXCEPT !.status = "failed"] /\ UNCHANGED succeeded
      <3>1. ledger'.status = "failed" /\ ledger'.success = ledger.success
        BY <1>2, <2>2
      <3>2. QED
        BY <2>1, <2>2, <3>1 DEF LedgerDates
    <2>3. CASE /\ ledger' = [ledger EXCEPT !.status = "success",
                                           !.success = ledger.attempt]
               /\ succeeded' = succeeded \cup {ledger.attempt}
      <3>1. ledger'.status = "success" /\ ledger'.success = ledger.attempt
        BY <1>2, <2>3
      <3>2. /\ ledger.attempt # Never /\ ledger.success <= ledger.attempt
            /\ ledger.attempt <= Today
        BY <2>1 DEF LedgerDates
      <3>3. \A day \in succeeded' : day <= ledger.attempt
        BY <1>3, <2>3, <3>2 DEF LedgerDates
      <3>4. QED
        BY <2>1, <3>1, <3>2, <3>3 DEF LedgerDates
    <2>4. QED
      BY <1>5, <2>2, <2>3 DEF Settle
  <1>6. CASE ~Order /\ ~Settle
    <2>1. UNCHANGED <<ledger, succeeded>>
      BY <1>6 DEF Next, Tick, StartRedeem, Ask, StartTask, StarterOnly, RunTask,
         EndTask, Switch, Maintain, LoseTick, Crash, Restart, redemption
    <2>2. QED
      BY <1>1, <1>3, <2>1 DEF LedgerDates
  <1>7. QED
    BY <1>4, <1>5, <1>6

LEMMA TypesInvariance == Spec => [](TypeOK /\ LedgerDates)
  <1>1. Init => TypeOK /\ LedgerDates
    <2>1. Init => LedgerDates
      <3>1. ASSUME Init PROVE -1 <= Today
        <4>1. TypeOK
          BY <3>1, InitTypes
        <4>2. QED
          BY <4>1, NowIsNatural, ClockTypes DEF Today, Day
      <3>2. ASSUME Init
            PROVE  /\ ledger.success = -1 /\ ledger.status # "pending"
                   /\ succeeded = {}
        BY <3>2 DEF Init, Never
      <3>3. QED
        BY <3>1, <3>2 DEF LedgerDates
    <2>2. QED
      BY <2>1, InitTypes
  <1>2. TypeOK /\ LedgerDates /\ [Next]_vars => (TypeOK /\ LedgerDates)'
    <2>1. ASSUME TypeOK, LedgerDates, Next PROVE (TypeOK /\ LedgerDates)'
      <3>1. ledger.status = "pending" => ledger.attempt # Never
        BY <2>1 DEF LedgerDates
      <3>2. TypeOK'
        <4>1. CASE Tick
          BY <2>1, <4>1, TickTypes
        <4>2. CASE ~Tick
          BY <2>1, <3>1, <4>2, OtherTypes DEF Next
        <4>3. QED
          BY <4>1, <4>2
      <3>3. QED
        BY <2>1, <3>2, LedgerDatesStep
    <2>2. ASSUME TypeOK, LedgerDates, UNCHANGED vars PROVE (TypeOK /\ LedgerDates)'
      BY <2>2, ZenonT(60) DEF TypeOK, LedgerDates, Today, vars, tasks, redemption, keepalive
    <2>3. QED
      BY <2>1, <2>2
  <1>3. QED
    BY <1>1, <1>2, PTL DEF Spec

(* The state of the scheduler stays within its types.                      *)
THEOREM TypeCorrect == Spec => []TypeOK
  <1>1. TypeOK /\ LedgerDates => TypeOK
    OBVIOUS
  <1>2. QED
    BY <1>1, TypesInvariance, PTL
-----------------------------------------------------------------------------
(* Claims and starts                                                       *)

LEMMA TakenStep ==
  ASSUME TypeOK, TypeOK', Taken, Next
  PROVE  Taken'
  <1>1. /\ starter \in [Key -> {"none", "asks", "starts"}]
        /\ started \in [Key -> Nat]
    BY DEF TypeOK
  <1>2. SUFFICES ASSUME NEW key \in Key
                 PROVE  /\ starter'[key] # "none" => key \in claims' /\ started'[key] = 0
                        /\ started'[key] > 0 => key \in claims' /\ started'[key] = 1
    BY DEF Taken
  <1>3. /\ starter[key] # "none" => key \in claims /\ started[key] = 0
        /\ started[key] > 0 => key \in claims /\ started[key] = 1
        /\ started[key] \in Nat
    BY <1>1 DEF Taken
  <1>4. CASE Tick
    <2>1. started' = started
      BY <1>4 DEF Tick
    <2>2. CASE UNCHANGED <<claims, starter>>
      BY <1>3, <2>1, <2>2
    <2>3. CASE TakeMinute(MinuteOf(now')) /\ ~UNCHANGED <<claims, starter>>
      <3>1. PICK k : /\ k \notin claims /\ claims' = claims \cup {k}
                     /\ starter' = [starter EXCEPT ![k] = "asks"]
        BY <2>3 DEF TakeMinute, Claims
      <3>2. CASE key = k
        BY <1>1, <1>3, <2>1, <3>1, <3>2
      <3>3. CASE key # k
        BY <1>1, <1>3, <2>1, <3>1, <3>3
      <3>4. QED
        BY <3>2, <3>3
    <2>4. QED
      BY <1>4, <2>2, <2>3 DEF Tick
  <1>5. ASSUME NEW k \in Key, Ask(k)
        PROVE  /\ starter'[key] # "none" => starter[key] # "none"
               /\ UNCHANGED <<claims, started>>
    BY <1>1, <1>5 DEF Ask
  <1>6. ASSUME NEW k \in Key, StartTask(k)
        PROVE  /\ starter'[key] # "none" => key \in claims' /\ started'[key] = 0
               /\ started'[key] > 0 => key \in claims' /\ started'[key] = 1
    <2>1. starter[k] = "starts" /\ starter' = [starter EXCEPT ![k] = "none"]
      BY <1>6 DEF StartTask
    <2>2. \/ started' = [started EXCEPT ![k] = @ + 1] /\ claims' = claims
          \/ started' = started /\ claims' = claims
          \/ started' = started /\ claims' = claims \ {k}
      BY <1>6 DEF StartTask
    <2>3. CASE key = k
      <3>1. key \in claims /\ started[key] = 0 /\ starter'[key] = "none"
        BY <1>1, <1>3, <2>1, <2>3
      <3>2. QED
        BY <1>1, <2>2, <2>3, <3>1
    <2>4. CASE key # k
      <3>1. starter'[key] = starter[key] /\ started'[key] = started[key]
        BY <1>1, <2>1, <2>2, <2>4
      <3>2. key \in claims' <=> key \in claims
        BY <2>2, <2>4
      <3>3. QED
        BY <1>3, <3>1, <3>2
    <2>5. QED
      BY <2>3, <2>4
  <1>7. CASE Crash
    <2>1. starter'[key] = "none" /\ UNCHANGED <<claims, started>>
      BY <1>7 DEF Crash
    <2>2. QED
      BY <1>3, <2>1
  <1>8. CASE ~Tick /\ ~(\E k \in Key : Ask(k) \/ StartTask(k)) /\ ~Crash
    <2>1. UNCHANGED <<claims, starter, started>>
      BY <1>8 DEF Next, StartRedeem, RunTask, EndTask, Order, Settle, Switch,
         Maintain, Outside, LoseTick, Restart, tasks
    <2>2. QED
      BY <1>3, <2>1
  <1>9. QED
    BY <1>3, <1>4, <1>5, <1>6, <1>7, <1>8

(* A claim starts its task at most once (manager.go:1907-1915).            *)
THEOREM StartsOnce == Spec => []OneStartPerClaim
  <1>1. Init => Taken
    <2>1. SUFFICES ASSUME Init, NEW key \in Key
                   PROVE  starter[key] = "none" /\ started[key] = 0
      BY DEF Taken
    <2>2. /\ starter = [k \in Key |-> "none"]
          /\ started = [k \in Key |-> 0]
      BY <2>1 DEF Init
    <2>3. QED
      BY <2>2
  <1>2. TypeOK /\ TypeOK' /\ Taken /\ [Next]_vars => Taken'
    <2>1. ASSUME UNCHANGED vars, Taken PROVE Taken'
      BY <2>1 DEF vars, tasks, Taken
    <2>2. QED
      BY <2>1, TakenStep
  <1>3. TypeOK /\ Taken => OneStartPerClaim
    <2>1. TypeOK => \A key \in Key : started[key] \in Nat
      BY DEF TypeOK
    <2>2. QED
      BY <2>1 DEF Taken, OneStartPerClaim
  <1>4. QED
    BY <1>1, <1>2, <1>3, TypeCorrect, PTL DEF Spec
-----------------------------------------------------------------------------
(* Minutes                                                                 *)

(* A step other than a tick starts a new count, or leaves alone what the   *)
(* minutes behind it depend on.                                            *)
LEMMA OtherSteps ==
  ASSUME TypeOK, Next
  PROVE  \/ Tick
         \/ calm' > now'
         \/ /\ UNCHANGED <<now, on, maintenance, claims, calm, window, kept>>
            /\ loop' # "down" => loop # "down"
  <1>1. now \in Nat /\ Every \in Nat \ {0}
    BY NowIsNatural, SchedulerAssumption, ClockAssumption
  <1>2. ASSUME NEW k \in Key, Ask(k) \/ StartTask(k)
        PROVE  \/ calm' > now'
               \/ /\ UNCHANGED <<now, on, maintenance, claims, calm, window, kept>>
                  /\ loop' = loop
    <2>1. UNCHANGED <<now, on, maintenance, loop, window, kept>>
      BY <1>2 DEF Ask, StartTask, StarterOnly, keepalive
    <2>2. calm' = now + 1 \/ UNCHANGED <<claims, calm>>
      BY <1>2 DEF Ask, StartTask, NoUpset, Upset
    <2>3. QED
      BY <1>1, <2>1, <2>2
  <1>3. CASE RunTask \/ EndTask \/ Order \/ Settle
    BY <1>3 DEF RunTask, EndTask, Order, Settle, Outside, NoUpset, keepalive
  <1>4. CASE StartRedeem
    BY <1>4 DEF StartRedeem, NoUpset, tasks, keepalive
  <1>5. CASE Switch \/ Maintain \/ Crash
    <2>1. now' = now /\ calm' = now + 1
      BY <1>5 DEF Switch, Maintain, Crash, Upset, Outside
    <2>2. QED
      BY <1>1, <2>1
  <1>6. CASE LoseTick
    <2>1. now' = now + Every /\ calm' = now' + 1
      BY <1>6 DEF LoseTick
    <2>2. QED
      BY <1>1, <2>1
  <1>7. CASE Restart
    <2>1. PICK later \in 0..(Every - 1) :
            now' = now + later /\ calm' = now + later + Every
      BY <1>7 DEF Restart
    <2>2. QED
      BY <1>1, <2>1
  <1>8. QED
    BY <1>2, <1>3, <1>4, <1>5, <1>6, <1>7 DEF Next

LEMMA NotBehindStep ==
  ASSUME TypeOK, TypeOK', NotBehind, Next
  PROVE  NotBehind'
  <1>1. /\ now \in Nat /\ now' \in Nat /\ Minute \in Nat /\ Every \in 1..Minute
        /\ calm \in Nat /\ calm' \in Nat
    <2>1. now' \in Nat
      <3>1. End \in Int
        BY ClockAssumption, SchedulerAssumption DEF End
      <3>2. End' = End
        BY DEF End
      <3>3. now' \in 0..(End - 1)
        BY <3>2 DEF TypeOK
      <3>4. QED
        BY <3>1, <3>3
    <2>2. calm \in Nat /\ calm' \in Nat
      BY DEF TypeOK
    <2>3. QED
      BY <2>1, <2>2, NowIsNatural, SchedulerAssumption, ClockAssumption
  <1>2. SUFFICES ASSUME on', ~maintenance', loop' # "down", NEW key \in Key,
                        key % DayMinutes \in CronPlan,
                        calm' <= key * Minute, key * Minute <= now'
                 PROVE  key \in claims'
    BY DEF NotBehind
  <1>3. key * Minute \in Int
    BY <1>1 DEF Key
  <1>4. CASE Tick
    <2>1. /\ loop = "waits" /\ now' = now + Every /\ on /\ ~maintenance
          /\ calm <= key * Minute /\ TakeMinute(MinuteOf(now'))
      BY <1>2, <1>4 DEF Tick, NoUpset
    <2>2. claims \subseteq claims'
      BY <2>1 DEF TakeMinute
    <2>3. CASE key * Minute <= now
      <3>1. key \in claims
        BY <1>2, <2>1, <2>3 DEF NotBehind
      <3>2. QED
        BY <2>2, <3>1
    <2>4. CASE ~(key * Minute <= now)
      <3>1. now' >= key * Minute /\ now' < (key + 1) * Minute
        BY <1>1, <1>2, <1>3, <2>1, <2>4 DEF Key
      <3>2. MinuteOf(now') = key
        <4>1. key \in Int /\ now' \in Int
          BY <1>1 DEF Key
        <4>2. now' \div Minute = key
          BY <3>1, <4>1, DivisionIs, ClockAssumption
        <4>3. QED
          BY <4>2 DEF MinuteOf
      <3>3. CronDue(CronPlan, now')
        BY <1>1, <1>2, <3>2, DueInItsMinute
      <3>4. QED
        BY <2>1, <3>2, <3>3 DEF TakeMinute, Claims
    <2>5. QED
      BY <2>3, <2>4
  <1>5. CASE ~Tick
    <2>1. ~(calm' > now')
      BY <1>1, <1>2, <1>3
    <2>2. /\ UNCHANGED <<now, on, maintenance, claims, calm>>
          /\ loop # "down"
      BY <1>2, <1>5, <2>1, OtherSteps
    <2>3. on /\ ~maintenance /\ calm <= key * Minute /\ key * Minute <= now
      BY <1>2, <2>2
    <2>4. key \in claims
      BY <1>2, <2>2, <2>3 DEF NotBehind
    <2>5. QED
      BY <2>2, <2>4
  <1>6. QED
    BY <1>4, <1>5

(* No minute of the plan is passed over (manager.go:1901-1914).            *)
THEOREM NoMinuteIsMissed == Spec => []MinutesAreTaken
  <1>1. Init => NotBehind
    <2>1. SUFFICES ASSUME Init PROVE \A key \in Key :
                     ~(calm <= key * Minute /\ key * Minute <= now)
      BY DEF NotBehind
    <2>2. now \in Int /\ Every \in Nat \ {0} /\ calm = now + Every /\ Minute \in Nat
      <3>1. now \in 0..(Every - 1) /\ calm = now + Every
        BY <2>1 DEF Init
      <3>2. QED
        BY <3>1, ClockAssumption, SchedulerAssumption
    <2>3. \A key \in Key : key * Minute \in Int
      BY <2>2 DEF Key
    <2>4. QED
      BY <2>2, <2>3
  <1>2. TypeOK /\ TypeOK' /\ NotBehind /\ [Next]_vars => NotBehind'
    <2>1. ASSUME UNCHANGED vars, NotBehind PROVE NotBehind'
      BY <2>1, ZenonT(60) DEF vars, tasks, NotBehind
    <2>2. QED
      BY <2>1, NotBehindStep
  <1>3. TypeOK /\ NotBehind => MinutesAreTaken
    <2>1. SUFFICES ASSUME TypeOK, NotBehind, on, ~maintenance, loop # "down",
                          NEW key \in Key, key % DayMinutes \in CronPlan,
                          calm <= key * Minute, (key + 1) * Minute <= now
                   PROVE  key \in claims
      BY DEF MinutesAreTaken
    <2>2. /\ key * Minute \in Int /\ (key + 1) * Minute = key * Minute + Minute
          /\ now \in Nat /\ Minute \in Nat
      <3>1. key \in Int /\ Minute \in Nat
        BY ClockAssumption DEF Key
      <3>2. now \in Nat
        BY <2>1, NowIsNatural
      <3>3. QED
        BY <3>1, <3>2
    <2>3. key * Minute <= now
      BY <2>1, <2>2
    <2>4. QED
      BY <2>1, <2>3 DEF NotBehind
  <1>4. QED
    BY <1>1, <1>2, <1>3, TypeCorrect, PTL DEF Spec

LEMMA FromThePlanStep ==
  ASSUME TypeOK, TypeOK', FromThePlan, Next
  PROVE  FromThePlan'
  <1>1. /\ starter \in [Key -> {"none", "asks", "starts"}]
        /\ started \in [Key -> Nat]
    BY DEF TypeOK
  <1>2. SUFFICES ASSUME NEW key \in Key,
                        key \in claims' \/ starter'[key] # "none" \/ started'[key] > 0
                 PROVE  OfThePlan(key)'
    BY DEF FromThePlan
  <1>3. onTheMinute => onTheMinute'
    BY DEF Next, Tick, StartRedeem, Ask, StartTask, StarterOnly, RunTask, EndTask,
       Order, Settle, Switch, Maintain, Outside, LoseTick, Crash, Restart
  <1>4. CASE key \in claims \/ starter[key] # "none" \/ started[key] > 0
    <2>1. OfThePlan(key)
      BY <1>4 DEF FromThePlan
    <2>2. QED
      BY <1>3, <2>1 DEF OfThePlan
  <1>5. CASE ~(key \in claims \/ starter[key] # "none" \/ started[key] > 0)
    <2>1. ASSUME Tick PROVE OfThePlan(key)'
      <3>1. started' = started /\ TakeMinute(MinuteOf(now'))
        BY <2>1 DEF Tick
      <3>2. ~UNCHANGED <<claims, starter>>
        BY <1>2, <1>5, <3>1
      <3>3. /\ CronDue(CronPlan, now')
            /\ claims' = claims \cup {MinuteOf(now')}
            /\ starter' = [starter EXCEPT ![MinuteOf(now')] = "asks"]
        BY <3>1, <3>2 DEF TakeMinute
      <3>4. key = MinuteOf(now')
        BY <1>1, <1>2, <1>5, <3>1, <3>3
      <3>5. now' \in Nat
        <4>1. now \in Nat /\ Every \in Nat /\ now' = now + Every
          BY <2>1, NowIsNatural, SchedulerAssumption, ClockAssumption DEF Tick
        <4>2. QED
          BY <4>1
      <3>6. \/ key % DayMinutes \in CronPlan
            \/ now' % Minute = 0 /\ (key - 1) % DayMinutes \in CronPlan
        BY <3>3, <3>4, <3>5, DueIsOfThePlan
      <3>7. now' % Minute = 0 => onTheMinute'
        BY <2>1 DEF Tick
      <3>8. QED
        BY <3>6, <3>7 DEF OfThePlan
    <2>2. ASSUME NEW k \in Key, Ask(k) PROVE FALSE
      BY <1>1, <1>2, <1>5, <2>2 DEF Ask
    <2>3. ASSUME NEW k \in Key, StartTask(k) PROVE FALSE
      <3>1. /\ starter[k] = "starts" /\ starter' = [starter EXCEPT ![k] = "none"]
            /\ claims' \subseteq claims
            /\ started' = started \/ started' = [started EXCEPT ![k] = @ + 1]
        BY <2>3 DEF StartTask
      <3>2. key # k
        BY <1>5, <3>1
      <3>3. QED
        BY <1>1, <1>2, <1>5, <3>1, <3>2
    <2>4. ASSUME Crash PROVE FALSE
      BY <1>2, <1>5, <2>4 DEF Crash
    <2>5. CASE ~Tick /\ ~(\E k \in Key : Ask(k) \/ StartTask(k)) /\ ~Crash
      <3>1. UNCHANGED <<claims, starter, started>>
        BY <2>5 DEF Next, StartRedeem, RunTask, EndTask, Order, Settle, Switch,
           Maintain, Outside, LoseTick, Restart, tasks
      <3>2. QED
        BY <1>2, <1>5, <3>1
    <2>6. QED
      BY <2>1, <2>2, <2>3, <2>4, <2>5
  <1>6. QED
    BY <1>4, <1>5

(* The task starts in the minutes of its plan only, and in the minute after*)
(* one when a tick came on a first second (manager.go:1901-1914).          *)
THEOREM StartsAreOfThePlan == Spec => []StartsFollowTheCron
  <1>1. Init => FromThePlan
    <2>1. SUFFICES ASSUME Init, NEW key \in Key
                   PROVE  key \notin claims /\ starter[key] = "none"
                          /\ ~(started[key] > 0)
      BY DEF FromThePlan
    <2>2. /\ starter = [k \in Key |-> "none"] /\ claims = {}
          /\ started = [k \in Key |-> 0]
      BY <2>1 DEF Init
    <2>3. QED
      BY <2>2
  <1>2. TypeOK /\ TypeOK' /\ FromThePlan /\ [Next]_vars => FromThePlan'
    <2>1. ASSUME UNCHANGED vars, FromThePlan PROVE FromThePlan'
      BY <2>1 DEF vars, tasks, FromThePlan, OfThePlan
    <2>2. QED
      BY <2>1, FromThePlanStep
  <1>3. FromThePlan => StartsFollowTheCron
    BY DEF FromThePlan, OfThePlan, StartsFollowTheCron
  <1>4. QED
    BY <1>1, <1>2, <1>3, TypeCorrect, PTL DEF Spec
-----------------------------------------------------------------------------
(* The keepalive                                                           *)

LEMMA ComparedStep ==
  ASSUME TypeOK, TypeOK', Compared, Next
  PROVE  Compared'
  <1>1. CASE Tick
    BY <1>1 DEF Tick, Reconcile, Compared
  <1>2. CASE calm' > now'
    <2>1. now' \in Int /\ calm' \in Nat
      <3>1. calm' \in Nat
        BY DEF TypeOK
      <3>2. QED
        BY <3>1, TimeGrows
    <2>2. QED
      BY <1>2, <2>1 DEF Compared
  <1>3. CASE UNCHANGED <<now, maintenance, calm, window, kept>>
    BY <1>3, ZenonT(60) DEF Compared
  <1>4. QED
    BY <1>1, <1>2, <1>3, OtherSteps

(* Nothing but a disturbance keeps the keepalive from the minutes of its   *)
(* window (manager.go:1880, store.go:46-71).                               *)
THEOREM KeptInTheWindow == Spec => []WindowIsKept
  <1>1. Init => Compared
    <2>1. SUFFICES ASSUME Init PROVE ~(calm <= now)
      BY DEF Compared
    <2>2. now \in 0..(Every - 1) /\ calm = now + Every
      BY <2>1 DEF Init
    <2>3. QED
      BY <2>2, ClockAssumption, SchedulerAssumption
  <1>2. TypeOK /\ TypeOK' /\ Compared /\ [Next]_vars => Compared'
    <2>1. ASSUME UNCHANGED vars, Compared PROVE Compared'
      BY <2>1, ZenonT(60) DEF vars, keepalive, Compared
    <2>2. QED
      BY <2>1, ComparedStep
  <1>3. TypeOK /\ Compared => WindowIsKept
    <2>1. SUFFICES ASSUME TypeOK, Compared, ~maintenance, calm <= now
                   PROVE  kept <=> Covered(window, Weekday(now), MinuteOfDay(now))
      BY DEF WindowIsKept
    <2>2. kept <=> KeepaliveActiveAt(window, Weekday(now), MinuteOfDay(now))
      BY <2>1 DEF Compared
    <2>3. /\ window \in Window /\ Weekday(now) \in 1..WeekDays
          /\ MinuteOfDay(now) \in 0..(DayMinutes - 1)
      BY <2>1, NowIsNatural, ClockTypes DEF TypeOK
    <2>4. KeepaliveActiveAt(window, Weekday(now), MinuteOfDay(now))
            <=> Covered(window, Weekday(now), MinuteOfDay(now))
      BY <2>3, WindowRule
    <2>5. QED
      BY <2>2, <2>4
  <1>4. QED
    BY <1>1, <1>2, <1>3, TypeCorrect, PTL DEF Spec
-----------------------------------------------------------------------------
(* The redemption                                                          *)

(* A tick claims a day that is on the plan and has no redemption yet.      *)
LEMMA ClaimedDay ==
  ASSUME TypeOK, TypeOK', LedgerDates, Redeemed, Tick, TakeDay(DayOf(now')),
         loop' = "redeems"
  PROVE  redeemed[Today'] = 0 /\ OnTheDay(Today)'
  <1>1. /\ loop = "waits" /\ now' \in Int /\ now <= now'
        /\ UNCHANGED <<plan, ledger, redeemed, succeeded>>
    BY TimeGrows DEF Tick, Next
  <1>2. /\ plan # NoPlan /\ RedeemDue(plan, ledger, Today') /\ Today' \notin dayClaims
        /\ dayClaims' = dayClaims \cup {Today'}
    BY <1>1 DEF TakeDay, Today
  <1>3. Today' \in Day /\ Today \in Day /\ Today <= Today'
    <2>1. End' = End
      BY DEF End
    <2>2. now' \in 0..(End - 1)
      BY <2>1 DEF TypeOK
    <2>3. QED
      BY <1>1, <2>2, NowIsNatural, ClockTypes, DaysGrow DEF Today
  <1>4. redeemed[Today'] = 0
    <2>1. redeemed \in [Day -> Nat]
      BY DEF TypeOK
    <2>2. ~(redeemed[Today'] > 0)
      BY <1>2, <1>3 DEF Redeemed, OnTheDay
    <2>3. QED
      BY <1>3, <2>1, <2>2
  <1>5. plan \in Plan
    BY <1>2 DEF TypeOK
  <1>6. /\ ledger.status # "pending"
        /\ plan.type = "monthly" =>
             \/ DayOfMonth(Today') \in plan.days
             \/ LastDayOfMonth \in plan.days /\ DayOfMonth(Today') = MonthDays
        /\ plan.type = "interval" =>
             ledger.success = Never \/ Today' >= ledger.success + plan.every
    BY <1>2, <1>5, PlanRule DEF RedeemDue
  <1>7. plan.type = "interval" =>
          \A earlier \in succeeded : earlier < Today' => Today' - earlier >= plan.every
    <2>1. SUFFICES ASSUME plan.type = "interval", NEW earlier \in succeeded
                   PROVE  Today' - earlier >= plan.every
      OBVIOUS
    <2>2. ledger.success # Never /\ earlier <= ledger.success
      BY DEF LedgerDates
    <2>3. Today' >= ledger.success + plan.every
      BY <1>6, <2>1, <2>2
    <2>4. plan.every \in Int
      BY <1>5, <2>1 DEF Plan
    <2>5. Today' \in Int /\ earlier \in Int
      <3>1. succeeded \subseteq Day
        BY DEF TypeOK
      <3>2. QED
        BY <1>3, <3>1 DEF Day
    <2>6. ledger.success \in Int
      <3>1. ledger.success \in {Never} \cup Day
        BY DEF TypeOK
      <3>2. QED
        BY <3>1 DEF Never, Day
    <2>7. QED
      BY <2>2, <2>3, <2>4, <2>5, <2>6
  <1>8. Today' <= Today' /\ Today' \in dayClaims'
    BY <1>2, <1>3 DEF Day
  <1>9. OnTheDay(Today)'
    <2>1. ledger'.status # "pending"
      BY <1>1, <1>6
    <2>2. QED
      BY <1>1, <1>6, <1>7, <1>8, <2>1 DEF OnTheDay
  <1>10. QED
    BY <1>4, <1>9

(* An order is never older than a redemption of the scheduler, so that it  *)
(* cannot put a success before the redemption any more.                    *)
LEMMA OnTheDayStays ==
  ASSUME TypeOK, LedgerDates, Next, NEW day \in Day, OnTheDay(day), day \in dayClaims'
  PROVE  OnTheDay(day)'
  <1>1. /\ day <= Today /\ Today <= Today' /\ day \in Int /\ Today \in Int
        /\ Today' \in Int
    <2>1. Today' \in Int
      BY TimeGrows, ClockAssumption, DivisionBounds DEF Today, DayOf
    <2>2. Today \in Int
      BY NowIsNatural, ClockTypes DEF Today, Day
    <2>3. QED
      BY <2>1, <2>2, TimeGrows DEF OnTheDay, Day
  <1>2. day <= Today'
    BY <1>1
  <1>3. plan' = plan
    BY DEF Next, Tick, StartRedeem, Ask, StartTask, StarterOnly, RunTask, EndTask,
       Order, Settle, Switch, Maintain, LoseTick, Crash, Restart, redemption
  <1>4. ledger'.status = "pending" => ledger'.attempt >= day
    <2>1. ledger \in [status : {"", "pending", "success", "failed"},
                      attempt : {Never} \cup Day, success : {Never} \cup Day]
      BY DEF TypeOK
    <2>2. \/ ledger' = ledger
          \/ ledger' = [ledger EXCEPT !.status = "pending", !.attempt = Today]
          \/ ledger' = [ledger EXCEPT !.status = "failed"]
          \/ ledger' = [ledger EXCEPT !.status = "success",
                                      !.success = ledger.attempt]
      BY DEF Next, Tick, StartRedeem, Ask, StartTask, StarterOnly, RunTask, EndTask,
         Order, Settle, Switch, Maintain, LoseTick, Crash, Restart, redemption
    <2>3. CASE ledger' = ledger
      BY <2>3 DEF OnTheDay
    <2>4. CASE ledger' = [ledger EXCEPT !.status = "pending", !.attempt = Today]
      <3>1. ledger'.attempt = Today
        BY <2>1, <2>4
      <3>2. QED
        BY <1>1, <3>1
    <2>5. CASE \/ ledger' = [ledger EXCEPT !.status = "failed"]
               \/ ledger' = [ledger EXCEPT !.status = "success",
                                           !.success = ledger.attempt]
      <3>1. ledger'.status # "pending"
        BY <2>1, <2>5
      <3>2. QED
        BY <3>1
    <2>6. QED
      BY <2>2, <2>3, <2>4, <2>5
  <1>5. \A earlier \in succeeded' : earlier < day => earlier \in succeeded
    <2>1. \/ succeeded' = succeeded
          \/ ledger.status = "pending" /\ succeeded' = succeeded \cup {ledger.attempt}
      BY DEF Next, Tick, StartRedeem, Ask, StartTask, StarterOnly, RunTask, EndTask,
         Order, Settle, Switch, Maintain, LoseTick, Crash, Restart, redemption
    <2>2. ledger.status = "pending" => ~(ledger.attempt < day)
      <3>1. ledger.attempt \in {Never} \cup Day
        BY DEF TypeOK
      <3>2. ledger.attempt \in Int
        BY <3>1 DEF Never, Day
      <3>3. ledger.status = "pending" => ledger.attempt >= day
        BY DEF OnTheDay
      <3>4. QED
        BY <1>1, <3>2, <3>3
    <2>3. QED
      BY <2>1, <2>2
  <1>6. QED
    BY <1>2, <1>3, <1>4, <1>5 DEF OnTheDay

LEMMA RedeemedStep ==
  ASSUME TypeOK, TypeOK', LedgerDates, Redeemed, Next
  PROVE  Redeemed'
  <1>1. redeemed \in [Day -> Nat] /\ Today \in Day
    BY NowIsNatural, ClockTypes DEF TypeOK, Today
  <1>2. ASSUME NEW day \in Day, redeemed'[day] > 0
        PROVE  redeemed'[day] = 1 /\ OnTheDay(day)'
    <2>1. CASE StartRedeem
      <3>1. redeemed[Today] = 0 /\ OnTheDay(Today)
        BY <2>1 DEF StartRedeem, Redeemed
      <3>2. CASE redeemed' = [redeemed EXCEPT ![Today] = @ + 1] /\ UNCHANGED dayClaims
        <4>1. redeemed'[day] = 1 /\ OnTheDay(day)
          <5>1. CASE day = Today
            BY <1>1, <3>1, <3>2, <5>1
          <5>2. CASE day # Today
            BY <1>1, <1>2, <3>2, <5>2 DEF Redeemed
          <5>3. QED
            BY <5>1, <5>2
        <4>2. day \in dayClaims'
          BY <3>2, <4>1 DEF OnTheDay
        <4>3. QED
          BY <4>1, <4>2, OnTheDayStays
      <3>3. CASE redeemed' = redeemed /\ dayClaims \ {Today} \subseteq dayClaims'
        <4>1. redeemed[day] = 1 /\ OnTheDay(day)
          BY <1>2, <3>3 DEF Redeemed
        <4>2. day \in dayClaims'
          BY <3>1, <3>3, <4>1 DEF OnTheDay
        <4>3. QED
          BY <3>3, <4>1, <4>2, OnTheDayStays
      <3>4. QED
        BY <2>1, <3>2, <3>3 DEF StartRedeem
    <2>2. CASE ~StartRedeem
      <3>1. redeemed' = redeemed /\ dayClaims \subseteq dayClaims'
        BY <2>2 DEF Next, Tick, TakeDay, Ask, StartTask, StarterOnly, RunTask, EndTask,
           Order, Settle, Switch, Maintain, LoseTick, Crash, Restart, redemption
      <3>2. redeemed[day] = 1 /\ OnTheDay(day)
        BY <1>2, <3>1 DEF Redeemed
      <3>3. day \in dayClaims'
        BY <3>1, <3>2 DEF OnTheDay
      <3>4. QED
        BY <3>1, <3>2, <3>3, OnTheDayStays
    <2>3. QED
      BY <2>1, <2>2
  <1>3. ASSUME loop' = "redeems"
        PROVE  redeemed'[Today'] = 0 /\ OnTheDay(Today)'
    <2>1. CASE Tick
      <3>1. TakeDay(DayOf(now')) /\ redeemed' = redeemed
        BY <2>1 DEF Tick
      <3>2. QED
        BY <1>3, <2>1, <3>1, ClaimedDay
    <2>2. CASE ~Tick
      <3>1. loop = "redeems" /\ UNCHANGED <<now, redeemed, dayClaims>>
        BY <1>3, <2>2 DEF Next, StartRedeem, Ask, StartTask, StarterOnly, RunTask,
           EndTask, Order, Settle, Switch, Maintain, Outside, LoseTick, Crash,
           Restart, redemption
      <3>2. redeemed[Today] = 0 /\ OnTheDay(Today) /\ Today' = Today
        BY <3>1 DEF Redeemed, Today
      <3>3. Today \in dayClaims'
        BY <3>1, <3>2 DEF OnTheDay
      <3>4. PICK day \in Day : day = Today
        BY <1>1
      <3>5. OnTheDay(day)'
        BY <3>2, <3>3, <3>4, OnTheDayStays
      <3>6. QED
        BY <3>1, <3>2, <3>4, <3>5 DEF OnTheDay
    <2>3. QED
      BY <2>1, <2>2
  <1>4. QED
    BY <1>2, <1>3 DEF Redeemed, Day

(* The scheduler starts a redemption once a day, on the days of the plan   *)
(* only, whatever the user orders besides (manager.go:1918-1966).          *)
THEOREM RedeemsAsPlanned == Spec => []RedemptionsFollowThePlan
  <1>1. Init => Redeemed
    <2>1. SUFFICES ASSUME Init
                   PROVE  loop # "redeems" /\ \A day \in Day : ~(redeemed[day] > 0)
      BY DEF Redeemed
    <2>2. loop = "waits" /\ redeemed = [d \in Day |-> 0]
      BY <2>1 DEF Init
    <2>3. QED
      BY <2>2
  <1>2. /\ TypeOK /\ TypeOK' /\ LedgerDates /\ Redeemed /\ [Next]_vars
        => Redeemed'
    <2>1. ASSUME UNCHANGED vars, Redeemed PROVE Redeemed'
      BY <2>1, ZenonT(60) DEF vars, redemption, Redeemed, OnTheDay, Today
    <2>2. QED
      BY <2>1, RedeemedStep
  <1>3. Redeemed => RedemptionsFollowThePlan
    BY DEF Redeemed, OnTheDay, RedemptionsFollowThePlan
  <1>4. QED
    BY <1>1, <1>2, <1>3, TypesInvariance, PTL DEF Spec
=============================================================================
