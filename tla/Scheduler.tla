------------------------------ MODULE Scheduler ------------------------------
(***************************************************************************)
(* The scheduler of internal/service/manager.go for one account: a loop    *)
(* that a ticker wakes every 20 seconds.  A task whose Cron minute has come*)
(* is claimed in the store under the minute of the tick; a goroutine then  *)
(* asks the platform whether the day is credited already, and starts the   *)
(* task.  The automatic redemption is claimed for the day and started by   *)
(* the loop itself.  A start that is refused gives its claim back.  Before *)
(* that the loop starts or stops the keepalive of the account.             *)
(*                                                                         *)
(* The task and the redemption are reduced to what the scheduler sees of   *)
(* them; they are in TaskRunner and Redeem, the sessions are in Keepalive. *)
(* They share the clock and the loop only, so a behaviour follows one of   *)
(* the task, the redemption and the keepalive.                             *)
(***************************************************************************)
EXTENDS Schedules

CONSTANTS
  Every,        \* seconds between two ticks: 20
  Patience,     \* seconds the platform is given to answer: 90
  Days,         \* days the model runs: bounds the model
  CronPlan,     \* the Cron plan of the task: minutes of the day
  RedeemMinute, \* the minute of the day at which a redemption may be due
  MaxUpsets     \* upsets from outside: bounds the model

ASSUME SchedulerAssumption ==
  /\ Every \in 1..Minute /\ Days \in Nat \ {0}
  /\ Patience \in Nat /\ MaxUpsets \in Nat
  /\ CronPlan \subseteq 0..(DayMinutes - 1)
  /\ RedeemMinute \in 0..(DayMinutes - 1)

VARIABLES
  now,         \* the second of the latest tick
  loop,        \* the loop: waits, has claimed the redemption, or is gone
  on,          \* the account and the task are switched on
  maintenance, \* m.maintenance
  claims,      \* scheduler_claims of the task: minutes
  starter,     \* [Key -> ...]: startScheduledTask for a claim
  busy,        \* a run of the task is active
  credited,    \* the platform has credited the task today
  started,     \* history: starts of the task under each claim
  plan,        \* the plan of the automatic redemption
  dayClaims,   \* scheduler_claims of the redemption: days
  ledger,      \* the row of redeem_states
  redeemed,    \* history: starts of the redemption on each day
  succeeded,   \* history: days of successful orders
  window,      \* the keepalive window of the account
  kept,        \* the keepalive is to run
  calm,        \* history: since then nothing has kept a tick from its work
  onTheMinute, \* history: a tick came on the first second of a minute
  upsets       \* upsets so far

tasks == <<on, claims, starter, busy, credited, started>>
redemption == <<plan, dayClaims, ledger, redeemed, succeeded>>
keepalive == <<window, kept>>
vars == <<now, loop, maintenance, calm, onTheMinute, upsets, tasks, redemption,
          keepalive>>

End == Days * DayMinutes * Minute
Day == 0..(Days - 1)
Key == 0..(Days * DayMinutes - 1)
Today == DayOf(now)

(* No redemption is configured; no minute belongs to the window.           *)
NoPlan == [type |-> "off"]
NoWindow == [start |-> 0, end |-> 0, days |-> {}]

Init ==
  /\ now \in 0..(Every - 1) /\ loop = "waits"
  /\ on \in BOOLEAN /\ maintenance = FALSE
  /\ claims = {} /\ starter = [k \in Key |-> "none"]
  /\ busy = FALSE /\ credited = FALSE
  /\ started = [k \in Key |-> 0]
  /\ \/ on /\ plan = NoPlan /\ window = NoWindow
     \/ ~on /\ plan \in Plan /\ window = NoWindow
     \/ ~on /\ plan = NoPlan /\ window \in Window
  /\ kept = FALSE /\ dayClaims = {}
  /\ ledger = [status |-> "", attempt |-> Never, success |-> Never]
  /\ redeemed = [d \in Day |-> 0] /\ succeeded = {}
  /\ calm = now + Every /\ onTheMinute = FALSE /\ upsets = 0

Upset == upsets < MaxUpsets /\ upsets' = upsets + 1 /\ calm' = now + 1
NoUpset == UNCHANGED <<upsets, calm>>
-----------------------------------------------------------------------------
(* scheduler                                                               *)

Reclaims(key) == TRUE
Claims(key) == key \notin claims

(* INSERT OR IGNORE decides who starts the task of this minute.            *)
TakeMinute(key) ==
  IF on /\ ~maintenance /\ CronDue(CronPlan, now') /\ Claims(key)
  THEN /\ claims' = claims \cup {key}
       /\ starter' = [starter EXCEPT ![key] = "asks"]
  ELSE UNCHANGED <<claims, starter>>

TakeDay(day) ==
  IF /\ MinuteOfDay(now') = RedeemMinute /\ plan # NoPlan /\ ~maintenance
     /\ RedeemDue(plan, ledger, day) /\ day \notin dayClaims
  THEN dayClaims' = dayClaims \cup {day} /\ loop' = "redeems"
  ELSE UNCHANGED <<dayClaims, loop>>

(* reconcileKeepalive, which does nothing during maintenance.              *)
Reconcile ==
  kept' = IF maintenance THEN kept
          ELSE KeepaliveActiveAt(window, Weekday(now'), MinuteOfDay(now'))

(* A query ends after "Patience" seconds, and the start follows at once.   *)
InTime(second) ==
  \A key \in Key : starter[key] # "none" => second <= (key + 1) * Minute + Patience

(* The platform counts anew every day.                                     *)
NewDay == credited' = (credited /\ DayOf(now') = Today)

Tick ==
  /\ loop = "waits" /\ now + Every < End /\ InTime(now + Every)
  /\ now' = now + Every
  /\ Reconcile /\ TakeMinute(MinuteOf(now')) /\ TakeDay(DayOf(now'))
  /\ onTheMinute' = (onTheMinute \/ now' % Minute = 0)
  /\ NewDay
  /\ UNCHANGED <<maintenance, on, busy, started, plan, ledger,
                 redeemed, succeeded, window>>
  /\ NoUpset

(* The loop starts the redemption; a run that is active already keeps the  *)
(* claim, any other refusal gives it back.                                 *)
StartRedeem ==
  /\ loop = "redeems" /\ loop' = "waits"
  /\ \/ /\ ~maintenance
        /\ redeemed' = [redeemed EXCEPT ![Today] = @ + 1]
        /\ UNCHANGED dayClaims
     \/ UNCHANGED <<dayClaims, redeemed>>
     \/ dayClaims' = dayClaims \ {Today} /\ UNCHANGED redeemed
  /\ UNCHANGED <<now, maintenance, onTheMinute, plan, ledger, succeeded,
                 tasks, keepalive>>
  /\ NoUpset
-----------------------------------------------------------------------------
(* startScheduledTask                                                      *)

StarterOnly ==
  UNCHANGED <<now, loop, maintenance, onTheMinute, on, credited, redemption,
              keepalive>>

(* The platform has credited the day of the claim, and it is still the day.*)
CreditedFor(key) == credited /\ Today = key \div DayMinutes

(* A query that fails does not stop the task.                              *)
Ask(key) ==
  /\ starter[key] = "asks"
  /\ \E next \in {"starts"} \cup (IF CreditedFor(key) THEN {"none"} ELSE {}) :
       starter' = [starter EXCEPT ![key] = next]
  /\ UNCHANGED <<claims, busy, started>> /\ StarterOnly /\ NoUpset

(* StartTask: the task starts, runs already (the claim stays), or is       *)
(* refused: during maintenance, when it is switched off, and for other     *)
(* reasons.  A refused start gives its claim back, if the store lets it.   *)
StartTask(key) ==
  /\ starter[key] = "starts"
  /\ starter' = [starter EXCEPT ![key] = "none"]
  /\ \/ /\ on /\ ~maintenance /\ ~busy
        /\ busy' = TRUE /\ started' = [started EXCEPT ![key] = @ + 1]
        /\ UNCHANGED claims /\ NoUpset
     \/ /\ busy /\ ~maintenance
        /\ UNCHANGED <<busy, started, claims>> /\ NoUpset
     \/ /\ claims' = claims \ {key} \/ UNCHANGED claims
        /\ UNCHANGED <<busy, started>>
        /\ \/ Upset
           \/ (maintenance \/ ~on) /\ calm' = now + 1 /\ UNCHANGED upsets
  /\ StarterOnly
-----------------------------------------------------------------------------
(* What happens outside                                                    *)

Outside == UNCHANGED <<now, loop, onTheMinute, claims, starter, started,
                       keepalive>>

(* Runs of the task: the user starts one too; it may be credited.          *)
RunTask ==
  /\ on /\ ~busy /\ ~maintenance /\ busy' = TRUE
  /\ UNCHANGED <<maintenance, on, credited, redemption>> /\ Outside /\ NoUpset
EndTask ==
  /\ busy /\ busy' = FALSE
  /\ credited' \in {credited, TRUE}
  /\ UNCHANGED <<maintenance, on, redemption>> /\ Outside /\ NoUpset

(* An order of a redemption, whoever started it, and what becomes of it:   *)
(* see Redeem.  A success counts from the day of the order.                *)
Order ==
  /\ plan # NoPlan /\ ledger.status # "pending"
  /\ ledger' = [ledger EXCEPT !.status = "pending", !.attempt = Today]
  /\ UNCHANGED <<maintenance, plan, dayClaims, redeemed, succeeded, on, busy,
                 credited>>
  /\ Outside /\ NoUpset
Settle ==
  /\ ledger.status = "pending"
  /\ \/ /\ ledger' = [ledger EXCEPT !.status = "failed"]
        /\ UNCHANGED succeeded
     \/ /\ ledger' = [ledger EXCEPT !.status = "success",
                                    !.success = ledger.attempt]
        /\ succeeded' = succeeded \cup {ledger.attempt}
  /\ UNCHANGED <<maintenance, plan, dayClaims, redeemed, on, busy, credited>>
  /\ Outside /\ NoUpset

(* Switches, and the preparation of an update.                             *)
Switch ==
  /\ plan = NoPlan /\ window = NoWindow /\ Upset /\ on' = ~on
  /\ UNCHANGED <<maintenance, busy, credited, redemption>>
  /\ Outside
Maintain ==
  /\ Upset /\ maintenance' = ~maintenance
  /\ UNCHANGED <<on, busy, credited, redemption>> /\ Outside

(* A tick is lost, because the loop is busy, the machine sleeps or the     *)
(* service is down.                                                        *)
LoseTick ==
  /\ loop # "redeems" /\ now + Every < End /\ InTime(now + Every)
  /\ now' = now + Every
  /\ upsets < MaxUpsets /\ upsets' = upsets + 1 /\ calm' = now' + 1
  /\ NewDay
  /\ UNCHANGED <<loop, maintenance, onTheMinute, on, claims, starter, busy,
                 started, redemption, keepalive>>

(* The service stops between any two steps.  The next one has another      *)
(* ticker, and no memory of what was under way.                            *)
Crash ==
  /\ Upset /\ loop # "down" /\ loop' = "down"
  /\ starter' = [k \in Key |-> "none"] /\ busy' = FALSE /\ maintenance' = FALSE
  /\ kept' = FALSE
  /\ UNCHANGED <<now, onTheMinute, on, claims, credited, started, redemption,
                 window>>
Restart ==
  /\ loop = "down" /\ loop' = "waits"
  /\ \E later \in 0..(Every - 1) :
       now + later < End /\ now' = now + later /\ calm' = now + later + Every
  /\ NewDay
  /\ UNCHANGED <<maintenance, onTheMinute, upsets, on, claims, starter, busy,
                 started, redemption, keepalive>>

Next ==
  \/ Tick \/ StartRedeem
  \/ \E k \in Key : Ask(k) \/ StartTask(k)
  \/ RunTask \/ EndTask \/ Order \/ Settle
  \/ Switch \/ Maintain \/ LoseTick \/ Crash \/ Restart

Spec == Init /\ [][Next]_vars
-----------------------------------------------------------------------------
TypeOK ==
  /\ now \in 0..(End - 1) /\ loop \in {"waits", "redeems", "down"}
  /\ on \in BOOLEAN /\ maintenance \in BOOLEAN /\ busy \in BOOLEAN
  /\ claims \subseteq Key /\ credited \in BOOLEAN
  /\ starter \in [Key -> {"none", "asks", "starts"}]
  /\ started \in [Key -> Nat]
  /\ plan \in Plan \cup {NoPlan} /\ dayClaims \subseteq Day
  /\ ledger \in [status : {"", "pending", "success", "failed"},
                 attempt : {Never} \cup Day, success : {Never} \cup Day]
  /\ redeemed \in [Day -> Nat] /\ succeeded \subseteq Day
  /\ window \in Window /\ kept \in BOOLEAN
  /\ calm \in Nat /\ onTheMinute \in BOOLEAN
  /\ upsets \in 0..MaxUpsets

(* A claim starts its task at most once, whatever is refused, given back,  *)
(* claimed again or cut off by a stop of the service: a service that was   *)
(* restarted within the minute does not start the task again.              *)
OneStartPerClaim == \A key \in Key : started[key] <= 1

(* No minute of the plan is passed over: when nothing kept a tick from its *)
(* work, its claim was taken, wherever in the minute the ticks fall.       *)
MinutesAreTaken ==
  on /\ ~maintenance /\ loop # "down" => \A key \in Key :
    /\ key % DayMinutes \in CronPlan
    /\ calm <= key * Minute /\ (key + 1) * Minute <= now
    => key \in claims

(* The task starts in the minutes of its plan only.  The exception is the  *)
(* 61st second of the look back: a tick on the first second of the next    *)
(* minute finds the minute before once more, under a claim of its own.     *)
StartsFollowTheCron ==
  \A key \in Key : started[key] > 0 =>
    \/ key % DayMinutes \in CronPlan
    \/ onTheMinute /\ (key - 1) % DayMinutes \in CronPlan

(* The scheduler starts a redemption once a day and on the days of the plan*)
(* only; an interval is counted from every success, also that of an order  *)
(* the user placed.                                                        *)
RedemptionsFollowThePlan ==
  \A day \in Day : redeemed[day] > 0 =>
    /\ redeemed[day] = 1
    /\ plan.type = "monthly" =>
         \/ DayOfMonth(day) \in plan.days
         \/ LastDayOfMonth \in plan.days /\ DayOfMonth(day) = MonthDays
    /\ plan.type = "interval" =>
         \A earlier \in succeeded : earlier < day => day - earlier >= plan.every

(* The keepalive runs in exactly the minutes of the windows that open on   *)
(* the chosen days: also after midnight, when the week turns, when the     *)
(* window of yesterday meets that of today, and never when start and end   *)
(* are equal.                                                              *)
WindowIsKept ==
  loop = "waits" /\ ~maintenance /\ calm <= now =>
    (kept <=> Covered(window, Weekday(now), MinuteOfDay(now)))
=============================================================================
