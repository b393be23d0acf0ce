------------------------------- MODULE Redeem -------------------------------
(***************************************************************************)
(* The redemption of points of one account: redeem of                      *)
(* internal/service/manager.go, the settings form and the resolution       *)
(* buttons of internal/web/server.go, the scheduler and the redeem task a  *)
(* usage run chains.  An order costs points and cannot be undone, its      *)
(* answer may be lost, and the process may crash at any step: the ledger   *)
(* (the row of redeem_states) must remember every order whose outcome is   *)
(* unknown.                                                                *)
(*                                                                         *)
(* There is at most one redeem run at a time (TaskRunner!SlotExclusive),   *)
(* so one variable holds it.  An action is one SQL statement, one request  *)
(* or one step between two waits; a statement may fail at any time.        *)
(***************************************************************************)
EXTENDS Naturals

CONSTANTS
  Target,    \* what can be ordered: a product and, if it needs one, a desktop
  NoTarget,
  Starter,   \* goroutines that start automatic redeem runs
  MaxOrder,  \* orders this account places: bounds the model
  MaxDay     \* days that pass: bounds the model

ASSUME RedeemAssumption ==
  /\ NoTarget \notin Target
  /\ MaxOrder \in Nat /\ MaxDay \in Nat \ {0}

VARIABLES
  exists,   \* the account has not been deleted
  config,   \* [enabled, target]: its row of redeem_configs
  ledger,   \* [status, date]: its row of redeem_states
  today,    \* the calendar day
  due,      \* SUBSET Starter: who has found the redemption due
  form,     \* the web request that saves the settings
  run,      \* [at, auto, date, said]: the redeem run
  placed,   \* number of orders recorded so far
  order     \* [Order -> OrderRecord]: the orders and what became of them

vars == <<exists, config, ledger, today, due, form, run, placed,
          order>>
-----------------------------------------------------------------------------
(* Data *)

Day == 1..MaxDay
Order == 1..MaxOrder
Config == [enabled : BOOLEAN, target : Target \cup {NoTarget}]
Ledger == [status : {"none", "pending", "success", "failed"},
           date : 0..MaxDay]
Run == [at : {"idle", "delay", "config", "ledger", "checks", "mark", "send",
              "answer", "disable", "save"},
        auto : BOOLEAN, date : 0..MaxDay,
        said : {"none", "pending", "success", "failed"}]

(* What the platform did with an order, and what is known of it here: a    *)
(* definite answer, or the word of the user who looked it up.              *)
Fate == {"none", "marked", "sent", "accepted", "refused"}
OrderRecord == [fate : Fate, date : 0..MaxDay, auto : BOOLEAN,
                known : BOOLEAN, word : {"none", "success", "failed"}]

NoConfig == [enabled |-> FALSE, target |-> NoTarget]
NoLedger == [status |-> "none", date |-> 0]
NoOrder == [fate |-> "none", date |-> 0, auto |-> FALSE, known |-> FALSE,
            word |-> "none"]
IdleRun == [at |-> "idle", auto |-> FALSE, date |-> 0, said |-> "none"]
IdleForm == [at |-> "idle", config |-> NoConfig, immediate |-> FALSE]

(* Recorded here, not known to have been accepted or refused, and not      *)
(* resolved by the user.                                                   *)
Open == {o \in 1..placed : ~order[o].known /\ order[o].word = "none"}

Init ==
  /\ exists = TRUE
  /\ config = NoConfig /\ ledger = NoLedger
  /\ today = 1
  /\ due = {} /\ form = IdleForm /\ run = IdleRun
  /\ placed = 0 /\ order = [o \in Order |-> NoOrder]
-----------------------------------------------------------------------------
(* Automatic starts: the scheduler at 06:05, and a usage run that has      *)
(* succeeded.                                                              *)

(* The switch and redeemDue, one statement after the other.  Nothing relies*)
(* on them later: the run reads everything again.  Left open are the plan  *)
(* (daily, an interval, days of the month) and the scheduler's claim on    *)
(* the day, which only take starts away.                                   *)
Due == config.enabled /\ ledger.status # "pending" /\ ledger.date # today

FindDue(s) ==
  /\ s \notin due /\ Due
  /\ due' = due \cup {s}
  /\ UNCHANGED <<exists, config, ledger, today, form, run, placed, order>>

(* StartTask: refused while a redeem run is running, and for other reasons.*)
Admit(auto) ==
  /\ exists /\ run.at = "idle"
  /\ run' = [IdleRun EXCEPT !.at = IF auto THEN "delay" ELSE "config",
                            !.auto = auto]

StartAutomatic(s) ==
  /\ s \in due /\ due' = due \ {s}
  /\ Admit(TRUE) \/ UNCHANGED run
  /\ UNCHANGED <<exists, config, ledger, today, form, placed, order>>
-----------------------------------------------------------------------------
(* The settings form: validated against the ledger and the platform's      *)
(* catalogue, saved, and with the second button followed by a manual run.  *)

FormOnly == UNCHANGED <<exists, ledger, today, due, placed, order>>

(* A form that leaves the automatic redemption off and orders nothing is   *)
(* not checked further.                                                    *)
TargetMayChange(new) ==
  ledger.status = "pending" => new.target = config.target
AcceptedForm(new, immediate) ==
  (new.enabled \/ immediate) => new.target # NoTarget /\ TargetMayChange(new)

SubmitForm ==
  /\ form.at = "idle" /\ exists
  /\ \E new \in Config, immediate \in BOOLEAN :
       /\ AcceptedForm(new, immediate)
       /\ form' = [at |-> "valid", config |-> new, immediate |-> immediate]
  /\ UNCHANGED <<config, run>> /\ FormOnly

SaveForm ==
  /\ form.at = "valid"
  /\ \/ /\ exists /\ config' = form.config
        /\ form' = IF form.immediate THEN [IdleForm EXCEPT !.at = "start"]
                   ELSE IdleForm
     \/ form' = IdleForm /\ UNCHANGED config
  /\ UNCHANGED run /\ FormOnly

StartManual ==
  /\ form.at = "start"
  /\ form' = IdleForm
  /\ Admit(FALSE) \/ UNCHANGED run
  /\ UNCHANGED config /\ FormOnly
-----------------------------------------------------------------------------
(* redeem, and the delay of run before it                                  *)

RunOnly == UNCHANGED <<exists, today, due, form>>
Goes(from, to) == run.at = from /\ run' = [run EXCEPT !.at = to]
Stops(from) == run.at = from /\ run' = IdleRun

(* A random delay of up to two hours.  Like every later step it may end    *)
(* with the run: a cancellation, a login that fails, a failed query.       *)
Wake ==
  /\ Goes("delay", "config") \/ Stops("delay")
  /\ UNCHANGED <<config, ledger, placed, order>> /\ RunOnly

ReadConfig ==
  /\ \/ (run.auto => config.enabled) /\ Goes("config", "ledger")
     \/ Stops("config")
  /\ UNCHANGED <<config, ledger, placed, order>> /\ RunOnly

(* An order whose outcome is unknown stops every redemption, and an        *)
(* automatic one happens once a day; the day is the one of this moment.    *)
MayOrderDespitePending == run.auto => ledger.date # today
MayOrderAgain == ledger.status # "pending"
MayOrder ==
  /\ ledger.status # "pending"
  /\ run.auto => ledger.date # today

ReadLedger ==
  /\ \/ /\ MayOrder /\ run.at = "ledger"
        /\ run' = [run EXCEPT !.at = "checks", !.date = today]
     \/ Stops("ledger")
  /\ UNCHANGED <<config, ledger, placed, order>> /\ RunOnly

(* The product with its type and price, the points, the desktop and the    *)
(* statistics, all asked of the platform.                                  *)
Check ==
  /\ Goes("checks", "mark") \/ Stops("checks")
  /\ UNCHANGED <<config, ledger, placed, order>> /\ RunOnly

(* The row says 'pending' before the order leaves.                         *)
Marked == [ledger EXCEPT !.status = "pending", !.date = run.date]

Mark ==
  /\ \/ /\ exists /\ placed < MaxOrder
        /\ Goes("mark", "send")
        /\ ledger' = Marked
        /\ placed' = placed + 1
        /\ order' = [order EXCEPT ![placed + 1] =
             [NoOrder EXCEPT !.fate = "marked", !.date = run.date,
                             !.auto = run.auto]]
     \/ Stops("mark") /\ UNCHANGED <<ledger, placed, order>>
  /\ UNCHANGED config /\ RunOnly

(* PlaceOrder sends its request once; an error before that is as           *)
(* uncertain for redeem as a lost answer.                                  *)
Send ==
  /\ \/ /\ Goes("send", "answer")
        /\ order' = [order EXCEPT ![placed].fate = "sent"]
     \/ /\ run.at = "send"
        /\ run' = [run EXCEPT !.at = "save", !.said = "pending"]
        /\ UNCHANGED order
  /\ UNCHANGED <<config, ledger, placed>> /\ RunOnly

(* The platform decides once on an order that reached it, whether or not   *)
(* anybody still waits for the answer; its answers are true.               *)
Platform(o) ==
  /\ order[o].fate = "sent"
  /\ \E fate \in {"accepted", "refused"} :
       order' = [order EXCEPT ![o].fate = fate]
  /\ UNCHANGED <<exists, config, ledger, today, due, form, run,
                 placed>>

(* IsPlatformError: the platform answered that it did not accept.  Every   *)
(* other error (a timeout, a cancellation, an answer that is not           *)
(* understood) leaves the outcome unknown.                                 *)
SaidFailed == "failed"
SaidOfLost == "pending"

Answer ==
  /\ run.at = "answer"
  /\ \/ /\ order[placed].fate = "accepted"
        /\ run' = [run EXCEPT !.at = "save", !.said = "success"]
        /\ order' = [order EXCEPT ![placed].known = TRUE]
     \/ /\ order[placed].fate = "refused"
        /\ \E next \in {"disable", "save"} :
             run' = [run EXCEPT !.at = next, !.said = "failed"]
        /\ order' = [order EXCEPT ![placed].known = TRUE]
     \/ /\ run' = [run EXCEPT !.at = "save", !.said = SaidOfLost]
        /\ UNCHANGED order
  /\ UNCHANGED <<config, ledger, placed>> /\ RunOnly

(* A refusal by the risk control turns the automatic redemption off.       *)
Disable ==
  /\ Goes("disable", "save")
  /\ config' = [config EXCEPT !.enabled = FALSE] \/ UNCHANGED config
  /\ UNCHANGED <<ledger, placed, order>> /\ RunOnly

(* The last statement overwrites the status, also one a user has resolved  *)
(* in the meantime, and the user's word with it.                           *)
SavedStatus == [ledger EXCEPT !.status = run.said]

Save ==
  /\ Stops("save")
  /\ \/ /\ exists /\ ledger' = SavedStatus
        /\ order' = [order EXCEPT ![placed].word = "none"]
     \/ UNCHANGED <<ledger, order>>
  /\ UNCHANGED <<config, placed>> /\ RunOnly
-----------------------------------------------------------------------------
(* ResolveRedeem: the user has looked the order up at the platform.  The   *)
(* page offers it as soon as the ledger says 'pending'.                    *)
Resolve(word) ==
  /\ ledger.status = "pending"
  /\ ledger' = [ledger EXCEPT !.status = word]
  /\ order' = [order EXCEPT ![placed].word = word]
  /\ UNCHANGED <<exists, config, today, due, form, run, placed>>

(* Deleting the account deletes both rows with it.                         *)
Delete ==
  /\ exists /\ exists' = FALSE
  /\ config' = NoConfig /\ ledger' = NoLedger
  /\ UNCHANGED <<today, due, form, run, placed, order>>

NewDay ==
  /\ today < MaxDay /\ today' = today + 1
  /\ UNCHANGED <<exists, config, ledger, due, form, run, placed,
                 order>>

(* The process ends in the middle of anything and starts again.            *)
Crash ==
  /\ due' = {} /\ form' = IdleForm /\ run' = IdleRun
  /\ UNCHANGED <<exists, config, ledger, today, placed, order>>

RunNext ==
  \/ Wake \/ ReadConfig \/ ReadLedger \/ Check \/ Mark \/ Send \/ Answer
  \/ Disable \/ Save

Next ==
  \/ \E s \in Starter : FindDue(s) \/ StartAutomatic(s)
  \/ SubmitForm \/ SaveForm \/ StartManual
  \/ RunNext
  \/ \E o \in Order : Platform(o)
  \/ \E word \in {"success", "failed"} : Resolve(word)
  \/ Delete \/ NewDay \/ Crash

Spec == Init /\ [][Next]_vars
-----------------------------------------------------------------------------
TypeOK ==
  /\ exists \in BOOLEAN
  /\ config \in Config /\ ledger \in Ledger
  /\ today \in 1..MaxDay /\ due \subseteq Starter
  /\ form \in [at : {"idle", "valid", "start"}, config : Config,
               immediate : BOOLEAN]
  /\ run \in Run
  /\ placed \in 0..MaxOrder
  /\ order \in [Order -> OrderRecord]

(* "为避免重复扣除积分，自动兑换已暂停" (internal/web/server.go:1149): an    *)
(* order that may or may not have cost points is the latest one, and the   *)
(* ledger says so: no redemption follows it, across crashes, lost answers, *)
(* failed statements and resolutions at any moment, until its answer is in *)
(* or a user has spoken.                                                   *)
OpenOrderBlocks ==
  exists => \A o \in Open : o = placed /\ ledger.status = "pending"

(* An automatic order is the first order of its date, whatever else was    *)
(* ordered, resolved or lost that day.                                     *)
OneAutomaticOrderADay ==
  \A p \in 1..placed : order[p].auto =>
    \A o \in 1..placed : o < p => order[o].date # order[p].date

(* A settled ledger speaks the truth about the latest order: what the      *)
(* platform did with it, or what the user last said of it.                 *)
LedgerIsTrue ==
  exists /\ placed > 0 =>
    LET last == order[placed] IN
    \/ ledger.status = "pending"
    \/ last.word # "none" /\ ledger.status = last.word
    \/ ledger.status = "success" /\ last.fate = "accepted"
    \/ ledger.status = "failed" /\ last.fate = "refused"
=============================================================================
