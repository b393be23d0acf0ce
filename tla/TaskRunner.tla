------------------------------ MODULE TaskRunner ------------------------------
(***************************************************************************)
(* The task runner of internal/service/manager.go: StartTask admits at     *)
(* most one run per account and task type, run executes it with delays,    *)
(* retries and cancellation, and four other actors interfere: the account  *)
(* pages (switches and stop buttons), the update preparation, the power    *)
(* batch, and the shutdown, crash and restart of the process.              *)
(*                                                                         *)
(* One action is one critical section of m.mu, one SQL statement (the      *)
(* store has a single connection) or one step between two waits.           *)
(***************************************************************************)
EXTENDS Naturals, FiniteSets

CONSTANTS
  Account,   \* accounts that exist when the model starts
  Kind,      \* the task types in use
  Run,       \* ids task_runs can hand out: bounds the number of runs
  Caller,    \* goroutines that call StartTask: web requests, the scheduler
  Admin,     \* web requests that switch accounts and tasks
  Attempts,  \* executions of one scheduled run (3 in the code)
  Actors,    \* who interferes with the tasks, see Next
  NoRun

ASSUME ConstantsAssumption ==
  /\ Kind \subseteq {"login", "chat", "pc", "redeem"}
  /\ Attempts \in Nat \ {0}
  /\ NoRun \notin Run
  /\ Caller \intersect Run = {}

VARIABLES
  exists,       \* SUBSET Account: rows of the accounts table
  switch,       \* [Account -> [Switch -> SwitchState]]: its enabled columns
  pending,      \* SUBSET Account: redeem_states rows left at 'pending'
  row,          \* [Run -> RowStatus]: task_runs.status
  lost,         \* SUBSET Run: rows left open because the UPDATE that was to
                \* close them failed (a history of what the code ignores)
  job,          \* [Run -> Job \cup {NoJob}]: what a run is for
  at,           \* [Run -> RunStep]: where the run's goroutine is
  result,       \* [Run -> RowStatus]: the status run is about to save
  tried,        \* [Run -> 0..Attempts]: executions so far
  starting,     \* SUBSET Slot: m.starting
  active,       \* SUBSET Run: the keys of m.active
  cancelled,    \* SUBSET Run: runs whose own context was cancelled
  start,        \* [Starter -> StartTask's local state]
  admin,        \* [Admin -> a switch handler's local state]
  maintenance,  \* m.maintenance
  update,       \* where the update goroutine is in PrepareForUpdate
  short,        \* its local shortRunning
  power,        \* [on, accounts, quiet]: the power batch
  phase         \* the life of the process

store == <<exists, switch, pending>>
runs == <<row, lost, job, at, result, tried>>
slots == <<starting, active, cancelled, start>>
updater == <<maintenance, update, short>>
vars == <<exists, switch, pending, row, lost, job, at, result, tried, starting,
          active, cancelled, start, admin, maintenance, update, short, power,
          phase>>
-----------------------------------------------------------------------------
(* Data *)

DesktopKind == {"login", "pc"}
Slot == Account \X Kind
Trigger == {"manual", "schedule", "after_pc"}
Job == [account : Account, kind : Kind, trigger : Trigger]
NoJob == [account |-> NoRun, kind |-> "none", trigger |-> "none"]
SlotOf(j) == <<j.account, j.kind>>

(* accounts.enabled and login_enabled, pc_enabled, chat_enabled.  An "off" *)
(* switch remembers which route wrote it last: a toggle of the account     *)
(* list or the save of the account form.                                   *)
Switch == {"account"} \cup (Kind \ {"redeem"})
SwitchState == {"on", "toggledOff", "savedOff"}

Finished == {"success", "failed", "stopped", "interrupted"}
RowStatus == {"none", "queued", "running"} \cup Finished
RunStep == {"none", "launched", "begun", "delay", "exec", "ordering", "retry",
            "succeeded", "chain", "save", "remove", "gone"}
Alive == RunStep \ {"none", "gone"}

(* The runs of StartTask: one per caller, and one per run for the redeem   *)
(* task that a successful usage task starts.                               *)
Starter == Caller \cup Run
StartStep == {"idle", "reserved", "admitted", "giveup", "added", "refused",
              "registered"}
Idle == [at |-> "idle", job |-> NoJob, run |-> NoRun]
StartRecord == [at : StartStep, job : Job \cup {NoJob}, run : Run \cup {NoRun}]
Quiescent == [at |-> "idle", account |-> NoRun, switch |-> "none", found |-> {}]
AdminRecord == [at : {"idle", "collect", "cancel"}, account : Account \cup {NoRun},
                switch : Switch \cup {"none"}, found : SUBSET Run]
NoPower == [on |-> FALSE, accounts |-> {}, quiet |-> {}]

Up == phase # "down"
Cancelled(r) == r \in cancelled \/ phase # "up"
IsOn(a, s) == a \in exists /\ switch[a][s] = "on"
Automatic(j) == j.trigger \in {"schedule", "after_pc"}
Delayable(j) == j.trigger = "schedule" \/ (j.kind = "redeem" /\ Automatic(j))
Retried(j) == j.trigger = "schedule" /\ j.kind # "redeem"

Init ==
  /\ exists = Account
  /\ switch \in [Account -> [Switch -> {"on", "savedOff"}]]
  /\ pending = {}
  /\ row = [r \in Run |-> "none"] /\ lost = {}
  /\ job = [r \in Run |-> NoJob]
  /\ at = [r \in Run |-> "none"]
  /\ result = [r \in Run |-> "none"]
  /\ tried = [r \in Run |-> 0]
  /\ starting = {} /\ active = {} /\ cancelled = {}
  /\ start = [s \in Starter |-> Idle]
  /\ admin = [h \in Admin |-> Quiescent]
  /\ maintenance = FALSE /\ update = "idle" /\ short = FALSE
  /\ power = NoPower
  /\ phase = "up"
-----------------------------------------------------------------------------
(* StartTask *)

(* Two claims on one slot are refused; the names of the map's keys carry   *)
(* the account and the type.                                               *)
BusyStarting(k) == k \in starting
Busy(k) == k \in starting \/ \E r \in active : SlotOf(job[r]) = k

(* What StartTask checks under the lock, on entry and again when it        *)
(* registers the run.                                                      *)
PowerHolds(j) == j.account \in power.accounts /\ j.kind \in DesktopKind
Refused(j) == maintenance \/ PowerHolds(j)

(* The entry check: on success the slot is reserved in m.starting.         *)
Reserve(s, j) ==
  /\ Up
  /\ start[s].at = "idle"
  /\ ~Refused(j)
  /\ ~Busy(SlotOf(j))
  /\ starting' = starting \cup {SlotOf(j)}
  /\ start' = [start EXCEPT ![s] = [at |-> "reserved", job |-> j, run |-> NoRun]]

Call(c) ==
  /\ \E j \in Job : j.trigger # "after_pc" /\ Reserve(c, j)
  /\ UNCHANGED <<store, runs, active, cancelled, admin, updater, power, phase>>

Enabled(j) ==
  /\ IsOn(j.account, "account")
  /\ (j.trigger = "schedule" /\ j.kind # "redeem") => IsOn(j.account, j.kind)

(* store.Account and the switches; a failed query gives up as well.        *)
ReadAccount(s) ==
  /\ Up
  /\ start[s].at = "reserved"
  /\ start' = [start EXCEPT ![s].at =
                 IF Enabled(start[s].job) THEN "admitted" ELSE "giveup"]
  /\ UNCHANGED <<store, runs, starting, active, cancelled, admin, updater,
                 power, phase>>

(* store.AddRun, which may fail and always does for a deleted account      *)
(* (its foreign key).                                                      *)
AddRun(s, r) ==
  /\ Up
  /\ start[s].at = "admitted"
  /\ start[s].job.account \in exists
  /\ row[r] = "none"
  /\ row' = [row EXCEPT ![r] = "queued"]
  /\ job' = [job EXCEPT ![r] = start[s].job]
  /\ start' = [start EXCEPT ![s].at = "added", ![s].run = r]
  /\ UNCHANGED <<store, lost, at, result, tried, starting, active, cancelled,
                 admin, updater, power, phase>>

StoreFails(s) ==
  /\ Up
  /\ start[s].at \in {"reserved", "admitted"}
  /\ start' = [start EXCEPT ![s].at = "giveup"]
  /\ UNCHANGED <<store, runs, starting, active, cancelled, admin, updater,
                 power, phase>>

ReleaseNothing(k) == starting
Release(k) == starting \ {k}

GiveUp(s) ==
  /\ Up
  /\ start[s].at = "giveup"
  /\ starting' = Release(SlotOf(start[s].job))
  /\ start' = [start EXCEPT ![s] = Idle]
  /\ UNCHANGED <<store, runs, active, cancelled, admin, updater, power, phase>>

(* The second critical section: the slot passes from m.starting to         *)
(* m.active, unless an update or a power batch has begun in between.       *)
RefusedByMaintenance(j) == maintenance
RefusedAtRegister(j) == Refused(j)

Register(s) ==
  /\ Up
  /\ start[s].at = "added"
  /\ starting' = Release(SlotOf(start[s].job))
  /\ IF RefusedAtRegister(start[s].job)
     THEN /\ start' = [start EXCEPT ![s].at = "refused"]
          /\ UNCHANGED active
     ELSE /\ start' = [start EXCEPT ![s].at = "registered"]
          /\ active' = active \cup {start[s].run}
  /\ UNCHANGED <<store, runs, cancelled, admin, updater, power, phase>>

(* store.UpdateRun.  StartTask and run ignore its error: the row then keeps *)
(* the status it had, and nothing writes a final one a second time.        *)
Unfinished == {"queued", "running"}

UpdateRun(r, status) ==
  \/ row' = [row EXCEPT ![r] = status] /\ UNCHANGED lost
  \/ /\ UNCHANGED row
     /\ lost' = IF status \in Unfinished THEN lost ELSE lost \cup {r}

ForgottenRow(r) == UNCHANGED <<row, lost>>
RefusedRow(r) == UpdateRun(r, "interrupted")

MarkRefused(s) ==
  /\ Up
  /\ start[s].at = "refused"
  /\ RefusedRow(start[s].run)
  /\ start' = [start EXCEPT ![s] = Idle]
  /\ UNCHANGED <<store, job, at, result, tried, starting, active, cancelled,
                 admin, updater, power, phase>>

(* m.launch: the goroutine is dropped once Close has set m.closing.        *)
AlwaysAccepts == TRUE
Accepts == phase \in {"up", "closing"}

Launch(s) ==
  /\ Up
  /\ start[s].at = "registered"
  /\ at' = IF Accepts THEN [at EXCEPT ![start[s].run] = "launched"] ELSE at
  /\ start' = [start EXCEPT ![s] = Idle]
  /\ UNCHANGED <<store, row, lost, job, result, tried, starting, active,
                 cancelled, admin, updater, power, phase>>
-----------------------------------------------------------------------------
(* run *)

Moves(r, from, to) == Up /\ at[r] = from /\ at' = [at EXCEPT ![r] = to]
Ends(r, from, status) ==
  Moves(r, from, "save") /\ result' = [result EXCEPT ![r] = status]
RunUnchanged == UNCHANGED <<store, job, slots, admin, updater, power, phase>>
RowUnchanged == UNCHANGED <<row, lost>>

Begin(r) ==
  /\ Moves(r, "launched", "begun")
  /\ UpdateRun(r, "running")
  /\ UNCHANGED <<result, tried>> /\ RunUnchanged

(* The account is read again: a switch turned off since StartTask read it  *)
(* fails the run, and so does a failed query.                              *)
NotReadAgain(r) == TRUE
StillEnabled(r) == Enabled(job[r])

Check(r) ==
  /\ \/ /\ StillEnabled(r)
        /\ \/ Moves(r, "begun", "exec")
           \/ Delayable(job[r]) /\ Moves(r, "begun", "delay")
        /\ UNCHANGED result
     \/ Ends(r, "begun", "failed")
  /\ UNCHANGED tried /\ RowUnchanged /\ RunUnchanged

(* The random delay ends by its timer or by the cancellation.              *)
Delay(r) ==
  /\ \/ Moves(r, "delay", "exec") /\ UNCHANGED result
     \/ Cancelled(r) /\ Ends(r, "delay", "stopped")
  /\ UNCHANGED tried /\ RowUnchanged /\ RunUnchanged

MayRetry(r) == Retried(job[r]) /\ tried[r] + 1 < Attempts

(* One execution of a login, usage or chat task.  It may succeed, or fail  *)
(* with another error, although it has been cancelled.                     *)
Execute(r) ==
  /\ job[r].kind # "redeem"
  /\ tried' = [tried EXCEPT ![r] = @ + 1]
  /\ \/ Moves(r, "exec", "succeeded") /\ UNCHANGED result
     \/ Cancelled(r) /\ Ends(r, "exec", "stopped")
     \/ MayRetry(r) /\ Moves(r, "exec", "retry") /\ UNCHANGED result
     \/ ~MayRetry(r) /\ Ends(r, "exec", "failed")
  /\ RowUnchanged /\ RunUnchanged

(* The ten minutes between two attempts, and the status query that ends    *)
(* them: the platform may already count the task.                          *)
Retry(r) ==
  /\ \/ Moves(r, "retry", "exec") /\ UNCHANGED result
     \/ Moves(r, "retry", "succeeded") /\ UNCHANGED result
     \/ Cancelled(r) /\ Ends(r, "retry", "stopped")
  /\ UNCHANGED tried /\ RowUnchanged /\ RunUnchanged

(* redeem up to its order: any check may refuse, an order already pending  *)
(* always does, and 'pending' is on disk before the order is placed.       *)
RefuseOrder(r) ==
  /\ job[r].kind = "redeem"
  /\ \/ Ends(r, "exec", "failed")
     \/ Cancelled(r) /\ Ends(r, "exec", "stopped")
  /\ UNCHANGED tried /\ RowUnchanged /\ RunUnchanged

RedeemUnchanged ==
  UNCHANGED <<exists, switch, row, lost, job, tried, slots, admin, updater,
              power, phase>>

PlaceOrder(r) ==
  /\ job[r].kind = "redeem"
  /\ job[r].account \in exists \ pending
  /\ Moves(r, "exec", "ordering")
  /\ pending' = pending \cup {job[r].account}
  /\ UNCHANGED result /\ RedeemUnchanged

(* The platform's answer and the final UPDATE of redeem_states, which      *)
(* touches no row once the account is deleted.                             *)
OrderAnswered(r) ==
  /\ \/ Moves(r, "ordering", "succeeded") /\ UNCHANGED result
     \/ Ends(r, "ordering", "failed")
  /\ pending' = pending \ {job[r].account}
  /\ RedeemUnchanged

OrderUnknown(r) ==
  /\ \/ Ends(r, "ordering", "failed")
     \/ Cancelled(r) /\ Ends(r, "ordering", "stopped")
  /\ pending' = pending \cup ({job[r].account} \intersect exists)
  /\ RedeemUnchanged

(* After a success: a usage task starts the redeem task that is due, from  *)
(* its own goroutine and while it is still active.                         *)
ChainRedeem(r) ==
  /\ job[r].kind = "pc"
  /\ Moves(r, "succeeded", "chain")
  /\ Reserve(r, [account |-> job[r].account, kind |-> "redeem",
                 trigger |-> "after_pc"])
  /\ "redeem" \in Kind
  /\ UNCHANGED <<store, row, lost, job, result, tried, active, cancelled,
                 admin, updater, power, phase>>

(* Nothing due, StartTask refused, or StartTask has returned.              *)
Succeed(r) ==
  /\ \/ Ends(r, "succeeded", "success")
     \/ start[r].at = "idle" /\ Ends(r, "chain", "success")
  /\ UNCHANGED tried /\ RowUnchanged /\ RunUnchanged

Save(r) ==
  /\ Moves(r, "save", "remove")
  /\ UpdateRun(r, result[r])
  /\ UNCHANGED <<result, tried>> /\ RunUnchanged

(* The goroutine leaves m.active, saved or not, and its locals end with it. *)
Remove(r) ==
  /\ Moves(r, "remove", "gone")
  /\ active' = active \ {r}
  /\ result' = [result EXCEPT ![r] = "none"] /\ tried' = [tried EXCEPT ![r] = 0]
  /\ UNCHANGED <<store, row, lost, job, starting, cancelled, start, admin,
                 updater, power, phase>>

RunStepOf(r) ==
  \/ Begin(r) \/ Check(r) \/ Delay(r) \/ Execute(r) \/ Retry(r)
  \/ RefuseOrder(r) \/ PlaceOrder(r) \/ OrderAnswered(r) \/ OrderUnknown(r)
  \/ ChainRedeem(r) \/ Succeed(r) \/ Save(r) \/ Remove(r)

StartStepOf(s) ==
  \/ ReadAccount(s) \/ StoreFails(s) \/ GiveUp(s) \/ Register(s)
  \/ MarkRefused(s) \/ Launch(s)
  \/ \E r \in Run : AddRun(s, r)
-----------------------------------------------------------------------------
(* The account pages: accountRoute, saveAccount, taskRoute, ResolveRedeem  *)

AdminUnchanged ==
  UNCHANGED <<pending, runs, starting, active, start, updater, power, phase>>

SwitchOn(a, s) ==
  /\ Up /\ a \in exists
  /\ switch' = [switch EXCEPT ![a][s] = "on"]
  /\ UNCHANGED <<exists, cancelled, admin>> /\ AdminUnchanged

(* The toggle writes the column first and stops the matching runs after.   *)
SwitchOff(h, a, s) ==
  /\ Up /\ a \in exists
  /\ admin[h].at = "idle"
  /\ switch' = [switch EXCEPT ![a][s] = "toggledOff"]
  /\ admin' = [admin EXCEPT ![h] = [at |-> "collect", account |-> a,
                                    switch |-> s, found |-> {}]]
  /\ UNCHANGED <<exists, cancelled>> /\ AdminUnchanged

(* stopAccountTaskType collects the cancel functions under the lock and    *)
(* calls them outside it.                                                  *)
Concerns(a, s, j) == j.account = a /\ s \in {"account", j.kind}

CollectRuns(h) ==
  /\ Up
  /\ admin[h].at = "collect"
  /\ admin' = [admin EXCEPT
       ![h].at = "cancel",
       ![h].found = {r \in active : Concerns(admin[h].account,
                                             admin[h].switch, job[r])}]
  /\ UNCHANGED <<exists, switch, cancelled>> /\ AdminUnchanged

CancelRuns(h) ==
  /\ Up
  /\ admin[h].at = "cancel"
  /\ cancelled' = cancelled \cup admin[h].found
  /\ admin' = [admin EXCEPT ![h] = Quiescent]
  /\ UNCHANGED <<exists, switch>> /\ AdminUnchanged

(* The account form writes every column and stops nothing.                 *)
SaveAccount(a) ==
  /\ Up /\ a \in exists
  /\ \E f \in [Switch -> {"on", "savedOff"}] : switch' = [switch EXCEPT ![a] = f]
  /\ UNCHANGED <<exists, cancelled, admin>> /\ AdminUnchanged

(* Deleting an account deletes its redeem_states row with it and stops     *)
(* nothing either.                                                         *)
DeleteAccount(a) ==
  /\ Up /\ a \in exists
  /\ exists' = exists \ {a}
  /\ pending' = pending \ {a}
  /\ UNCHANGED <<switch, cancelled, admin, runs, starting, active, start,
                 updater, power, phase>>

StopTask(r) ==
  /\ Up /\ r \in active \ cancelled
  /\ cancelled' = cancelled \cup {r}
  /\ UNCHANGED <<exists, switch, admin>> /\ AdminUnchanged

ResolveRedeem(a) ==
  /\ Up /\ a \in pending
  /\ pending' = pending \ {a}
  /\ UNCHANGED <<exists, switch, cancelled, admin, runs, starting, active,
                 start, updater, power, phase>>

AdminStepOf(h) == CollectRuns(h) \/ CancelRuns(h)

Toggles ==
  \/ \E a \in Account, s \in Switch :
       SwitchOn(a, s) \/ \E h \in Admin : SwitchOff(h, a, s)
  \/ \E h \in Admin : AdminStepOf(h)
Forms == \E a \in Account : SaveAccount(a) \/ DeleteAccount(a)
Buttons == (\E r \in Run : StopTask(r)) \/ (\E a \in Account : ResolveRedeem(a))
-----------------------------------------------------------------------------
(* PrepareForUpdate and CancelUpdateMaintenance.  The update manager runs  *)
(* one update at a time.                                                   *)

UpdateUnchanged == UNCHANGED <<store, runs, slots, admin, power, phase>>

BeginPreparation ==
  /\ phase = "up" /\ update = "idle"
  /\ ~power.on
  /\ ~maintenance
  /\ maintenance' = TRUE
  /\ update' = "poll"
  /\ UNCHANGED short /\ UpdateUnchanged

ActiveOf(kinds) == \E r \in active : job[r].kind \in kinds
ShortActive == ActiveOf({"login", "chat"})
ShortRunning == starting # {} \/ ActiveOf({"login", "chat"})

(* The snapshot under the lock: usage and redeem runs reject the update.   *)
Poll ==
  /\ Up /\ update = "poll"
  /\ IF ActiveOf({"pc", "redeem"})
     THEN update' = "cancel" /\ UNCHANGED short
     ELSE update' = "ledger" /\ short' = ShortRunning
  /\ UNCHANGED maintenance /\ UpdateUnchanged

(* HasPendingRedeem, then the decision on the snapshot taken before it.  A *)
(* failed query and the end of the two minutes cancel.                     *)
ReadLedger ==
  /\ Up /\ update = "ledger"
  /\ \/ update' = "cancel"
     \/ /\ pending = {}
        /\ update' = IF short THEN "poll" ELSE "prepared"
  /\ UNCHANGED <<maintenance, short>> /\ UpdateUnchanged

(* runUpdateInstall also cancels a prepared update when a later step       *)
(* fails, and RefreshUpdateResult when the executor reports a failure.     *)
CancelMaintenance ==
  /\ Up /\ update \in {"cancel", "prepared"}
  /\ maintenance' = FALSE
  /\ update' = "idle"
  /\ UNCHANGED short /\ UpdateUnchanged

UpdateStep == Poll \/ ReadLedger \/ (update = "cancel" /\ CancelMaintenance)
-----------------------------------------------------------------------------
(* What StartPowerBatch and runPowerBatch do to the task runner            *)

PowerUnchanged == UNCHANGED <<store, runs, starting, active, start, admin,
                              updater, phase>>

BeginPower(accounts) ==
  /\ phase \in {"up", "closing"}
  /\ ~maintenance /\ ~power.on
  /\ power' = [on |-> TRUE, accounts |-> accounts, quiet |-> {}]
  /\ UNCHANGED cancelled /\ PowerUnchanged

DesktopRuns(a) ==
  {r \in active : job[r].account = a /\ job[r].kind \in DesktopKind}

StopDesktopRuns(a) ==
  /\ Up /\ a \in power.accounts
  /\ cancelled' = cancelled \cup DesktopRuns(a)
  /\ power' = [power EXCEPT !.quiet = @ \cup {a}]
  /\ PowerUnchanged

EndPower ==
  /\ Up /\ power.on
  /\ power' = NoPower
  /\ UNCHANGED cancelled /\ PowerUnchanged

PowerNext ==
  \/ \E accounts \in (SUBSET Account) \ {{}} : BeginPower(accounts)
  \/ \E a \in Account : StopDesktopRuns(a)
  \/ EndPower
-----------------------------------------------------------------------------
(* The process: Close, a crash at any time, and the restart                *)

PhaseUnchanged == UNCHANGED <<store, runs, slots, admin, updater, power>>

(* m.cancel: every run's context derives from m.ctx.  The web server has   *)
(* already waited for the update goroutine.                                *)
CloseContext ==
  /\ phase = "up" /\ update \in {"idle", "prepared"}
  /\ phase' = "closing"
  /\ PhaseUnchanged

CloseGate ==
  /\ phase = "closing" /\ phase' = "gated"
  /\ PhaseUnchanged

(* m.wg.Wait counts the goroutines that were launched.                     *)
Exit ==
  /\ phase = "gated"
  /\ \A r \in Run : at[r] \notin Alive
  /\ ~power.on
  /\ phase' = "exited"
  /\ PhaseUnchanged

(* The process ends: what is not in the store is lost.                     *)
ProcessEnds ==
  /\ phase' = "down"
  /\ at' = [r \in Run |-> IF at[r] \in Alive THEN "gone" ELSE at[r]]
  /\ result' = [r \in Run |-> "none"] /\ tried' = [r \in Run |-> 0]
  /\ starting' = {} /\ active' = {} /\ cancelled' = {}
  /\ start' = [s \in Starter |-> Idle]
  /\ admin' = [h \in Admin |-> Quiescent]
  /\ maintenance' = FALSE /\ update' = "idle" /\ short' = FALSE
  /\ power' = NoPower
  /\ UNCHANGED <<store, row, lost, job>>

End == phase = "exited" /\ ProcessEnds
Crash == Up /\ ProcessEnds

(* Store.Init resets what the previous process left unfinished.            *)
ResetRunning(status) == status = "running"
ResetEvery(status) == status # "none"
Reset(status) == status \in Unfinished

Restart ==
  /\ phase = "down" /\ phase' = "up"
  /\ row' = [r \in Run |-> IF Reset(row[r]) THEN "interrupted" ELSE row[r]]
  /\ lost' = {}
  /\ UNCHANGED <<store, job, at, result, tried, slots, admin, updater,
                 power>>

Tasks ==
  \/ \E c \in Caller : Call(c)
  \/ \E s \in Starter : StartStepOf(s)
  \/ \E r \in Run : RunStepOf(r)
Updating == BeginPreparation \/ Poll \/ ReadLedger \/ CancelMaintenance
ShutDown == CloseGate \/ Exit \/ End

Next ==
  \/ Tasks
  \/ "toggles" \in Actors /\ Toggles
  \/ "forms" \in Actors /\ Forms
  \/ "buttons" \in Actors /\ Buttons
  \/ "update" \in Actors /\ Updating
  \/ "power" \in Actors /\ PowerNext
  \/ "close" \in Actors /\ (CloseContext \/ ShutDown)
  \/ "crash" \in Actors /\ Crash
  \/ Restart

Spec == Init /\ [][Next]_vars

(* The Go scheduler runs every goroutine that can move, every execution,   *)
(* wait and query has a time limit, and the container or service manager   *)
(* restarts the process.  Users, switches and crashes owe nothing, and a   *)
(* shutdown that has begun goes on.                                        *)
Fairness ==
  /\ \A s \in Starter : WF_vars(StartStepOf(s))
  /\ \A r \in Run : WF_vars(RunStepOf(r))
  /\ \A h \in Admin : WF_vars(AdminStepOf(h))
  /\ WF_vars(UpdateStep)
  /\ WF_vars("close" \in Actors /\ ShutDown)
  /\ WF_vars(Restart)

FairSpec == Spec /\ Fairness
-----------------------------------------------------------------------------
TypeOK ==
  /\ exists \subseteq Account /\ pending \subseteq Account
  /\ switch \in [Account -> [Switch -> SwitchState]]
  /\ row \in [Run -> RowStatus] /\ lost \subseteq Run
  /\ job \in [Run -> Job \cup {NoJob}]
  /\ at \in [Run -> RunStep]
  /\ result \in [Run -> RowStatus]
  /\ tried \in [Run -> 0..Attempts]
  /\ starting \subseteq Slot /\ active \subseteq Run /\ cancelled \subseteq Run
  /\ start \in [Starter -> StartRecord]
  /\ admin \in [Admin -> AdminRecord]
  /\ maintenance \in BOOLEAN /\ short \in BOOLEAN
  /\ update \in {"idle", "poll", "ledger", "cancel", "prepared"}
  /\ power \in [on : BOOLEAN, accounts : SUBSET Account,
                quiet : SUBSET Account]
  /\ phase \in {"up", "closing", "gated", "exited", "down"}

(* No two goroutines ever work on the same account and task type at once,  *)
(* from the launch of a run until its status is saved and its entry        *)
(* removed: the point of m.starting and m.active in StartTask and run.     *)
SlotExclusive ==
  \A r, q \in Run :
    /\ at[r] \in Alive /\ at[q] \in Alive
    /\ SlotOf(job[r]) = SlotOf(job[q])
    => r = q

(* When PrepareForUpdate has returned nil, nothing runs or is being        *)
(* admitted and no redeem order is unresolved, and it stays so until the   *)
(* maintenance is cancelled: the database backed up next holds no running  *)
(* row, but for those whose last UPDATE failed, and no order in flight.    *)
PreparedQuiescent ==
  update = "prepared" =>
    /\ maintenance /\ ~power.on
    /\ starting = {} /\ active = {}
    /\ \A r \in Run : at[r] \notin Alive /\ (row[r] = "running" => r \in lost)
    /\ pending = {}

(* Once a toggle of the account list has turned an account or one of its   *)
(* scheduled tasks off and its handler has returned, no run that switch    *)
(* governs goes on uncancelled, whenever StartTask and run had read it.    *)
Governed(a, s, j) ==
  /\ j.account = a
  /\ s = "account" \/ (s = j.kind /\ j.trigger = "schedule")

StoppedWhenOff(a, s) ==
  (\A h \in Admin : ~(admin[h].account = a /\ admin[h].switch = s)) =>
    \A r \in Run :
      /\ Governed(a, s, job[r])
      /\ at[r] \in {"delay", "exec", "ordering", "retry"}
      => Cancelled(r)

ToggleStopsRuns ==
  \A a \in exists, s \in Switch :
    switch[a][s] = "toggledOff" => StoppedWhenOff(a, s)

(* Once the power batch has stopped the desktop runs of an account, and    *)
(* until the batch ends, no login or usage run of it is live and           *)
(* uncancelled: none slips in while the desktop is being powered.          *)
PowerExclusive ==
  \A r \in Run :
    /\ at[r] \in Alive
    /\ job[r].account \in power.quiet
    /\ job[r].kind \in DesktopKind
    => Cancelled(r)

(* While the process is up, an unfinished row is the row of an active run, *)
(* of a StartTask that has yet to return, or one whose closing UPDATE      *)
(* failed: nothing but the store itself leaves the task page a run that    *)
(* nobody will ever finish.                                                *)
RowsAreTracked ==
  Up =>
    \A r \in Run : row[r] \in Unfinished =>
      \/ r \in active
      \/ \E s \in Starter : start[s].run = r
      \/ r \in lost

(* When Close has returned, no run is alive, and a row that says 'running' *)
(* is one whose closing UPDATE failed.                                     *)
CleanExit ==
  phase = "exited" =>
    \A r \in Run : at[r] \notin Alive /\ (row[r] = "running" => r \in lost)

(* What the runner promises about task_runs, the page's history: a run is  *)
(* queued, admitted to its slot or refused, begun, given at most one final *)
(* status and only then, or when that write has failed, taken out of       *)
(* m.active; a restart closes exactly what was left open.                  *)
Ledger == INSTANCE RunLedger WITH
  NoSlot <- SlotOf(NoJob),
  slot <- [r \in Run |-> SlotOf(job[r])],
  working <- active,
  missed <- lost,
  alive <- phase # "down"

ImplementsLedger == Ledger!Spec

(* Every run that was queued gets a final status, also across crashes and  *)
(* restarts, unless the UPDATE that writes it fails; a row left open by    *)
(* such a failure is closed by the next start, if there is one.            *)
OpenRowsClose ==
  \A r \in Run :
    row[r] \in Unfinished ~> row[r] \in Finished \/ (r \in lost /\ Up)

(* PrepareForUpdate always decides: it does not wait forever on a slot     *)
(* nobody will free.                                                       *)
PreparationDecides ==
  update \in {"poll", "ledger"} ~> update \in {"idle", "cancel", "prepared"}
=============================================================================
