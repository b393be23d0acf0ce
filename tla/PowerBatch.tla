------------------------------ MODULE PowerBatch ------------------------------
(***************************************************************************)
(* The power batch of internal/service/desktop.go and the holds of         *)
(* internal/storage/desktop.go.  StartPowerBatch records a job and starts  *)
(* one worker; the worker puts a hold on a desktop, stops the sessions of  *)
(* its account, submits the power request and records the answer.  A hold  *)
(* keeps the automatic keepalive away from a desktop.  The web desktop     *)
(* takes, renews and returns holds of its own, a scheduler expires them,   *)
(* and the process may close or crash at any step.                         *)
(*                                                                         *)
(* One action is one SQL statement (the store has a single connection),    *)
(* one critical section or one step between two of them.                   *)
(***************************************************************************)
EXTENDS Naturals, FiniteSets

CONSTANTS
  Job,         \* ids power_jobs can hand out: bounds the number of batches
  Target,      \* the desktops
  Account,     \* their accounts
  Owner,       \* [Target -> Account]
  Action,      \* the power actions in use
  MaxFaults,   \* statements of the store that may fail
  MaxStarts,   \* starts of an account's session under way at a time
  MayStop,     \* whether the process is ever stopped or crashes
  NoJob,
  NoTarget

ASSUME ConstantsAssumption ==
  /\ Owner \in [Target -> Account]
  /\ Action \subseteq {"poweron", "shutdown", "reboot"}
  /\ MaxFaults \in Nat /\ MaxStarts \in Nat /\ MayStop \in BOOLEAN
  /\ NoJob \notin Job /\ NoTarget \notin Target

VARIABLES
  job,       \* [Job -> JobRecord]: power_jobs
  item,      \* [Job -> [Target -> ItemStatus]]: power_items.status
  hold,      \* [Target -> Hold]: desktop_holds
  active,    \* m.powerActive
  accounts,  \* m.powerAccounts
  worker,    \* the goroutine of runPowerBatch
  owed,      \* accounts that ended batches still have to reset
  expiry,    \* the goroutine of desktopHoldScheduler
  session,   \* [Account -> Sessions]: the account's keepalive sessions
  sent,      \* [Job -> [Target -> Nat]], history: requests submitted
  phase,     \* the life of the process
  faults     \* store failures so far

vars == <<job, item, hold, active, accounts, worker, owed, expiry, session,
          sent, phase, faults>>
-----------------------------------------------------------------------------
(* Data *)

JobRecord == [action : Action \cup {"none"},
              status : {"none", "running", "finished", "interrupted"}]
FreeJob == [action |-> "none", status |-> "none"]

Open == {"queued", "validating", "submitting"}
Final == {"accepted", "failed", "unknown", "cancelled"}
ItemStatus == {"none"} \cup Open \cup Final

(* until_unix is 0 ("forever"), ahead of the clock or behind it.           *)
Hold == [until : {"none", "forever", "future", "past"},
         reason : {"none", "shutdown", "reboot", "check", "browser"}]
NoHold == [until |-> "none", reason |-> "none"]
ShutdownHold == [until |-> "forever", reason |-> "shutdown"]
RebootHold == [until |-> "future", reason |-> "reboot"]
CheckHold == [until |-> "future", reason |-> "check"]
BrowserHold == [until |-> "future", reason |-> "browser"]

HoldFor(action) == CASE action = "shutdown" -> ShutdownHold
                     [] action = "reboot" -> RebootHold
                     [] OTHER -> NoHold

(* desktopHeld: a hold that has lapsed holds nothing.                      *)
Held(t) == hold[t].until \in {"forever", "future"}

(* A session is a startAccount that has registered: todo are the desktops  *)
(* it has not looked at yet, linked those whose hold it found free and     *)
(* which it starts and connects to, busy until it has walked all of them.  *)
(* History: seen is the batch that ran when the start was decided, strayed *)
(* whether the session has ever been missing from m.clients.               *)
Session == [live : BOOLEAN, busy : BOOLEAN, todo : SUBSET Target,
            linked : SUBSET Target, seen : Job \cup {NoJob}, strayed : BOOLEAN]
NoSession == [live |-> FALSE, busy |-> FALSE, todo |-> {}, linked |-> {},
              seen |-> NoJob, strayed |-> FALSE]

(* Of one account: starts decided and not registered yet, by the batch     *)
(* they saw (two that saw the same count as one); the session in           *)
(* m.clients; whether a cancelled one is still to write its entry there;   *)
(* and a live one whose entry such a write has replaced (one at a time).   *)
Sessions == [starts : SUBSET (Job \cup {NoJob}), entry : Session,
             stale : BOOLEAN, lost : Session]
NoSessions == [starts |-> {}, entry |-> NoSession, stale |-> FALSE,
               lost |-> NoSession]

WorkerStep == {"idle", "item", "verdict", "snapshot", "hold", "stop", "submit",
               "operate", "answer", "record", "wait", "finish", "close",
               "release"}
Outcome == {"none", "accepted", "refused", "unrestored", "uncertain"}
WorkerRecord ==
  [at : WorkerStep, target : Target \cup {NoTarget}, todo : SUBSET Target,
   listed : [Account -> {"unread", "ok", "error"}], prev : Hold,
   changed : SUBSET Account, outcome : Outcome]
IdleWorker == [at |-> "idle", target |-> NoTarget, todo |-> {},
               listed |-> [a \in Account |-> "unread"], prev |-> NoHold,
               changed |-> {}, outcome |-> "none"]
ExpiryRecord == [at : {"idle", "select", "delete", "reset"}, ids : SUBSET Account]
IdleExpiry == [at |-> "idle", ids |-> {}]

Alive == phase # "down"

Init ==
  /\ job = [j \in Job |-> FreeJob]
  /\ item = [j \in Job |-> [t \in Target |-> "none"]]
  /\ hold = [t \in Target |-> NoHold]
  /\ active = NoJob /\ accounts = {}
  /\ worker = IdleWorker /\ owed = {} /\ expiry = IdleExpiry
  /\ session = [a \in Account |-> NoSessions]
  /\ sent = [j \in Job |-> [t \in Target |-> 0]]
  /\ phase = "up" /\ faults = 0
-----------------------------------------------------------------------------
(* StartPowerBatch *)

Fine == UNCHANGED faults
Fault == faults < MaxFaults /\ faults' = faults + 1

(* m.cancel runs before Close sets m.closing, so a batch may still start   *)
(* in "stopping".  The order of the targets is the user's: the worker      *)
(* takes any of them next.                                                 *)
Enlist(j, act, targets) ==
  /\ job[j] = FreeJob
  /\ targets # {}
  /\ job' = [job EXCEPT ![j] = [action |-> act, status |-> "running"]]
  /\ item' = [item EXCEPT ![j] =
                [t \in Target |-> IF t \in targets THEN "queued" ELSE "none"]]
  /\ active' = j
  /\ accounts' = {Owner[t] : t \in targets}
  /\ worker' = [IdleWorker EXCEPT !.at = "item", !.todo = targets]

StartPowerBatch ==
  /\ phase \in {"up", "stopping"}
  /\ active = NoJob
  /\ \E j \in Job, act \in Action, targets \in SUBSET Target : Enlist(j, act, targets)
  /\ UNCHANGED <<hold, owed, expiry, session, sent, phase, faults>>
-----------------------------------------------------------------------------
(* runPowerBatch *)

Goto(step) == worker' = [worker EXCEPT !.at = step]
SetPowerItem(status) == item' = [item EXCEPT ![active][worker.target] = status]

(* The head of the loop: a cancelled context ends the batch, and so does a *)
(* failed write.                                                           *)
Take(t) ==
  /\ worker' = [worker EXCEPT !.at = "verdict", !.target = t, !.prev = NoHold,
                              !.outcome = "none", !.todo = @ \ {t}]
  /\ item' = [item EXCEPT ![active][t] = "validating"]

NextItem ==
  /\ worker.at = "item"
  /\ \/ worker.todo = {} /\ Goto("finish") /\ Fine /\ UNCHANGED item
     \/ worker.todo # {} /\ phase # "up" /\ Goto("close") /\ Fine /\ UNCHANGED item
     \/ phase = "up" /\ (\E t \in worker.todo : Take(t)) /\ Fine
     \/ worker.todo # {} /\ phase = "up" /\ Goto("close") /\ Fault /\ UNCHANGED item
  /\ UNCHANGED <<job, hold, active, accounts, owed, expiry, session, sent, phase>>

(* An item that fails before its hold changed; the error of the write is   *)
(* dropped.                                                                *)
Skip(listed) ==
  /\ worker' = [worker EXCEPT !.at = "item", !.listed = listed, !.prev = NoHold]
  /\ \/ SetPowerItem("failed") /\ Fine
     \/ UNCHANGED item /\ Fault

(* The desktops of an account are read once, and so is its error; a        *)
(* desktop may be missing from the list or forbidden.                      *)
Verdict ==
  /\ worker.at = "verdict"
  /\ LET a == Owner[worker.target] IN
     \E read \in {"ok", "error"} :
       /\ worker.listed[a] \in {"unread", read}
       /\ LET listed == [worker.listed EXCEPT ![a] = read] IN
          \/ Skip(listed)
          \/ /\ read = "ok"
             /\ worker' = [worker EXCEPT !.at = "snapshot", !.listed = listed]
             /\ UNCHANGED <<item, faults>>
  /\ UNCHANGED <<job, hold, active, accounts, owed, expiry, session, sent, phase>>

Snapshot ==
  /\ worker.at = "snapshot"
  /\ \/ /\ worker' = [worker EXCEPT !.at = "hold", !.prev = hold[worker.target]]
        /\ UNCHANGED <<item, faults>>
     \/ /\ faults < MaxFaults
        /\ Skip(worker.listed)
  /\ UNCHANGED <<job, hold, active, accounts, owed, expiry, session, sent, phase>>

PlaceHold ==
  /\ worker.at = "hold"
  /\ \/ /\ hold' = [hold EXCEPT ![worker.target] = HoldFor(job[active].action)]
        /\ worker' = [worker EXCEPT !.at = "stop", !.changed = @ \cup {Owner[worker.target]}]
        /\ UNCHANGED <<item, faults>>
     \/ /\ faults < MaxFaults
        /\ Skip(worker.listed)
        /\ UNCHANGED hold
  /\ UNCHANGED <<job, active, accounts, owed, expiry, session, sent, phase>>

(* m.clients[id].cancel and delete.  A session that is not done may be     *)
(* between setState's look at its context and its write.                   *)
Reset(ids) ==
  \E writers \in SUBSET {a \in ids : session[a].entry.busy} :
    session' = [a \in Account |->
      IF a \in ids
      THEN [session[a] EXCEPT !.entry = NoSession, !.stale = @ \/ a \in writers]
      ELSE session[a]]

StopSessions ==
  /\ worker.at = "stop"
  /\ Reset({Owner[worker.target]})
  /\ Goto("submit")
  /\ UNCHANGED <<job, item, hold, active, accounts, owed, expiry, sent, phase, faults>>

Submit ==
  /\ worker.at = "submit"
  /\ \/ SetPowerItem("submitting") /\ Goto("operate") /\ Fine
     \/ UNCHANGED item /\ Goto("close") /\ Fault
  /\ UNCHANGED <<job, hold, active, accounts, owed, expiry, session, sent, phase>>

(* OperateDesktop: the platform receives the request, unless the context   *)
(* is cancelled before it leaves.                                          *)
Operate ==
  /\ worker.at = "operate"
  /\ \/ sent' = [sent EXCEPT ![active][worker.target] = @ + 1]
     \/ phase # "up" /\ UNCHANGED sent
  /\ Goto("answer")
  /\ UNCHANGED <<job, item, hold, active, accounts, owed, expiry, session, phase, faults>>

(* The answer, and what it does to the hold: a refusal of the platform     *)
(* puts the previous hold back, an uncertain start pauses for five         *)
(* minutes; failures of these writes only reach the message.               *)
AdjustedWhenUncertain(outcome) ==
  IF outcome = "uncertain" /\ job[active].action = "poweron" THEN CheckHold
  ELSE hold[worker.target]
Adjusted(outcome) ==
  IF outcome = "refused" THEN worker.prev
  ELSE IF outcome = "uncertain" /\ job[active].action = "poweron" THEN CheckHold
  ELSE hold[worker.target]
Answer ==
  /\ worker.at = "answer"
  /\ \E outcome \in {"accepted", "refused", "uncertain"} :
       /\ outcome # "uncertain" => sent[active][worker.target] > 0
       /\ \/ /\ hold' = [hold EXCEPT ![worker.target] = Adjusted(outcome)]
             /\ worker' = [worker EXCEPT !.at = "record", !.outcome = outcome]
             /\ Fine
          \/ /\ outcome # "accepted"
             /\ worker' = [worker EXCEPT !.at = "record",
                            !.outcome = IF outcome = "refused" THEN "unrestored" ELSE outcome]
             /\ Fault /\ UNCHANGED hold
  /\ UNCHANGED <<job, item, active, accounts, owed, expiry, session, sent, phase>>

StatusOf(outcome) == CASE outcome = "accepted" -> "accepted"
                       [] outcome = "uncertain" -> "unknown"
                       [] OTHER -> "failed"
Leave(step) ==
  worker' = [worker EXCEPT !.at = step, !.prev = NoHold, !.outcome = "none"]
RecordOrRetry ==
  /\ worker.at = "record"
  /\ \/ SetPowerItem(StatusOf(worker.outcome)) /\ Fine
        /\ Leave(IF worker.outcome = "uncertain" THEN "operate" ELSE "wait")
     \/ UNCHANGED item /\ Leave("close") /\ Fault
  /\ UNCHANGED <<job, hold, active, accounts, owed, expiry, session, sent, phase>>
Record ==
  /\ worker.at = "record"
  /\ \/ SetPowerItem(StatusOf(worker.outcome)) /\ Leave("wait") /\ Fine
     \/ UNCHANGED item /\ Leave("close") /\ Fault
  /\ UNCHANGED <<job, hold, active, accounts, owed, expiry, session, sent, phase>>

(* One second, or the end of the context, whichever select takes.          *)
Wait ==
  /\ worker.at = "wait"
  /\ Goto("item") \/ (phase # "up" /\ Goto("close"))
  /\ UNCHANGED <<job, item, hold, active, accounts, owed, expiry, session, sent, phase, faults>>

Finish ==
  /\ worker.at = "finish"
  /\ \/ /\ job' = [job EXCEPT ![active].status = "finished"]
        /\ Goto("release") /\ Fine
     \/ UNCHANGED job /\ Goto("close") /\ Fault
  /\ UNCHANGED <<item, hold, active, accounts, owed, expiry, session, sent, phase>>

(* The first deferred function, when the batch is not done: what was not   *)
(* submitted is cancelled, what was in flight is unknown.  Each of the     *)
(* three statements may fail, unnoticed.                                   *)
ClosedInFlight(status) == IF status \in Open THEN "cancelled" ELSE status
ClosedQueued(status) == CASE status = "queued" -> "cancelled"
                          [] status = "submitting" -> "unknown"
                          [] OTHER -> status
Closed(status) == CASE status \in {"queued", "validating"} -> "cancelled"
                    [] status = "submitting" -> "unknown"
                    [] OTHER -> status
Close(items, lost) ==
  [t \in Target |-> IF items[t] \in lost THEN items[t] ELSE Closed(items[t])]
CloseJob ==
  /\ worker.at = "close"
  /\ \E lost \in SUBSET {"queue", "submit", "job"} :
       /\ faults + Cardinality(lost) <= MaxFaults
       /\ faults' = faults + Cardinality(lost)
       /\ item' = [item EXCEPT ![active] =
            Close(@, (IF "queue" \in lost THEN {"queued", "validating"} ELSE {})
                     \cup (IF "submit" \in lost THEN {"submitting"} ELSE {}))]
       /\ IF "job" \in lost THEN UNCHANGED job
          ELSE job' = [job EXCEPT ![active].status = "interrupted"]
  /\ Goto("release")
  /\ UNCHANGED <<hold, active, accounts, owed, expiry, session, sent, phase>>

(* The second deferred function.  The batch is over before its changed     *)
(* accounts are reset, so the next one may start in between; the resets    *)
(* the goroutine still has to do are in owed.                              *)
Release ==
  /\ worker.at = "release"
  /\ active' = NoJob /\ accounts' = {}
  /\ owed' = owed \cup worker.changed
  /\ worker' = IdleWorker
  /\ UNCHANGED <<job, item, hold, expiry, session, sent, phase, faults>>

(* resetDesktopSessions; reconcileAccountKeepalive, its last part, is      *)
(* Launch.                                                                 *)
ResetChanged ==
  /\ \E a \in owed : Reset({a}) /\ owed' = owed \ {a}
  /\ UNCHANGED <<job, item, hold, active, accounts, worker, expiry, sent, phase,
                 faults>>
-----------------------------------------------------------------------------
(* The other users of the holds.  The web routes and StartPowerBatch       *)
(* exclude each other by desktopControlMu, so their check of powerActive   *)
(* is still true when they write.                                          *)

Others == <<job, item, active, accounts, worker, owed, expiry, sent, phase>>

(* DesktopBrowserLogin takes over whatever hold there is.                  *)
OpenBrowser(t) ==
  /\ Alive /\ active = NoJob
  /\ hold' = [hold EXCEPT ![t] = BrowserHold]
  /\ Reset({Owner[t]})
  /\ UNCHANGED <<Others, faults>>

(* RenewDesktopBrowser, the heartbeat of an open page, even during a batch.*)
RenewBrowser(t) ==
  /\ Alive
  /\ hold[t].reason = "browser"
  /\ hold' = [hold EXCEPT ![t].until = "future"]
  /\ UNCHANGED <<Others, session, faults>>

(* ResumeDesktopBrowser, when the last page is gone: only a browser hold.  *)
ResumeBrowser(t) ==
  /\ Alive /\ active = NoJob
  /\ hold[t].reason = "browser"
  /\ hold' = [hold EXCEPT ![t] = NoHold]
  /\ Reset({Owner[t]})
  /\ UNCHANGED <<Others, faults>>

(* ResumeDesktop, the button: any hold.                                    *)
ResumeDesktop(t) ==
  /\ Alive /\ active = NoJob
  /\ hold' = [hold EXCEPT ![t] = NoHold]
  /\ Reset({Owner[t]})
  /\ UNCHANGED <<Others, faults>>

(* The clock passes until_unix; so it does for the worker's snapshot.  A   *)
(* hold of the batch outlives its request: five minutes against thirty     *)
(* seconds.                                                                *)
Lapsed(h) == IF h.until = "future" THEN [h EXCEPT !.until = "past"] ELSE h
InFlight(t) == worker.target = t /\ worker.at \in {"stop", "submit", "operate", "answer"}
HoldLapses ==
  /\ \/ \E t \in Target :
          /\ hold[t].until = "future" /\ ~InFlight(t)
          /\ hold' = [hold EXCEPT ![t] = Lapsed(@)]
          /\ UNCHANGED worker
     \/ /\ worker.at # "idle" /\ worker.prev.until = "future"
        /\ worker' = [worker EXCEPT !.prev = Lapsed(@)]
        /\ UNCHANGED hold
  /\ UNCHANGED <<job, item, active, accounts, owed, expiry, session, sent, phase, faults>>

(* desktopHoldScheduler: the busy check, then ExpireDesktopHolds, whose    *)
(* SELECT and DELETE each read the clock, then the accounts it returned.   *)
ExpiryTick ==
  /\ phase = "up" /\ expiry.at = "idle" /\ active = NoJob
  /\ expiry' = [IdleExpiry EXCEPT !.at = "select"]
  /\ UNCHANGED <<job, item, hold, active, accounts, worker, owed, session, sent, phase, faults>>

PastOrForever == {t \in Target : hold[t].until \in {"past", "forever"}}
Past == {t \in Target : hold[t].until = "past"}
ExpirySelect ==
  /\ expiry.at = "select"
  /\ \/ expiry' = [at |-> "delete", ids |-> {Owner[t] : t \in Past}] /\ Fine
     \/ expiry' = IdleExpiry /\ Fault
  /\ UNCHANGED <<job, item, hold, active, accounts, worker, owed, session, sent, phase>>

ExpiryDelete ==
  /\ expiry.at = "delete"
  /\ \/ /\ hold' = [t \in Target |-> IF t \in Past THEN NoHold ELSE hold[t]]
        /\ expiry' = [expiry EXCEPT !.at = "reset"]
        /\ Fine
     \/ expiry' = IdleExpiry /\ Fault /\ UNCHANGED hold
  /\ UNCHANGED <<job, item, active, accounts, worker, owed, session, sent, phase>>

ExpiryReset ==
  /\ expiry.at = "reset"
  /\ Reset(expiry.ids)
  /\ expiry' = IdleExpiry
  /\ UNCHANGED <<job, item, hold, active, accounts, worker, owed, sent, phase, faults>>

-----------------------------------------------------------------------------
(* The keepalive of an account, as far as it meets the power batch: who    *)
(* wants a session, and when, is in Keepalive.                             *)

LaunchAnytime(a) ==
  /\ phase = "up" /\ ~session[a].entry.live
  /\ Cardinality(session[a].starts \cup {active}) <= MaxStarts
  /\ session' = [session EXCEPT ![a].starts = @ \cup {active}]

(* reconcileAccountKeepalive looks at the batch and the entry under the    *)
(* lock, and launches startAccount after it.                               *)
Launch(a) ==
  /\ phase = "up" /\ a \notin accounts /\ ~session[a].entry.live
  /\ Cardinality(session[a].starts \cup {active}) <= MaxStarts
  /\ session' = [session EXCEPT ![a].starts = @ \cup {active}]

(* startAccount takes the lock itself: it looks at the entry again, but    *)
(* not at the batch.                                                       *)
Registered(a, batch) ==
  [live |-> TRUE, busy |-> TRUE, todo |-> {t \in Target : Owner[t] = a},
   linked |-> {}, seen |-> batch, strayed |-> FALSE]
Register(a) ==
  \E batch \in session[a].starts :
    session' = [session EXCEPT ![a].starts = @ \ {batch},
                               ![a].entry = IF @.live THEN @ ELSE Registered(a, batch)]

(* Registered or not, a session goes on until its context is cancelled.    *)
Goes(a, s, next) ==
  \/ s = session[a].entry /\ session' = [session EXCEPT ![a].entry = next]
  \/ s = session[a].lost /\ session' = [session EXCEPT ![a].lost = next]

(* One turn of its loop: a desktop that is held is skipped; one that is    *)
(* not may be forbidden, fail to start or be connected to.                 *)
Visit(a, s, t) ==
  /\ t \in s.todo
  /\ \/ Goes(a, s, [s EXCEPT !.todo = @ \ {t}])
     \/ ~Held(t) /\ Goes(a, s, [s EXCEPT !.todo = @ \ {t}, !.linked = @ \cup {t}])

LinkEnds(a, s, t) ==
  t \in s.linked /\ Goes(a, s, [s EXCEPT !.linked = @ \ {t}])

(* The last setState of startAccount.                                      *)
Settle(a) ==
  /\ session[a].entry.busy /\ session[a].entry.todo = {}
  /\ session' = [session EXCEPT ![a].entry.busy = FALSE]

(* The entry that a late write replaces: its session goes on, unseen.      *)
Astray(s) == IF s.live THEN [s EXCEPT !.strayed = TRUE] ELSE NoSession

(* setState of a session cancelled in between, and of one that was lost.   *)
StaleWrite(a) ==
  /\ session[a].stale
  /\ session[a].entry.live => ~session[a].lost.live
  /\ session' = [session EXCEPT ![a].stale = FALSE, ![a].entry = NoSession,
                     ![a].lost = IF @.live THEN @ ELSE Astray(session[a].entry)]
LostWrite(a) ==
  /\ session[a].lost.busy
  /\ session' = [session EXCEPT ![a].entry = session[a].lost,
                                ![a].lost = Astray(session[a].entry)]

(* RestartKeepalive, stopAccountKeepalive.                                 *)
StopKeepalive(a) == session[a].entry.live /\ Reset({a})

KeepaliveStep(a) ==
  /\ \/ Launch(a) \/ Register(a) \/ Settle(a)
     \/ \E s \in {session[a].entry, session[a].lost}, t \in Target :
          Visit(a, s, t) \/ LinkEnds(a, s, t)
     \/ StaleWrite(a) \/ LostWrite(a) \/ StopKeepalive(a)
  /\ UNCHANGED <<Others, hold, faults>>
-----------------------------------------------------------------------------
(* Shutdown, crash and restart *)

(* m.cancel: every session's context derives from m.ctx, a late one's too. *)
Close_Cancel ==
  /\ phase = "up" /\ phase' = "stopping"
  /\ session' = [a \in Account |-> NoSessions]
  /\ UNCHANGED <<job, item, hold, active, accounts, worker, owed, expiry, sent, faults>>

Close_Closing ==
  /\ phase = "stopping" /\ phase' = "closing"
  /\ UNCHANGED <<job, item, hold, active, accounts, worker, owed, expiry, session, sent, faults>>

Gone ==
  /\ phase' = "down"
  /\ active' = NoJob /\ accounts' = {} /\ owed' = {}
  /\ worker' = IdleWorker /\ expiry' = IdleExpiry
  /\ session' = [a \in Account |-> NoSessions]
  /\ UNCHANGED <<job, item, hold, sent, faults>>

(* Close returns when every goroutine has ended.                           *)
Close_Return ==
  /\ phase = "closing"
  /\ worker.at = "idle" /\ expiry.at = "idle" /\ owed = {}
  /\ Gone

Crash ==
  /\ Alive /\ Gone

RestartForgetting ==
  /\ phase = "down" /\ phase' = "up"
  /\ UNCHANGED <<job, item, hold, active, accounts, worker, owed, expiry, session, sent,
                 faults>>

(* Start runs InterruptPowerJobs before anything else and drops its error. *)
Restart ==
  /\ phase = "down" /\ phase' = "up"
  /\ \/ /\ item' = [j \in Job |-> Close(item[j], {})]
        /\ job' = [j \in Job |-> IF job[j].status = "running"
                                 THEN [job[j] EXCEPT !.status = "interrupted"]
                                 ELSE job[j]]
        /\ Fine
     \/ Fault /\ UNCHANGED <<job, item>>
  /\ UNCHANGED <<hold, active, accounts, worker, owed, expiry, session, sent>>
-----------------------------------------------------------------------------
WorkerNext ==
  \/ NextItem \/ Verdict \/ Snapshot \/ PlaceHold \/ StopSessions \/ Submit
  \/ Operate \/ Answer \/ Record \/ Wait \/ Finish \/ CloseJob \/ Release
ExpiryNext == ExpiryTick \/ ExpirySelect \/ ExpiryDelete \/ ExpiryReset

Next ==
  \/ StartPowerBatch \/ WorkerNext \/ ResetChanged
  \/ \E t \in Target : OpenBrowser(t) \/ RenewBrowser(t) \/ ResumeBrowser(t) \/ ResumeDesktop(t)
  \/ HoldLapses \/ ExpiryNext
  \/ \E a \in Account : KeepaliveStep(a)
  \/ MayStop /\ (Close_Cancel \/ Close_Closing \/ Close_Return \/ Crash)
  \/ Restart

(* The goroutines keep running and a stopped service is started again; the *)
(* user, the clock and the keepalive owe nothing.                          *)
Fairness ==
  /\ WF_vars(WorkerNext) /\ WF_vars(ResetChanged)
  /\ WF_vars(ExpiryNext)
  /\ WF_vars(Restart) /\ WF_vars(Close_Closing) /\ WF_vars(Close_Return)

Spec == Init /\ [][Next]_vars /\ Fairness
-----------------------------------------------------------------------------
(* Properties *)

TypeOK ==
  /\ job \in [Job -> JobRecord]
  /\ item \in [Job -> [Target -> ItemStatus]]
  /\ hold \in [Target -> Hold]
  /\ active \in Job \cup {NoJob} /\ accounts \in SUBSET Account
  /\ worker \in WorkerRecord /\ owed \in SUBSET Account
  /\ expiry \in ExpiryRecord
  /\ session \in [Account -> Sessions]
  /\ sent \in [Job -> [Target -> Nat]]
  /\ phase \in {"up", "stopping", "closing", "down"}
  /\ faults \in 0..MaxFaults

(* No power request of an item leaves twice, whatever fails, whoever       *)
(* restarts the service and however the batch ends.                        *)
SubmittedOnce == \A j \in Job, t \in Target : sent[j][t] <= 1

(* The history tells the truth: an item shown as waiting or cancelled was  *)
(* not submitted, one shown as accepted was.                               *)
HistoryIsTrue ==
  \A j \in Job, t \in Target :
    /\ item[j][t] \in {"queued", "validating", "cancelled"} => sent[j][t] = 0
    /\ item[j][t] = "accepted" => sent[j][t] = 1

(* A refused request leaves the hold it found, or that hold lapsed.        *)
RefusalRestoresHold ==
  worker.at = "record" /\ worker.outcome = "refused" =>
    \/ hold[worker.target] = worker.prev
    \/ /\ worker.prev.reason \notin {"none", "shutdown"}
       /\ hold[worker.target] \in {NoHold, [worker.prev EXCEPT !.until = "past"],
                                   [worker.prev EXCEPT !.until = "future"]}

(* A session that a batch may meet all the same: one that was lost from    *)
(* m.clients, or one whose start had been decided before the batch.        *)
Linked(t) == t \in session[Owner[t]].entry.linked
Strayed(t) == session[Owner[t]].entry.strayed
DecidedBefore(t) == session[Owner[t]].entry.seen # active

(* While a request is out, the desktop carries the hold of that request    *)
(* and no session is connected to it; but a late start, which the lifted   *)
(* hold of a power-on does not stop.                                       *)
RequestHasItsHold ==
  worker.at \in {"operate", "answer"} =>
    /\ hold[worker.target] = HoldFor(job[active].action)
    /\ Linked(worker.target) =>
         \/ Strayed(worker.target)
         \/ job[active].action = "poweron" /\ DecidedBefore(worker.target)

(* The keepalive stays away from a desktop under a hold of the power       *)
(* batch, from the moment its sessions are stopped; but a late start that  *)
(* found a power-on's desktop free, until the batch's last reset ends it.  *)
HeldByPower(t) == Held(t) /\ hold[t].reason \in {"shutdown", "reboot", "check"}
ToBeReset(t) ==
  \/ /\ Owner[t] \in worker.changed /\ DecidedBefore(t)
     /\ job[active].action = "poweron"
  \/ Owner[t] \in owed
PowerHoldsAreRespected ==
  \A t \in Target :
    HeldByPower(t) /\ Linked(t) =>
      \/ worker.at = "stop" /\ worker.target = t
      \/ Strayed(t) \/ ToBeReset(t)

(* A power request meets no session that would start its desktop again,    *)
(* neither while it is out nor as long as its hold lasts, whatever web     *)
(* desktops, heartbeats, the expiry and the keepalive do in between.  What *)
(* is excepted is what the code leaves open: a session lost from m.clients *)
(* (manager.go:736), and a start decided before a power-on's batch and     *)
(* registered in it, which the end of the batch stops.                     *)
PowerComesFirst == RequestHasItsHold /\ PowerHoldsAreRespected

(* Only the batch that runs has open items: nothing else would close them. *)
(* As long as the store has not failed.                                    *)
OpenItemsAreTracked ==
  Alive /\ faults = 0 =>
    /\ \A j \in Job : job[j].status = "running" => active = j
    /\ \A j \in Job, t \in Target : item[j][t] \in Open =>
         active = j /\ (t \in worker.todo \/ t = worker.target \/ worker.at = "close")

(* A recorded outcome is never rewritten: not by the end of the batch, not *)
(* by the next one, not by a restart.                                      *)
OutcomesAreFinal ==
  [][\A j \in Job, t \in Target : item[j][t] \in Final => item'[j][t] = item[j][t]]_vars

(* Nobody but the user lifts the hold of a shutdown: neither the clock and *)
(* the expiry, nor a page's heartbeat and automatic resume, nor a restart. *)
AutomaticStep ==
  \/ HoldLapses \/ ExpiryNext \/ Crash \/ Restart
  \/ \E t \in Target : RenewBrowser(t) \/ ResumeBrowser(t)
ShutdownStays ==
  [][AutomaticStep => \A t \in Target : hold[t] = ShutdownHold => hold'[t] = ShutdownHold]_vars

(* What the power page shows is a history the ledger allows: rows are      *)
(* written before their request leaves, items have their turn one by one,  *)
(* and nothing is rewritten, whatever happens to the batch.                *)
Ledger == INSTANCE PowerLedger WITH batch <- active, alive <- Alive
ImplementsLedger == Ledger!Spec

(* Every batch comes to an end, whatever its items meet: powerActive stops *)
(* refusing batches, updates and web desktops, also when a statement fails;*)
(* and when none does, the job is closed too.                              *)
BatchesEnd ==
  /\ active # NoJob ~> active = NoJob
  /\ [](faults = 0) =>
       \A j \in Job : job[j].status = "running" ~> job[j].status # "running"
=============================================================================
