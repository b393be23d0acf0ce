----------------------------- MODULE Keepalive -----------------------------
(***************************************************************************)
(* The keepalive sessions of the accounts (internal/service/manager.go).   *)
(* A session is a run of startAccount with its context, and the desktop    *)
(* connection that lives as long as the context.  m.clients holds, for     *)
(* each account, the context that can be cancelled.  The scheduler and web *)
(* requests compare the stored accounts with m.clients and start or stop   *)
(* sessions; a usage task counts on the session it finds; the preparation  *)
(* of an update and the power batch cancel sessions.                       *)
(*                                                                         *)
(* Between two steps of one of them the lock m.mu is free.  Close is in    *)
(* TaskRunner, the holds of single desktops are in PowerBatch.             *)
(***************************************************************************)
EXTENDS Naturals, FiniteSets

CONSTANTS
  Account,
  Session,     \* runs of startAccount; free ones are used again
  Request,     \* threads of web requests
  Scheduler,   \* the thread of the scheduler
  NoSession,
  MaxChanges,  \* changes from outside: bounds the model
  MaxLost      \* sessions lost from m.clients: bounds the model

ASSUME KeepaliveAssumption ==
  /\ Account # {} /\ Scheduler \notin Request /\ NoSession \notin Session
  /\ MaxChanges \in Nat /\ MaxLost \in Nat

Thread == Request \cup {Scheduler}

VARIABLES
  exists,      \* accounts in the store
  wanted,      \* [Account -> BOOLEAN]: the row and the clock ask for a session
  pending,     \* accounts whose device_status is pending
  client,      \* [Account -> Client]: m.clients
  live,        \* contexts that are not cancelled
  start,       \* [Session -> Start]: where startAccount is
  link,        \* sessions whose RunClink runs
  sweep,       \* [Thread -> Sweep]: a comparison under way
  usage,       \* [Account -> ...]: the usage task of the account
  maintenance, \* m.maintenance
  power,       \* m.powerAccounts
  changes,     \* changes from outside so far
  lost         \* history: live sessions whose entry setState overwrote

vars == <<exists, wanted, pending, client, live, start, link, sweep, usage,
          maintenance, power, changes, lost>>
-----------------------------------------------------------------------------
Client == [ctx : Session \cup {NoSession}, workers : 0..1]
NoClient == [ctx |-> NoSession, workers |-> 0]

(* setState looks at the context first and takes the lock afterwards:      *)
(* "check", then "write"; then is where startAccount goes on.              *)
Start == [at : {"free", "launched", "login", "connect", "check",
                "write"},
          account : Account, workers : 0..1, then : {"connect", "free"}]

AnyAccount == CHOOSE a \in Account : TRUE

(* RestartKeepalive, reconcileKeepalive, resetDesktopSessions: want is     *)
(* what the accounts were when they were read, todo those not compared yet,*)
(* act what has been decided for one of them.                              *)
Sweep == [at : {"idle", "read", "clear", "look", "stop"},
          kind : {"restart", "reconcile", "reset"},
          ids : SUBSET Account, want : SUBSET Account,
          account : Account]
IdleSweep == [at |-> "idle", kind |-> "reconcile", ids |-> {}, want |-> {},
              account |-> AnyAccount]

IdleStart == [at |-> "free", account |-> AnyAccount, workers |-> 0,
              then |-> "free"]

Wants(a) == a \in exists /\ wanted[a] /\ a \notin pending
Running(a) == client[a].ctx \in live

Init ==
  /\ exists = Account /\ wanted \in [Account -> BOOLEAN] /\ pending = {}
  /\ client = [a \in Account |-> NoClient]
  /\ live = {} /\ link = {}
  /\ start = [s \in Session |-> IdleStart]
  /\ sweep = [t \in Thread |-> IdleSweep]
  /\ usage = [a \in Account |-> "none"]
  /\ maintenance = "no" /\ power = {} /\ changes = 0 /\ lost = {}
-----------------------------------------------------------------------------
(* startAccount                                                            *)

SessionOnly ==
  UNCHANGED <<exists, wanted, sweep, usage, maintenance, power, changes,
              lost>>

Goto(s, at) ==
  start' = [start EXCEPT ![s] =
    IF at = "free" THEN [IdleStart EXCEPT !.account = start[s].account]
    ELSE [@ EXCEPT !.at = at]]
SetState(s, workers, then) ==
  start' = [start EXCEPT ![s].at = "check", ![s].workers = workers,
                         ![s].then = then]

Register(s) ==
  /\ start[s].at = "launched"
  /\ LET a == start[s].account IN
     IF Running(a)
     THEN Goto(s, "free") /\ UNCHANGED <<client, live>>
     ELSE /\ Goto(s, "login")
          /\ client' = [client EXCEPT ![a] = [ctx |-> s, workers |-> 0]]
          /\ live' = live \cup {s}
  /\ UNCHANGED <<pending, link>> /\ SessionOnly

(* The profile is cached or the login succeeds; its device is bonded or    *)
(* waits for an SMS code; the desktops are listed.                         *)
Login(s) ==
  /\ start[s].at = "login"
  /\ \/ SetState(s, 0, "free") /\ UNCHANGED pending
     \/ /\ SetState(s, 0, "free")
        /\ pending' = pending \cup ({start[s].account} \cap exists)
     \/ /\ SetState(s, 0, "connect") \/ SetState(s, 0, "free")
        /\ pending' = pending \ {start[s].account}
  /\ UNCHANGED <<client, live, link>> /\ SessionOnly

ConnectedOnce(s) == start[s].workers + 1

(* A desktop that is held, forbidden or does not start is skipped.         *)
Connect(s) ==
  /\ start[s].at = "connect"
  /\ \/ s \notin live /\ Goto(s, "free") /\ UNCHANGED link
     \/ SetState(s, 0, "free") /\ UNCHANGED link
     \/ SetState(s, ConnectedOnce(s), "free") /\ link' = link \cup {s}
  /\ UNCHANGED <<pending, client, live>> /\ SessionOnly

CheckState(s) ==
  /\ start[s].at = "check"
  /\ Goto(s, IF s \in live THEN "write" ELSE start[s].then)
  /\ UNCHANGED <<pending, client, live, link>> /\ SessionOnly

WriteState(s) ==
  /\ start[s].at = "write" /\ Goto(s, start[s].then)
  /\ LET a == start[s].account IN
     /\ lost' = (lost \cup (live \cap {client[a].ctx})) \ {s}
     /\ Cardinality(lost') <= MaxLost
     /\ client' = [client EXCEPT ![a] =
                     [ctx |-> s, workers |-> start[s].workers]]
  /\ UNCHANGED <<exists, pending, live, link, wanted, sweep, usage,
                 maintenance, power, changes>>

(* RunClink reconnects until its context is cancelled.                     *)
Ends(s) == s \notin live
Disconnect(s) ==
  /\ s \in link /\ Ends(s) /\ link' = link \ {s}
  /\ UNCHANGED <<pending, client, live, start>> /\ SessionOnly
-----------------------------------------------------------------------------
(* Comparing the accounts with the sessions                                *)

SweepOnly ==
  UNCHANGED <<exists, wanted, pending, link, maintenance, power, changes,
              lost>>

Begin(t, kind, ids) ==
  /\ sweep[t].at = "idle"
  /\ sweep' = [sweep EXCEPT ![t] =
       [IdleSweep EXCEPT !.at = IF kind = "reset" THEN "clear" ELSE "read",
                         !.kind = kind, !.ids = ids]]

(* With no account left to look at the comparison is over.                 *)
GoOn(t, next, at) ==
  sweep' = [sweep EXCEPT ![t] = IF next.ids = {} /\ at = "look" THEN IdleSweep
                                ELSE [next EXCEPT !.at = at]]

(* RestartKeepalive reads the accounts, then cancels; resetDesktopSessions *)
(* the other way round.                                                    *)
Read(t) ==
  /\ sweep[t].at = "read"
  /\ GoOn(t, [sweep[t] EXCEPT !.ids = @ \cap exists,
                              !.want = {a \in sweep[t].ids : Wants(a)},
                              !.kind = "reconcile"],
          IF sweep[t].kind = "restart" THEN "clear" ELSE "look")
  /\ UNCHANGED <<client, live, start, usage>> /\ SweepOnly

NotCancelled(ids) == live
Cancelled(ids) == live \ {client[a].ctx : a \in ids}

(* A restart cancels every session, also one of a deleted account; a reset *)
(* that of its account, with the usage task.                               *)
Cleared(t) == IF sweep[t].kind = "reset" THEN sweep[t].ids ELSE Account
Clear(t) ==
  /\ sweep[t].at = "clear"
  /\ live' = Cancelled(Cleared(t))
  /\ client' = [a \in Account |->
                  IF a \in Cleared(t) THEN NoClient ELSE client[a]]
  /\ usage' = [a \in Account |->
                 IF sweep[t].kind = "reset" /\ a \in sweep[t].ids
                 THEN "none" ELSE usage[a]]
  /\ GoOn(t, [sweep[t] EXCEPT !.kind = "reconcile"],
          IF sweep[t].kind = "reset" THEN "read" ELSE "look")
  /\ UNCHANGED start /\ SweepOnly

(* Any run will do; one that left its cancelled context in m.clients, only *)
(* for the same account.                                                   *)
Free(s, a) ==
  /\ start[s].at = "free" /\ s \notin live \cup link
  /\ \A b \in Account \ {a} : client[b].ctx # s

(* reconcileAccountKeepalive: what to do is decided under the lock ...     *)
Decide(t, a, at) ==
  GoOn(t, [sweep[t] EXCEPT !.ids = @ \ {a}, !.want = @ \ {a}, !.account = a],
       at)

Launch(a) ==
  /\ \E s \in Session : Free(s, a)
  /\ start' = [start EXCEPT ![CHOOSE s \in Session : Free(s, a)] =
       [IdleStart EXCEPT !.at = "launched", !.account = a]]

Suspended(a) == maintenance # "no" \/ a \in power
RegisteredIsRunning(a) == client[a].ctx # NoSession
IsRunning(a) == Running(a)
SparedWithWorkers(a) == client[a].workers > 0
Spared(a) == usage[a] # "none"

Look(t) ==
  /\ sweep[t].at = "look"
  /\ \E a \in sweep[t].ids :
       LET want == a \in sweep[t].want
           running == IsRunning(a) IN
       \/ /\ \/ Suspended(a) \/ (want /\ running)
             \/ ~want /\ running /\ Spared(a)
          /\ Decide(t, a, "look") /\ UNCHANGED <<client, start>>
       \/ /\ ~Suspended(a) /\ want /\ ~running
          /\ Decide(t, a, "look") /\ Launch(a) /\ UNCHANGED client
       \/ /\ ~Suspended(a) /\ ~want /\ running /\ ~Spared(a)
          /\ Decide(t, a, "stop") /\ UNCHANGED <<client, start>>
       \/ /\ ~Suspended(a) /\ ~want /\ ~running
          /\ Decide(t, a, "look") /\ UNCHANGED start
          /\ client' = [client EXCEPT ![a] = NoClient]
  /\ UNCHANGED <<live, usage>> /\ SweepOnly

(* ... and a stop is done under the lock taken again.                      *)
StopSession(t) ==
  /\ sweep[t].at = "stop"
  /\ live' = Cancelled({sweep[t].account})
  /\ client' = [client EXCEPT ![sweep[t].account] = NoClient]
  /\ Decide(t, sweep[t].account, "look")
  /\ UNCHANGED <<start, usage>> /\ SweepOnly

SweepStep(t) ==
  Read(t) \/ Clear(t) \/ Look(t) \/ StopSession(t)

Tick ==
  /\ Begin(Scheduler, "reconcile", Account)
  /\ UNCHANGED <<client, live, start, usage>> /\ SweepOnly
-----------------------------------------------------------------------------
(* What happens outside                                                    *)

Change == /\ changes < MaxChanges /\ changes' = changes + 1
          /\ UNCHANGED lost

(* The window opens or closes: nobody is told but the scheduler.           *)
ClockChanges(a) ==
  /\ Change /\ wanted' = [wanted EXCEPT ![a] = ~@]
  /\ UNCHANGED <<exists, pending, client, live, start, link, sweep, usage,
                 maintenance, power>>

(* A form or a toggle of one account; or the button that reloads.          *)
Save(t) ==
  /\ Change /\ Begin(t, "restart", Account)
  /\ \/ \E a \in exists, w \in BOOLEAN : wanted' = [wanted EXCEPT ![a] = w]
     \/ UNCHANGED wanted
  /\ UNCHANGED <<exists, pending, client, live, start, link, usage,
                 maintenance, power>>

(* Who reads the accounts afterwards does not find it; what was decided     *)
(* before goes on.                                                          *)
Delete(t, a) ==
  /\ Change /\ a \in exists /\ Begin(t, "restart", Account)
  /\ exists' = exists \ {a} /\ pending' = pending \ {a}
  /\ UNCHANGED <<wanted, client, live, start, link, usage, maintenance,
                 power>>

(* BeginVerification finds a device that is not bound and sends an SMS:    *)
(* nobody is told but the scheduler.                                       *)
NeedCode(a) ==
  /\ Change /\ a \in exists \ pending /\ pending' = pending \cup {a}
  /\ UNCHANGED <<exists, wanted, client, live, start, link, sweep, usage,
                 maintenance, power>>

(* The code of the SMS was right.                                          *)
Verify(t, a) ==
  /\ Change /\ a \in pending /\ pending' = pending \ {a}
  /\ Begin(t, "restart", Account)
  /\ UNCHANGED <<exists, wanted, client, live, start, link, usage,
                 maintenance, power>>

(* PrepareForUpdate suspends the comparisons at once, cancels the sessions *)
(* when the short tasks have ended, and refuses while a usage task runs;   *)
(* CancelUpdateMaintenance compares again.                                 *)
Prepare ==
  /\ Change /\ maintenance = "no" /\ power = {} /\ maintenance' = "waits"
  /\ UNCHANGED <<exists, wanted, pending, client, live, start, link, sweep,
                 usage, power>>

StopForUpdate ==
  /\ maintenance = "waits" /\ maintenance' = "ready"
  /\ \A a \in Account : usage[a] = "none"
  /\ live' = Cancelled(Account)
  /\ UNCHANGED <<exists, wanted, pending, client, start, link, sweep, usage,
                 power, changes, lost>>

CancelUpdate(t) ==
  /\ maintenance # "no" /\ maintenance' = "no"
  /\ Begin(t, "reconcile", Account)
  /\ UNCHANGED <<exists, wanted, pending, client, live, start, link, usage,
                 power, changes, lost>>

(* The power batch, reduced to one account.                                *)
TakePower(a) ==
  /\ Change /\ power = {} /\ maintenance = "no" /\ power' = {a}
  /\ UNCHANGED <<exists, wanted, pending, client, live, start, link, sweep,
                 usage, maintenance>>

StopForPower(a) ==
  /\ a \in power /\ live' = Cancelled({a})
  /\ client' = [client EXCEPT ![a] = NoClient]
  /\ usage' = [usage EXCEPT ![a] = "none"]
  /\ UNCHANGED <<exists, wanted, pending, start, link, sweep, maintenance,
                 power, changes, lost>>

ReturnPower(t, a) ==
  /\ a \in power /\ power' = {}
  /\ Begin(t, "reset", {a})
  /\ UNCHANGED <<exists, wanted, pending, client, live, start, link, usage,
                 maintenance, changes, lost>>
-----------------------------------------------------------------------------
(* runUsage                                                                *)

UsageOnly == UNCHANGED <<exists, wanted, pending, client, live, start, link,
                         sweep, maintenance, power>>

StartUsage(a) ==
  /\ a \in exists /\ usage[a] = "none" /\ ~Suspended(a)
  /\ usage' = [usage EXCEPT ![a] = "active"]
  /\ UNCHANGED <<changes, lost>> /\ UsageOnly

(* It counts on the session of the account, or connects for itself.        *)
Reuses(a) == client[a].workers > 0
ChooseConnection(a) ==
  /\ usage[a] = "active"
  /\ usage' = [usage EXCEPT ![a] = IF Reuses(a) THEN "reuses" ELSE "own"]
  /\ UNCHANGED <<changes, lost>> /\ UsageOnly

EndUsage(a) ==
  /\ usage[a] # "none" /\ usage' = [usage EXCEPT ![a] = "none"]
  /\ UNCHANGED <<changes, lost>> /\ UsageOnly

SessionStep(s) ==
  \/ Register(s) \/ Login(s) \/ Connect(s)
  \/ CheckState(s) \/ WriteState(s) \/ Disconnect(s)

Next ==
  \/ \E s \in Session : SessionStep(s)
  \/ \E t \in Thread : SweepStep(t)
  \/ Tick
  \/ \E a \in Account : \/ ClockChanges(a) \/ NeedCode(a) \/ TakePower(a)
                        \/ StopForPower(a) \/ StartUsage(a)
                        \/ ChooseConnection(a) \/ EndUsage(a)
  \/ \E t \in Request : Save(t) \/ CancelUpdate(t)
                        \/ \E a \in Account : \/ Delete(t, a) \/ Verify(t, a)
                                            \/ ReturnPower(t, a)
  \/ Prepare \/ StopForUpdate

(* Goroutines run and the ticker ticks.                                    *)
Fairness ==
  /\ \A s \in Session : WF_vars(SessionStep(s))
  /\ \A t \in Thread : WF_vars(SweepStep(t))
  /\ WF_vars(Tick)

Spec == Init /\ [][Next]_vars /\ Fairness
-----------------------------------------------------------------------------
TypeOK ==
  /\ exists \subseteq Account /\ pending \subseteq Account
  /\ wanted \in [Account -> BOOLEAN]
  /\ client \in [Account -> Client]
  /\ live \subseteq Session /\ link \subseteq Session
  /\ start \in [Session -> Start] /\ sweep \in [Thread -> Sweep]
  /\ usage \in [Account -> {"none", "active", "reuses", "own"}]
  /\ maintenance \in {"no", "waits", "ready"} /\ power \subseteq Account
  /\ changes \in 0..MaxChanges /\ lost \subseteq Session

(* An account that is to be kept alive gets a session, whatever cancelled  *)
(* or replaced the ones before.                                            *)
WantedStarts ==
  \A a \in Account :
    <>[](Wants(a) /\ ~Suspended(a)) => <>[]Running(a)

(* An account that is not to be kept alive, and has no usage task, loses   *)
(* the session it is known for, even one that was started with an older    *)
(* reading of the account.  A deleted account keeps such a session, until  *)
(* something restarts them all.                                            *)
UnwantedStops ==
  \A a \in Account :
    <>[](/\ a \in exists /\ ~Wants(a) /\ ~Suspended(a)
         /\ usage[a] = "none") => <>[]~Running(a)

(* A session that has started can be cancelled: it is in m.clients, unless *)
(* a late setState of another one has overwritten it.                      *)
SessionsAreRegistered ==
  \A s \in live \ lost : client[start[s].account].ctx = s

(* README.md:106, "时长任务在关闭保活或定时窗口之外运行时，会临时连接云电脑":   *)
(* a usage task that waits has a connection, or one is on its way.         *)
UsageStaysConnected ==
  \A a \in Account : usage[a] = "reuses" =>
    \/ Wants(a)
    \/ \E s \in Session :
         start[s].account = a /\ (start[s].at # "free" \/ s \in live \cap link)
=============================================================================
