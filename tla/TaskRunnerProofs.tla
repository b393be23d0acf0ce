--------------------------- MODULE TaskRunnerProofs ---------------------------
(***************************************************************************)
(* Theorems about TaskRunner for every set of accounts, runs, callers and  *)
(* admins: its type invariant, the safety invariants its runs check, and   *)
(* that it implements RunLedger.  All rest on one inductive invariant.     *)
(***************************************************************************)
EXTENDS TaskRunner, TLAPS

-----------------------------------------------------------------------------
(* The inductive invariant                                                 *)

Claiming(s) == start[s].at \in {"reserved", "admitted", "giveup", "added"}
Holding(s) == start[s].at \in {"added", "refused", "registered"}
Claim(s) == SlotOf(start[s].job)

(* What StartTask's local variables hold at each of its steps.             *)
StartLocals ==
  \A s \in Starter :
    /\ Claiming(s) => start[s].job \in Job
    /\ IF Holding(s)
       THEN /\ start[s].run \in Run
            /\ row[start[s].run] = "queued" /\ start[s].run \notin lost
            /\ at[start[s].run] = "none"
            /\ start[s].at = "added" => job[start[s].run] = start[s].job
            /\ start[s].run \in active <=> start[s].at = "registered"
       ELSE start[s].run = NoRun

(* No two StartTasks hold the same run.                                    *)
RunsHeldOnce ==
  \A s, t \in Starter : start[s].run \in Run /\ start[s].run = start[t].run => s = t

(* A slot is claimed by one StartTask, which finds it in m.starting, or by *)
(* one active run, and never by both.                                      *)
ClaimsDistinct ==
  /\ \A s \in Starter : Claiming(s) => Claim(s) \in starting
  /\ \A s, t \in Starter :
       Claiming(s) /\ Claiming(t) /\ Claim(s) = Claim(t) => s = t
  /\ \A r \in active : SlotOf(job[r]) \notin starting
  /\ \A r, q \in active : SlotOf(job[r]) = SlotOf(job[q]) => r = q

(* What the step of a run's goroutine says of its row and of m.active.     *)
RunLocal(r) ==
  /\ at[r] \in Alive => r \in active
  /\ r \in active => job[r] \in Job /\ row[r] # "none" /\ at[r] # "gone"
  /\ row[r] = "none" => at[r] = "none"
  /\ at[r] = "none" /\ r \in active => row[r] = "queued"
  /\ at[r] = "launched" => row[r] = "queued"
  /\ Up /\ row[r] = "running" => at[r] \in Alive \/ r \in lost
  /\ at[r] \in Alive \ {"launched", "remove"} => row[r] \in Unfinished
  /\ at[r] = "save" => result[r] \in {"success", "failed", "stopped"}
  /\ at[r] = "remove" => row[r] \in {"success", "failed", "stopped"} \/ r \in lost
  /\ r \in lost => row[r] \in Unfinished /\ at[r] \in {"none", "remove", "gone"}
  /\ r \in lost /\ r \in active => at[r] = "remove"
  /\ at[r] \in {"none", "launched", "begun", "delay", "exec", "retry"} =>
       tried[r] < Attempts

RunLocals == \A r \in Run : RunLocal(r)

(* Nothing but the store survives the process, and Close has waited for    *)
(* every run it launched.                                                  *)
AfterClose ==
  /\ phase = "exited" => \A r \in Run : at[r] \notin Alive
  /\ phase = "down" =>
       /\ starting = {} /\ active = {}
       /\ \A s \in Starter : start[s] = Idle

SlotInv ==
  /\ TypeOK /\ StartLocals /\ RunsHeldOnce /\ ClaimsDistinct /\ RunLocals
  /\ AfterClose

(* While a preparation has found the slots empty, or has succeeded, they   *)
(* stay empty: StartTask is refused, and no run is left to place an order. *)
UpdateInv ==
  /\ maintenance <=> update # "idle"
  /\ maintenance => Up /\ ~power.on
  /\ (update = "ledger" /\ ~short) \/ update = "prepared" =>
       starting = {} /\ active = {}
  /\ update = "prepared" => pending = {}

(* An active desktop run of an account the batch has quieted is cancelled, *)
(* and no other becomes active: StartTask is refused for the account.      *)
PowerInv ==
  /\ power.quiet \subseteq power.accounts
  /\ ~power.on => power = NoPower
  /\ \A r \in active :
       job[r].account \in power.quiet /\ job[r].kind \in DesktopKind =>
         Cancelled(r)

(* A run that goes on although a switch has been toggled off is one that   *)
(* the toggle's handler has yet to find, or has found and not cancelled.   *)
InHand(h, a, s, r) ==
  /\ admin[h].account = a /\ admin[h].switch = s
  /\ \/ admin[h].at = "collect"
     \/ admin[h].at = "cancel" /\ r \in admin[h].found

Going == {"delay", "exec", "ordering", "retry"}
GoesOn(r) == at[r] \in Going /\ ~Cancelled(r)

ToggleInv ==
  \A a \in exists, s \in Switch, r \in Run :
    switch[a][s] = "toggledOff" /\ Governed(a, s, job[r]) /\ GoesOn(r) =>
      \E h \in Admin : InHand(h, a, s, r)
-----------------------------------------------------------------------------
(* A job belongs to one account and one task type.                         *)
LEMMA JobShape ==
  ASSUME NEW j \in Job
  PROVE  /\ j.account \in Account /\ j.kind \in Kind /\ j.trigger \in Trigger
         /\ SlotOf(j) \in Slot
  BY DEF Job, SlotOf, Slot

(* What StartTask's steps write into its local variables.                  *)
LEMMA StartRecords ==
  ASSUME NEW f \in [Starter -> StartRecord], NEW s \in Starter,
         NEW to \in StartStep
  PROVE  /\ [f EXCEPT ![s].at = to] \in [Starter -> StartRecord]
         /\ \A r \in Run :
              [f EXCEPT ![s].at = to, ![s].run = r] \in [Starter -> StartRecord]
<1>1. f[s] \in StartRecord
  OBVIOUS
<1>2. [f EXCEPT ![s].at = to] \in [Starter -> StartRecord]
  <2>1. [f[s] EXCEPT !.at = to] \in StartRecord
    BY <1>1 DEF StartRecord
  <2> QED
    BY <2>1
<1>3. ASSUME NEW r \in Run
      PROVE  [f EXCEPT ![s].at = to, ![s].run = r] \in [Starter -> StartRecord]
  <2> DEFINE g == [f EXCEPT ![s].at = to]
  <2>1. g \in [Starter -> StartRecord] /\ g[s] \in StartRecord
    BY <1>2
  <2>2. [g[s] EXCEPT !.run = r] \in StartRecord
    BY <2>1 DEF StartRecord
  <2>3. [g EXCEPT ![s].run = r] \in [Starter -> StartRecord]
    BY <2>1, <2>2
  <2> QED
    BY <2>3
<1> QED
  BY <1>2, <1>3

(* What a toggle's handler writes when it has collected the runs.          *)
LEMMA AdminRecords ==
  ASSUME NEW f \in [Admin -> AdminRecord], NEW h \in Admin,
         NEW found \in SUBSET Run
  PROVE  [f EXCEPT ![h].at = "cancel", ![h].found = found] \in [Admin -> AdminRecord]
<1> DEFINE g == [f EXCEPT ![h].at = "cancel"]
<1>1. f[h] \in AdminRecord
  OBVIOUS
<1>2. [f[h] EXCEPT !.at = "cancel"] \in AdminRecord
  BY <1>1 DEF AdminRecord
<1>3. g \in [Admin -> AdminRecord] /\ g[h] \in AdminRecord
  BY <1>2
<1>4. [g[h] EXCEPT !.found = found] \in AdminRecord
  BY <1>3 DEF AdminRecord
<1>5. [g EXCEPT ![h].found = found] \in [Admin -> AdminRecord]
  BY <1>3, <1>4
<1> QED
  BY <1>5

(* Types: the initial states, StartTask, run, and everybody else.          *)
LEMMA TypeInit == Init => TypeOK
  <1> SUFFICES ASSUME Init PROVE TypeOK  OBVIOUS
  <1> USE ConstantsAssumption DEF Init
  <1>1. /\ exists \subseteq Account /\ pending \subseteq Account
        /\ row \in [Run -> RowStatus] /\ job \in [Run -> Job \cup {NoJob}]
        /\ at \in [Run -> RunStep] /\ result \in [Run -> RowStatus]
        /\ tried \in [Run -> 0..Attempts]
        /\ starting \subseteq Slot /\ active \subseteq Run /\ cancelled \subseteq Run
    BY DEF RowStatus, Finished, RunStep
  <1>2. switch \in [Account -> [Switch -> SwitchState]]
    BY DEF SwitchState
  <1>3. start \in [Starter -> StartRecord]
    BY DEF Idle, StartStep, StartRecord
  <1>4. admin \in [Admin -> AdminRecord]
    BY DEF Quiescent, AdminRecord
  <1>5. power \in [on : BOOLEAN, accounts : SUBSET Account,
                   quiet : SUBSET Account]
    BY DEF NoPower
  <1> QED  BY <1>1, <1>2, <1>3, <1>4, <1>5 DEF TypeOK

Working == {"begun", "delay", "exec", "ordering", "retry", "succeeded", "chain"}
Outcome == {"success", "failed", "stopped"}

(* The steps of a run between Begin and Save that touch no slot.           *)
WorkStep(r) ==
  /\ Up /\ at[r] \in Working
  /\ \E to \in (Working \ {"begun"}) \cup {"save"} :
       /\ at' = [at EXCEPT ![r] = to]
       /\ at[r] = "begun" /\ to # "save" => Enabled(job[r])
       /\ to \in Going => at[r] \in Going \cup {"begun"}
       /\ to \in {"exec", "delay", "retry"} => tried'[r] < Attempts
       /\ IF to = "save"
          THEN \E status \in Outcome : result' = [result EXCEPT ![r] = status]
          ELSE UNCHANGED result
  /\ \E n \in 0..Attempts : tried' = [tried EXCEPT ![r] = n]
  /\ pending' \subseteq pending \cup ({job[r].account} \intersect exists)
  /\ UNCHANGED <<exists, switch, row, lost, job, starting, active, cancelled,
                 start, admin, maintenance, update, short, power, phase>>

(* Nine of run's steps are work steps.                                     *)
LEMMA WorkSteps ==
  ASSUME TypeOK, RunLocals, NEW r \in Run,
         \/ Check(r) \/ Delay(r) \/ Execute(r) \/ Retry(r) \/ RefuseOrder(r)
         \/ PlaceOrder(r) \/ OrderAnswered(r) \/ OrderUnknown(r) \/ Succeed(r)
  PROVE  WorkStep(r)
  <1>1. /\ tried \in [Run -> 0..Attempts] /\ at \in [Run -> RunStep]
        /\ tried = [tried EXCEPT ![r] = tried[r]]
        /\ at[r] \in {"begun", "delay", "exec", "retry"} => tried[r] < Attempts
    BY DEF TypeOK, RunLocals, RunLocal
  <1>2. Attempts \in Nat
    BY ConstantsAssumption
  <1> USE <1>1, <1>2 DEF WorkStep, Working, Going, Outcome, Moves, Ends, RunUnchanged,
          RowUnchanged, RedeemUnchanged, store, slots, updater
  <1>3. CASE Check(r)   BY <1>3 DEF Check, StillEnabled
  <1>4. CASE Delay(r)   BY <1>4 DEF Delay
  <1>5. CASE Execute(r)
    <2>1. tried[r] + 1 \in 0..Attempts /\ tried' = [tried EXCEPT ![r] = tried[r] + 1]
      BY <1>5 DEF Execute
    <2>2. MayRetry(r) => tried'[r] < Attempts
      BY <2>1 DEF MayRetry
    <2> QED  BY <1>5, <2>1, <2>2 DEF Execute
  <1>6. CASE Retry(r)   BY <1>6 DEF Retry
  <1>7. CASE RefuseOrder(r)   BY <1>7 DEF RefuseOrder
  <1>8. CASE PlaceOrder(r)
    <2>1. /\ at[r] = "exec" /\ at' = [at EXCEPT ![r] = "ordering"]
          /\ pending' \subseteq pending \cup ({job[r].account} \intersect exists)
          /\ tried' = tried /\ result' = result
      BY <1>8 DEF PlaceOrder
    <2> QED  BY <1>8, <2>1 DEF PlaceOrder
  <1>9. CASE OrderAnswered(r)   BY <1>9 DEF OrderAnswered
  <1>10. CASE OrderUnknown(r)   BY <1>10 DEF OrderUnknown
  <1>11. CASE Succeed(r)   BY <1>11 DEF Succeed
  <1> QED
    BY <1>3, <1>4, <1>5, <1>6, <1>7, <1>8, <1>9, <1>10, <1>11

LEMMA TypeStarts ==
  ASSUME TypeOK, StartLocals, NEW s \in Starter,
         StartStepOf(s) \/ (s \in Caller /\ Call(s))
  PROVE  TypeOK'
  <1> USE DEF TypeOK, store, runs, slots, updater
  <1>1. Idle \in StartRecord
    BY DEF Idle, StartRecord, StartStep
  <1>2. {"reserved", "admitted", "giveup", "added", "refused", "registered"}
          \subseteq StartStep
    BY DEF StartStep
  <1>3. {"queued", "interrupted"} \subseteq RowStatus /\ "launched" \in RunStep
    BY DEF RowStatus, Finished, RunStep
  <1> USE <1>1, <1>2, <1>3, StartRecords
  <1>4. CASE s \in Caller /\ Call(s)
    BY <1>4, JobShape DEF Call, Reserve, Starter, StartRecord
  <1>5. CASE ReadAccount(s)
    BY <1>5 DEF ReadAccount
  <1>6. CASE StoreFails(s)
    BY <1>6 DEF StoreFails
  <1>7. CASE GiveUp(s)
    BY <1>7 DEF GiveUp, Release
  <1>8. CASE Register(s)
    <2>1. start[s].run \in Run
      BY <1>8 DEF Register, StartLocals, Holding
    <2>2. \/ start' = [start EXCEPT ![s].at = "refused"] /\ active' = active
          \/ /\ start' = [start EXCEPT ![s].at = "registered"]
             /\ active' = active \cup {start[s].run}
      BY <1>8 DEF Register
    <2>3. starting' \subseteq Slot
      BY <1>8 DEF Register, Release
    <2>4. UNCHANGED <<store, runs, cancelled, admin, updater, power, phase>>
      BY <1>8 DEF Register
    <2>5. /\ [start EXCEPT ![s].at = "refused"] \in [Starter -> StartRecord]
          /\ [start EXCEPT ![s].at = "registered"] \in [Starter -> StartRecord]
      OBVIOUS
    <2>6. start' \in [Starter -> StartRecord]
      BY <2>2, <2>5, Zenon
    <2>7. active' \subseteq Run
      BY <2>1, <2>2
    <2> QED  BY <2>3, <2>4, <2>6, <2>7
  <1>9. CASE MarkRefused(s)
    <2>1. start[s].run \in Run
      BY <1>9 DEF MarkRefused, StartLocals, Holding
    <2>2. row' \in [Run -> RowStatus] /\ lost' \subseteq Run
      BY <1>9, <2>1 DEF MarkRefused, RefusedRow, UpdateRun
    <2> QED  BY <1>9, <2>2 DEF MarkRefused
  <1>10. CASE Launch(s)
    BY <1>10 DEF Launch
  <1>11. ASSUME NEW r \in Run, AddRun(s, r) PROVE TypeOK'
    <2>1. start[s].job \in Job \cup {NoJob}
      BY DEF StartRecord
    <2> QED  BY <1>11, <2>1 DEF AddRun
  <1> HIDE DEF TypeOK
  <1> QED
    BY <1>4, <1>5, <1>6, <1>7, <1>8, <1>9, <1>10, <1>11 DEF StartStepOf

LEMMA TypeRuns ==
  ASSUME TypeOK, RunLocals, NEW r \in Run, RunStepOf(r)
  PROVE  TypeOK'
  <1> USE DEF TypeOK, RowStatus, Finished, RunStep, store, runs, slots, updater,
              Moves, RunUnchanged, RowUnchanged, UpdateRun
  <1>1. CASE Begin(r)   BY <1>1 DEF Begin
  <1>2. CASE WorkStep(r)   BY <1>2 DEF WorkStep, Working, Outcome
  <1>3. CASE ChainRedeem(r)
    <2>1. r \in Starter /\ job[r] \in Job /\ "redeem" \in Kind
      BY <1>3 DEF ChainRedeem, Starter, RunLocals, RunLocal, Alive
    <2>2. [account |-> job[r].account, kind |-> "redeem", trigger |-> "after_pc"] \in Job
      BY <2>1 DEF Job, Trigger
    <2> QED  BY <1>3, <2>1, <2>2, JobShape DEF ChainRedeem, Reserve, StartStep, StartRecord
  <1>4. CASE Save(r)   BY <1>4 DEF Save
  <1>5. CASE Remove(r)   BY <1>5, ConstantsAssumption DEF Remove
  <1> QED
    BY <1>1, <1>2, <1>3, <1>4, <1>5, WorkSteps DEF RunStepOf

LEMMA TypeOthers ==
  ASSUME TypeOK,
         Toggles \/ Forms \/ Buttons \/ Updating \/ PowerNext \/ CloseContext
           \/ ShutDown \/ Crash \/ Restart \/ UNCHANGED vars
  PROVE  TypeOK'
  <1> USE DEF TypeOK, store, runs, slots, updater
  <1>1. CASE Toggles
    <2>1. ASSUME NEW a \in Account, NEW s \in Switch, SwitchOn(a, s) PROVE TypeOK'
      BY <2>1 DEF SwitchOn, AdminUnchanged, SwitchState
    <2>2. ASSUME NEW a \in Account, NEW s \in Switch, NEW h \in Admin,
                 SwitchOff(h, a, s)
          PROVE TypeOK'
      BY <2>2 DEF SwitchOff, AdminUnchanged, SwitchState, AdminRecord
    <2>3. ASSUME NEW h \in Admin, CollectRuns(h) PROVE TypeOK'
      <3> DEFINE found == {r \in active : Concerns(admin[h].account,
                                                  admin[h].switch, job[r])}
      <3>1. /\ found \in SUBSET Run
            /\ admin' = [admin EXCEPT ![h].at = "cancel", ![h].found = found]
        BY <2>3 DEF CollectRuns
      <3> HIDE DEF found
      <3>2. admin' \in [Admin -> AdminRecord]
        BY <3>1, AdminRecords
      <3> QED  BY <2>3, <3>2 DEF CollectRuns, AdminUnchanged
    <2>4. ASSUME NEW h \in Admin, CancelRuns(h) PROVE TypeOK'
      BY <2>4 DEF CancelRuns, AdminUnchanged, Quiescent, AdminRecord
    <2> QED  BY <1>1, <2>1, <2>2, <2>3, <2>4 DEF Toggles, AdminStepOf
  <1>2. CASE Forms
    <2>1. ASSUME NEW a \in Account, SaveAccount(a) PROVE TypeOK'
      BY <2>1 DEF SaveAccount, AdminUnchanged, SwitchState
    <2>2. ASSUME NEW a \in Account, DeleteAccount(a) PROVE TypeOK'
      BY <2>2 DEF DeleteAccount
    <2> QED  BY <1>2, <2>1, <2>2 DEF Forms
  <1>3. CASE Buttons
    BY <1>3 DEF Buttons, StopTask, ResolveRedeem, AdminUnchanged
  <1>4. CASE Updating
    BY <1>4 DEF Updating, BeginPreparation, Poll, ReadLedger, CancelMaintenance,
                UpdateUnchanged, ShortRunning
  <1>5. CASE PowerNext
    <2>1. ASSUME NEW accounts \in SUBSET Account, BeginPower(accounts) PROVE TypeOK'
      BY <2>1 DEF BeginPower, PowerUnchanged
    <2>2. ASSUME NEW a \in Account, StopDesktopRuns(a) PROVE TypeOK'
      BY <2>2 DEF StopDesktopRuns, PowerUnchanged, DesktopRuns
    <2>3. CASE EndPower
      BY <2>3 DEF EndPower, PowerUnchanged, NoPower
    <2> QED  BY <1>5, <2>1, <2>2, <2>3 DEF PowerNext
  <1>6. CASE CloseContext \/ CloseGate \/ Exit
    BY <1>6 DEF CloseContext, CloseGate, Exit, PhaseUnchanged
  <1>7. CASE ProcessEnds
    <2>1. result' \in [Run -> RowStatus] /\ tried' \in [Run -> 0..Attempts]
      BY <1>7, ConstantsAssumption DEF ProcessEnds, RowStatus
    <2> QED
      BY <1>7, <2>1 DEF ProcessEnds, RunStep, Alive, Idle, Quiescent, NoPower,
                        StartStep, StartRecord, AdminRecord
  <1>8. CASE Restart
    BY <1>8 DEF Restart, RowStatus, Finished
  <1>9. CASE UNCHANGED vars
    BY <1>9 DEF vars
  <1> QED
    BY <1>1, <1>2, <1>3, <1>4, <1>5, <1>6, <1>7, <1>8, <1>9
    DEF ShutDown, End, Crash

(* Everything of SlotInv but the types.                                    *)
Protocol == StartLocals /\ RunsHeldOnce /\ ClaimsDistinct /\ RunLocals /\ AfterClose

(* The entry of StartTask, called by a caller or by a usage run.           *)
LEMMA ProtocolReserve ==
  ASSUME SlotInv, NEW s \in Starter, NEW j \in Job, Reserve(s, j),
         UNCHANGED <<row, lost, job, result, tried, active, phase>>,
         \/ UNCHANGED at
         \/ \E r \in Run : at[r] = "succeeded" /\ at' = [at EXCEPT ![r] = "chain"]
  PROVE  Protocol'
  <1> USE DEF SlotInv, TypeOK, Claiming, Holding, Claim
  <1>1. /\ Up /\ start[s].at = "idle"
        /\ SlotOf(j) \notin starting /\ \A r \in active : SlotOf(job[r]) # SlotOf(j)
        /\ starting' = starting \cup {SlotOf(j)}
        /\ start'[s] = [at |-> "reserved", job |-> j, run |-> NoRun]
        /\ \A t \in Starter \ {s} : start'[t] = start[t]
        /\ Up'
    BY DEF Reserve, Busy, Up
  <1>2. StartLocals'   BY <1>1 DEF StartLocals
  <1>3. RunsHeldOnce'   BY <1>1, ConstantsAssumption DEF RunsHeldOnce
  <1>4. ClaimsDistinct'   BY <1>1 DEF ClaimsDistinct
  <1>5. RunLocals'   BY <1>1 DEF RunLocals, RunLocal, Alive, RunStep
  <1>6. AfterClose'   BY <1>1 DEF AfterClose, Up, Alive, RunStep
  <1> QED  BY <1>2, <1>3, <1>4, <1>5, <1>6 DEF Protocol

(* The steps of StartTask keep the protocol of slots.                      *)
LEMMA ProtocolStarts ==
  ASSUME SlotInv, NEW s \in Starter,
         StartStepOf(s) \/ (s \in Caller /\ Call(s))
  PROVE  Protocol'
  <1> USE DEF SlotInv, TypeOK, Claiming, Holding, Claim, store, runs, slots
  <1>1. CASE s \in Caller /\ Call(s)
    BY <1>1, ProtocolReserve DEF Call
  <1>2. CASE ReadAccount(s) \/ StoreFails(s)
    <2>1. /\ start[s].at \in {"reserved", "admitted"}
          /\ start'[s].at \in {"admitted", "giveup"}
          /\ start'[s].job = start[s].job /\ start'[s].run = start[s].run
          /\ \A t \in Starter \ {s} : start'[t] = start[t]
          /\ Up /\ Up'
          /\ UNCHANGED <<row, lost, job, at, result, tried, starting, active, phase>>
      BY <1>2 DEF ReadAccount, StoreFails, Up, StartRecord
    <2>2. StartLocals'   BY <2>1 DEF StartLocals
    <2>3. RunsHeldOnce'   BY <2>1 DEF RunsHeldOnce
    <2>4. ClaimsDistinct'
      <3>1. \A t \in Starter : Claiming(t)' => Claiming(t) /\ Claim(t)' = Claim(t)
        BY <2>1
      <3> HIDE DEF Claiming, Claim
      <3> QED  BY <2>1, <3>1 DEF ClaimsDistinct
    <2>5. RunLocals'   BY <2>1 DEF RunLocals, RunLocal
    <2>6. AfterClose'   BY <2>1 DEF AfterClose, Up
    <2> QED  BY <2>2, <2>3, <2>4, <2>5, <2>6 DEF Protocol
  <1>3. CASE GiveUp(s)
    <2>1. /\ start[s].at = "giveup" /\ start'[s] = Idle
          /\ \A t \in Starter \ {s} : start'[t] = start[t]
          /\ starting' = starting \ {Claim(s)}
          /\ Up /\ Up'
          /\ UNCHANGED <<row, lost, job, at, result, tried, active, phase>>
      BY <1>3 DEF GiveUp, Release, Up
    <2>2. StartLocals'   BY <2>1 DEF StartLocals, Idle
    <2>3. RunsHeldOnce'   BY <2>1, ConstantsAssumption DEF RunsHeldOnce, Idle
    <2>4. ClaimsDistinct'   BY <2>1 DEF ClaimsDistinct, Idle
    <2>5. RunLocals'   BY <2>1 DEF RunLocals, RunLocal
    <2>6. AfterClose'   BY <2>1 DEF AfterClose, Up
    <2> QED  BY <2>2, <2>3, <2>4, <2>5, <2>6 DEF Protocol
  <1>4. CASE Register(s)
    <2>1. /\ start[s].at = "added"
          /\ start'[s].job = start[s].job /\ start'[s].run = start[s].run
          /\ \A t \in Starter \ {s} : start'[t] = start[t]
          /\ starting' = starting \ {Claim(s)}
          /\ Up /\ Up'
          /\ UNCHANGED <<row, lost, job, at, result, tried, phase>>
      BY <1>4 DEF Register, Release, Up, StartRecord
    <2>2. \/ start'[s].at = "refused" /\ active' = active
          \/ start'[s].at = "registered" /\ active' = active \cup {start[s].run}
      BY <1>4 DEF Register, StartRecord
    <2>3. /\ start[s].run \in Run /\ start[s].run \notin active
          /\ row[start[s].run] = "queued" /\ at[start[s].run] = "none"
          /\ start[s].run \notin lost
          /\ job[start[s].run] = start[s].job /\ start[s].job \in Job
          /\ Claim(s) \in starting
          /\ \A t \in Starter \ {s} : start[t].run # start[s].run
          /\ \A t \in Starter \ {s} : Claiming(t) => Claim(t) # Claim(s)
          /\ \A r \in active : SlotOf(job[r]) # Claim(s)
      BY <2>1 DEF StartLocals, RunsHeldOnce, ClaimsDistinct
    <2>4. StartLocals'   BY <2>1, <2>2, <2>3 DEF StartLocals
    <2>5. RunsHeldOnce'   BY <2>1 DEF RunsHeldOnce
    <2>6. ClaimsDistinct'   BY <2>1, <2>2, <2>3 DEF ClaimsDistinct
    <2>7. RunLocals'   BY <2>1, <2>2, <2>3 DEF RunLocals, RunLocal, Alive
    <2>8. AfterClose'   BY <2>1 DEF AfterClose, Up
    <2> QED  BY <2>4, <2>5, <2>6, <2>7, <2>8 DEF Protocol
  <1>5. CASE MarkRefused(s)
    <2>1. /\ start[s].at = "refused" /\ start'[s] = Idle
          /\ \A t \in Starter \ {s} : start'[t] = start[t]
          /\ \/ /\ row' = [row EXCEPT ![start[s].run] = "interrupted"]
                /\ lost' = lost
             \/ row' = row /\ lost' = lost \cup {start[s].run}
          /\ Up /\ Up'
          /\ UNCHANGED <<job, at, result, tried, starting, active, phase>>
      BY <1>5 DEF MarkRefused, RefusedRow, UpdateRun, Unfinished, Up
    <2>2. /\ start[s].run \in Run /\ start[s].run \notin active \cup lost
          /\ at[start[s].run] = "none" /\ row[start[s].run] = "queued"
          /\ \A t \in Starter \ {s} : start[t].run # start[s].run
      BY <2>1 DEF StartLocals, RunsHeldOnce
    <2>3. StartLocals'   BY <2>1, <2>2 DEF StartLocals, Idle
    <2>4. RunsHeldOnce'   BY <2>1, ConstantsAssumption DEF RunsHeldOnce, Idle
    <2>5. ClaimsDistinct'
      <3>1. \A t \in Starter : Claiming(t)' => Claiming(t) /\ Claim(t)' = Claim(t)
        BY <2>1 DEF Claiming, Claim, Idle
      <3>2. starting' = starting /\ active' = active /\ job' = job
        BY <2>1
      <3> QED  BY <3>1, <3>2 DEF ClaimsDistinct
    <2>6. RunLocals'
      <3> SUFFICES ASSUME NEW r \in Run PROVE RunLocal(r)'
        BY DEF RunLocals
      <3>1. RunLocal(r) /\ (r \in active <=> r \in active')
        BY <2>1 DEF RunLocals
      <3>2. CASE r = start[s].run
        <4>1. row'[r] \in {"queued", "interrupted"} /\ r \notin active
          BY <2>1, <2>2, <3>2
        <4>2. r \in lost' => row'[r] \in Unfinished
          BY <2>1, <2>2, <3>1, <3>2 DEF RunLocal, Unfinished
        <4>3. /\ at'[r] = "none" /\ r \notin active' /\ tried'[r] < Attempts
          BY <2>1, <2>2, <3>1, <3>2 DEF RunLocal
        <4> HIDE DEF SlotInv, TypeOK
        <4> QED
          BY <4>1, <4>2, <4>3 DEF RunLocal, Alive, RunStep, Unfinished
      <3>3. CASE r # start[s].run
        <4>1. row'[r] = row[r] /\ (r \in lost' <=> r \in lost)
          BY <2>1, <3>3
        <4> QED  BY <2>1, <3>1, <4>1 DEF RunLocal
      <3> QED  BY <3>2, <3>3
    <2>7. AfterClose'   BY <2>1 DEF AfterClose, Up
    <2> QED  BY <2>3, <2>4, <2>5, <2>6, <2>7 DEF Protocol
  <1>6. CASE Launch(s)
    <2>1. /\ start[s].at = "registered" /\ start'[s] = Idle
          /\ \A t \in Starter \ {s} : start'[t] = start[t]
          /\ \/ phase # "exited" /\ at' = [at EXCEPT ![start[s].run] = "launched"]
             \/ at' = at
          /\ Up /\ Up'
          /\ UNCHANGED <<row, lost, job, result, tried, starting, active, phase>>
      BY <1>6 DEF Launch, Accepts, Up
    <2>2. /\ start[s].run \in Run /\ start[s].run \in active
          /\ at[start[s].run] = "none" /\ row[start[s].run] = "queued"
          /\ start[s].run \notin lost
          /\ \A t \in Starter \ {s} : start[t].run # start[s].run
      BY <2>1 DEF StartLocals, RunsHeldOnce
    <2>3. StartLocals'   BY <2>1, <2>2 DEF StartLocals, Idle
    <2>4. RunsHeldOnce'   BY <2>1, ConstantsAssumption DEF RunsHeldOnce, Idle
    <2>5. ClaimsDistinct'   BY <2>1 DEF ClaimsDistinct, Idle
    <2>6. RunLocals'   BY <2>1, <2>2 DEF RunLocals, RunLocal, Alive, RunStep
    <2>7. AfterClose'   BY <2>1 DEF AfterClose, Up
    <2> QED  BY <2>3, <2>4, <2>5, <2>6, <2>7 DEF Protocol
  <1>7. ASSUME NEW r \in Run, AddRun(s, r) PROVE Protocol'
    <2>1. /\ start[s].at = "admitted"
          /\ start'[s].at = "added" /\ start'[s].job = start[s].job
          /\ start'[s].run = r
          /\ \A t \in Starter \ {s} : start'[t] = start[t]
          /\ row[r] = "none" /\ row' = [row EXCEPT ![r] = "queued"]
          /\ job' = [job EXCEPT ![r] = start[s].job]
          /\ Up /\ Up'
          /\ UNCHANGED <<lost, at, result, tried, starting, active, phase>>
      BY <1>7 DEF AddRun, Up, StartRecord
    <2>2. /\ r \notin active /\ at[r] = "none" /\ r \notin lost
          /\ \A t \in Starter : start[t].run # r
      BY <2>1, ConstantsAssumption DEF StartLocals, RunLocals, RunLocal, Unfinished
    <2>3. StartLocals'   BY <2>1, <2>2 DEF StartLocals
    <2>4. RunsHeldOnce'   BY <2>1, <2>2 DEF RunsHeldOnce
    <2>5. ClaimsDistinct'   BY <2>1, <2>2 DEF ClaimsDistinct
    <2>6. RunLocals'   BY <2>1, <2>2 DEF RunLocals, RunLocal, Alive, RunStep
    <2>7. AfterClose'   BY <2>1 DEF AfterClose, Up
    <2> QED  BY <2>3, <2>4, <2>5, <2>6, <2>7 DEF Protocol
  <1> HIDE DEF SlotInv
  <1> QED
    BY <1>1, <1>2, <1>3, <1>4, <1>5, <1>6, <1>7 DEF StartStepOf

(* The steps of run keep it: only Remove frees a slot.                     *)
LEMMA ProtocolRuns ==
  ASSUME SlotInv, NEW r \in Run, RunStepOf(r)
  PROVE  Protocol'
  <1> USE DEF SlotInv, TypeOK, store, runs, slots
  <1>1. CASE Begin(r)
    <2>1. /\ at[r] = "launched" /\ at' = [at EXCEPT ![r] = "begun"]
          /\ row' = [row EXCEPT ![r] = "running"] \/ row' = row
          /\ Up /\ Up'
          /\ UNCHANGED <<lost, job, result, tried, starting, active, start, phase>>
      BY <1>1 DEF Begin, UpdateRun, Unfinished, Moves, RunUnchanged, Up
    <2>2. /\ r \in active /\ r \notin lost /\ row[r] = "queued"
          /\ \A s \in Starter : Holding(s) => start[s].run # r
      BY <2>1 DEF StartLocals, RunLocals, RunLocal, Alive, RunStep
    <2>3. StartLocals'   BY <2>1, <2>2 DEF StartLocals, Holding, Claiming
    <2>4. RunsHeldOnce'   BY <2>1 DEF RunsHeldOnce
    <2>5. ClaimsDistinct'   BY <2>1 DEF ClaimsDistinct, Claiming, Claim
    <2>6. RunLocals'   BY <2>1, <2>2 DEF RunLocals, RunLocal, Alive, RunStep, Unfinished
    <2>7. AfterClose'   BY <2>1 DEF AfterClose, Up, Alive, RunStep
    <2> QED  BY <2>3, <2>4, <2>5, <2>6, <2>7 DEF Protocol
  <1>2. CASE WorkStep(r)
    <2>1. PICK to \in (Working \ {"begun"}) \cup {"save"} :
            /\ at' = [at EXCEPT ![r] = to]
            /\ to \in {"exec", "delay", "retry"} => tried'[r] < Attempts
            /\ IF to = "save"
               THEN \E status \in Outcome : result' = [result EXCEPT ![r] = status]
               ELSE UNCHANGED result
      BY <1>2 DEF WorkStep
    <2>2. /\ at[r] \in Working /\ Up /\ Up'
          /\ \E n \in 0..Attempts : tried' = [tried EXCEPT ![r] = n]
          /\ UNCHANGED <<row, lost, job, starting, active, start, phase>>
      BY <1>2 DEF WorkStep, Up
    <2>3. r \in active /\ \A s \in Starter : Holding(s) => start[s].run # r
      BY <2>2 DEF StartLocals, RunLocals, RunLocal, Alive, RunStep, Working
    <2>4. StartLocals'   BY <2>1, <2>2, <2>3 DEF StartLocals, Holding, Claiming
    <2>5. RunsHeldOnce'   BY <2>2 DEF RunsHeldOnce
    <2>6. ClaimsDistinct'   BY <2>2 DEF ClaimsDistinct, Claiming, Claim
    <2>7. RunLocals'
      <3>1. /\ at'[r] = to /\ row[r] \in Unfinished /\ r \notin lost
            /\ to = "save" => result'[r] \in Outcome
        BY <2>1, <2>2 DEF RunLocals, RunLocal, Alive, RunStep, Working
      <3>2. \A q \in Run \ {r} : /\ at'[q] = at[q] /\ tried'[q] = tried[q]
                                 /\ result'[q] = result[q]
        BY <2>1, <2>2
      <3>3. RunLocal(r)'
        <4>1. RunLocal(r)
          BY DEF RunLocals
        <4>2. tried'[r] \in 0..Attempts /\ (to \in {"exec", "delay", "retry"} =>
                                              tried'[r] < Attempts)
          BY <2>1, <2>2
        <4>3. /\ job'[r] = job[r] /\ row'[r] = row[r] /\ (r \in active <=> r \in active')
              /\ to \in Alive \ {"begun", "launched", "remove"} /\ Up' /\ Up
            /\ lost' = lost
          BY <2>1, <2>2 DEF Alive, RunStep, Working
        <4> QED
          BY <2>3, <3>1, <4>1, <4>2, <4>3 DEF RunLocal, Outcome, Alive, RunStep
      <3>4. ASSUME NEW q \in Run \ {r} PROVE RunLocal(q)'
        <4>1. RunLocal(q)
          BY DEF RunLocals
        <4> QED  BY <2>2, <3>2, <4>1 DEF RunLocal
      <3> QED  BY <3>3, <3>4 DEF RunLocals
    <2>8. AfterClose'
      BY <2>1, <2>2 DEF AfterClose, Up, Alive, RunStep, Working
    <2> QED  BY <2>4, <2>5, <2>6, <2>7, <2>8 DEF Protocol
  <1>3. CASE ChainRedeem(r)
    <2>1. r \in Starter /\ job[r] \in Job /\ "redeem" \in Kind
      BY <1>3 DEF ChainRedeem, Starter, RunLocals, RunLocal, Alive, RunStep, Moves
    <2>2. [account |-> job[r].account, kind |-> "redeem", trigger |-> "after_pc"] \in Job
      BY <2>1 DEF Job, Trigger
    <2> QED  BY <1>3, <2>1, <2>2, ProtocolReserve DEF ChainRedeem, Moves
  <1>4. CASE Save(r)
    <2>1. /\ at[r] = "save" /\ at' = [at EXCEPT ![r] = "remove"]
          /\ UpdateRun(r, result[r])
          /\ Up /\ Up'
          /\ UNCHANGED <<job, result, tried, starting, active, start, phase>>
      BY <1>4 DEF Save, Moves, RunUnchanged, Up
    <2>2. /\ r \in active /\ \A s \in Starter : Holding(s) => start[s].run # r
          /\ result[r] \in Outcome /\ row[r] \in Unfinished /\ r \notin lost
      BY <2>1 DEF StartLocals, RunLocals, RunLocal, Alive, RunStep, Outcome
    <2>8. \/ row' = [row EXCEPT ![r] = result[r]] /\ lost' = lost
          \/ row' = row /\ lost' = lost \cup {r}
      BY <2>1, <2>2 DEF UpdateRun, Unfinished, Outcome
    <2>3. StartLocals'   BY <2>1, <2>2, <2>8 DEF StartLocals, Holding, Claiming
    <2>4. RunsHeldOnce'   BY <2>1 DEF RunsHeldOnce
    <2>5. ClaimsDistinct'   BY <2>1 DEF ClaimsDistinct, Claiming, Claim
    <2>6. RunLocals'   BY <2>1, <2>2, <2>8 DEF RunLocals, RunLocal, Alive, RunStep, Outcome, Unfinished
    <2>7. AfterClose'   BY <2>1 DEF AfterClose, Up, Alive, RunStep
    <2> QED  BY <2>3, <2>4, <2>5, <2>6, <2>7 DEF Protocol
  <1>5. CASE Remove(r)
    <2>1. /\ at[r] = "remove" /\ at' = [at EXCEPT ![r] = "gone"]
          /\ active' = active \ {r}
          /\ result' = [result EXCEPT ![r] = "none"]
          /\ tried' = [tried EXCEPT ![r] = 0]
          /\ Up /\ Up'
          /\ UNCHANGED <<row, lost, job, starting, start, phase>>
      BY <1>5 DEF Remove, Moves, Up
    <2>2. /\ \A s \in Starter : Holding(s) => start[s].run # r
          /\ row[r] \in Outcome \/ r \in lost
      BY <2>1 DEF StartLocals, RunLocals, RunLocal, Outcome
    <2>3. StartLocals'   BY <2>1, <2>2 DEF StartLocals, Holding, Claiming
    <2>4. RunsHeldOnce'   BY <2>1 DEF RunsHeldOnce
    <2>5. ClaimsDistinct'   BY <2>1 DEF ClaimsDistinct, Claiming, Claim
    <2>6. RunLocals'   BY <2>1, <2>2 DEF RunLocals, RunLocal, Alive, RunStep, Outcome
    <2>7. AfterClose'   BY <2>1 DEF AfterClose, Up, Alive, RunStep
    <2> QED  BY <2>3, <2>4, <2>5, <2>6, <2>7 DEF Protocol
  <1> HIDE DEF SlotInv, TypeOK
  <1> QED
    BY <1>1, <1>2, <1>3, <1>4, <1>5, WorkSteps DEF RunStepOf, SlotInv

(* The steps that leave every run and every slot alone.                    *)
LEMMA ProtocolFrame ==
  ASSUME SlotInv, UNCHANGED <<row, lost, job, at, result, tried, starting, active, start>>,
         phase' # "down" \/ UNCHANGED phase,
         phase' = "exited" => \A r \in Run : at[r] \notin Alive,
         Up' => Up
  PROVE  Protocol'
  <1> USE DEF SlotInv, TypeOK
  <1>1. StartLocals'   BY DEF StartLocals, Holding, Claiming
  <1>2. RunsHeldOnce'   BY DEF RunsHeldOnce
  <1>3. ClaimsDistinct'   BY DEF ClaimsDistinct, Claiming, Claim
  <1>4. RunLocals'   BY DEF RunLocals, RunLocal
  <1>5. AfterClose'   BY DEF AfterClose, Up
  <1> QED  BY <1>1, <1>2, <1>3, <1>4, <1>5 DEF Protocol

(* So do the pages, the update, the power batch and the process.           *)
LEMMA ProtocolOthers ==
  ASSUME SlotInv,
         Toggles \/ Forms \/ Buttons \/ Updating \/ PowerNext \/ CloseContext
           \/ ShutDown \/ Crash \/ Restart \/ UNCHANGED vars
  PROVE  Protocol'
  <1> USE DEF store, runs, slots, updater
  <1>1. CASE Toggles \/ Forms \/ Buttons
    <2>1. UNCHANGED <<row, lost, job, at, result, tried, starting, active, start, phase>>
      BY <1>1 DEF Toggles, Forms, Buttons, SwitchOn, SwitchOff, AdminStepOf,
         CollectRuns, CancelRuns, SaveAccount, DeleteAccount, StopTask,
         ResolveRedeem, AdminUnchanged
    <2> QED  BY <2>1, ProtocolFrame DEF Up, SlotInv, Protocol, AfterClose
  <1>2. CASE Updating \/ PowerNext \/ UNCHANGED vars
    <2>1. UNCHANGED <<row, lost, job, at, result, tried, starting, active, start, phase>>
      BY <1>2 DEF Updating, BeginPreparation, Poll, ReadLedger, CancelMaintenance,
         UpdateUnchanged, PowerNext, BeginPower, StopDesktopRuns, EndPower,
         PowerUnchanged, vars
    <2> QED  BY <2>1, ProtocolFrame DEF Up, SlotInv, AfterClose
  <1>3. CASE CloseContext \/ CloseGate \/ Exit
    BY <1>3, ProtocolFrame
    DEF CloseContext, CloseGate, Exit, PhaseUnchanged, Up, Alive
  <1>4. CASE ProcessEnds
    <2>1. /\ phase' = "down" /\ starting' = {} /\ active' = {}
          /\ start' = [s \in Starter |-> Idle]
          /\ at' = [r \in Run |-> IF at[r] \in Alive THEN "gone" ELSE at[r]]
          /\ tried' = [r \in Run |-> 0]
          /\ UNCHANGED <<row, lost, job>>
      BY <1>4 DEF ProcessEnds
    <2> USE <2>1 DEF SlotInv, TypeOK
    <2>2. StartLocals'   BY DEF StartLocals, Holding, Claiming, Idle
    <2>3. RunsHeldOnce'   BY ConstantsAssumption DEF RunsHeldOnce, Idle
    <2>4. ClaimsDistinct'   BY DEF ClaimsDistinct, Claiming, Idle
    <2>5. RunLocals'
      BY ConstantsAssumption DEF RunLocals, RunLocal, Alive, RunStep, Up
    <2>6. AfterClose'   BY DEF AfterClose
    <2> QED  BY <2>2, <2>3, <2>4, <2>5, <2>6 DEF Protocol
  <1>5. CASE Restart
    <2>1. /\ phase = "down" /\ phase' = "up"
          /\ row' = [r \in Run |-> IF row[r] \in Unfinished THEN "interrupted"
                                                            ELSE row[r]]
          /\ lost' = {}
          /\ UNCHANGED <<job, at, result, tried, starting, active, start>>
      BY <1>5 DEF Restart, Reset
    <2>2. /\ active = {} /\ starting = {} /\ \A s \in Starter : start[s] = Idle
      BY <2>1 DEF SlotInv, AfterClose
    <2> USE <2>1, <2>2 DEF SlotInv, TypeOK
    <2>3. StartLocals'   BY DEF StartLocals, Holding, Claiming, Idle
    <2>4. RunsHeldOnce'   BY DEF RunsHeldOnce
    <2>5. ClaimsDistinct'   BY DEF ClaimsDistinct, Claiming, Idle
    <2>6. RunLocals'   BY DEF RunLocals, RunLocal, Unfinished, Alive, RunStep
    <2>7. AfterClose'   BY DEF AfterClose
    <2> QED  BY <2>3, <2>4, <2>5, <2>6, <2>7 DEF Protocol
  <1> QED
    BY <1>1, <1>2, <1>3, <1>4, <1>5 DEF ShutDown, End, Crash

LEMMA ProtocolInit == Init => Protocol
  <1> USE ConstantsAssumption DEF Init, Idle
  <1>1. Init => StartLocals /\ RunsHeldOnce
    BY DEF StartLocals, RunsHeldOnce, Claiming, Holding
  <1>2. Init => ClaimsDistinct
    BY DEF ClaimsDistinct, Claiming
  <1>3. Init => RunLocals /\ AfterClose
    BY DEF RunLocals, RunLocal, AfterClose, Alive
  <1> QED  BY <1>1, <1>2, <1>3 DEF Protocol

(* Every step is one of StartTask, of run, or of somebody else.            *)
LEMMA NextCases ==
  ASSUME [Next]_vars
  PROVE  \/ \E s \in Starter : StartStepOf(s) \/ (s \in Caller /\ Call(s))
         \/ \E r \in Run : RunStepOf(r)
         \/ Toggles \/ Forms \/ Buttons \/ Updating \/ PowerNext \/ CloseContext
              \/ ShutDown \/ Crash \/ Restart \/ UNCHANGED vars
  BY DEF Next, Tasks, Starter

LEMMA SlotStep == SlotInv /\ [Next]_vars => SlotInv'
  <1> SUFFICES ASSUME SlotInv, [Next]_vars PROVE SlotInv'  OBVIOUS
  <1>1. TypeOK /\ StartLocals /\ RunLocals
    BY DEF SlotInv
  <1>2. TypeOK'
    BY <1>1, NextCases, TypeStarts, TypeRuns, TypeOthers
  <1>3. Protocol'
    BY NextCases, ProtocolStarts, ProtocolRuns, ProtocolOthers
  <1> QED  BY <1>2, <1>3 DEF SlotInv, Protocol

(* The inductive invariant of StartTask and run holds throughout.          *)
THEOREM SlotInvariant == Spec => []SlotInv
  <1>1. Init => SlotInv
    BY TypeInit, ProtocolInit DEF SlotInv, Protocol
  <1> QED  BY <1>1, SlotStep, PTL DEF Spec

(* Every variable keeps its type: above all, no run is executed more than  *)
(* Attempts times.                                                         *)
THEOREM TypeCorrect == Spec => []TypeOK
  <1>1. SlotInv => TypeOK
    BY DEF SlotInv
  <1> QED  BY <1>1, SlotInvariant, PTL

(* StartTask and run never put two goroutines on one account and type.     *)
THEOREM SlotsAreExclusive == Spec => []SlotExclusive
  <1>1. SlotInv => SlotExclusive
    BY DEF SlotInv, ClaimsDistinct, RunLocals, RunLocal, SlotExclusive
  <1> QED  BY <1>1, SlotInvariant, PTL

(* Close returns only when no run is alive, and a row is left 'running'    *)
(* only by a failed UPDATE.                                                *)
THEOREM ExitIsClean == Spec => []CleanExit
  <1>1. SlotInv => CleanExit
    BY DEF SlotInv, AfterClose, RunLocals, RunLocal, CleanExit, Up
  <1> QED  BY <1>1, SlotInvariant, PTL

(* While the process is up, every unfinished row of task_runs has a run or *)
(* a StartTask that will finish it, or lost the UPDATE that was to do so.  *)
THEOREM UnfinishedRowsAreTracked == Spec => []RowsAreTracked
  <1>1. Init => RowsAreTracked
    BY DEF Init, RowsAreTracked, Unfinished
  <1>2. SlotInv /\ SlotInv' /\ RowsAreTracked /\ [Next]_vars => RowsAreTracked'
    <2> SUFFICES ASSUME SlotInv, SlotInv', RowsAreTracked, [Next]_vars
                 PROVE RowsAreTracked'
      OBVIOUS
    <2> USE DEF RowsAreTracked, store, runs, slots, updater
    <2>1. ASSUME NEW s \in Starter, StartStepOf(s) \/ (s \in Caller /\ Call(s))
          PROVE RowsAreTracked'
      <3>1. ASSUME Up, UNCHANGED <<row, lost, active>>, start[s].at \notin {"added", "refused", "registered"},
                   \A t \in Starter \ {s} : start'[t] = start[t]
            PROVE RowsAreTracked'
        <4>1. start[s].run = NoRun
          BY <3>1 DEF SlotInv, StartLocals, Holding
        <4> QED  BY <3>1, <4>1, ConstantsAssumption
      <3>2. CASE (s \in Caller /\ Call(s)) \/ ReadAccount(s) \/ StoreFails(s) \/ GiveUp(s)
        BY <3>1, <3>2 DEF Call, Reserve, ReadAccount, StoreFails, GiveUp, SlotInv, TypeOK
      <3>3. CASE Register(s)
        BY <3>3 DEF Register, SlotInv, TypeOK, StartRecord
      <3>4. CASE MarkRefused(s)
        BY <3>4 DEF MarkRefused, RefusedRow, UpdateRun, SlotInv, TypeOK, Unfinished
      <3>5. CASE Launch(s)
        <4>1. start[s].run \in active
          BY <3>5 DEF Launch, SlotInv, StartLocals, Holding
        <4> QED  BY <3>5, <4>1 DEF Launch, SlotInv, TypeOK
      <3>6. ASSUME NEW r \in Run, AddRun(s, r) PROVE RowsAreTracked'
        <4>1. start[s].run = NoRun
          BY <3>6 DEF AddRun, SlotInv, StartLocals, Holding
        <4> QED
          BY <3>6, <4>1, ConstantsAssumption DEF AddRun, SlotInv, TypeOK, StartRecord
      <3> HIDE DEF RowsAreTracked
      <3> QED  BY <2>1, <3>2, <3>3, <3>4, <3>5, <3>6 DEF StartStepOf
    <2>2. ASSUME NEW r \in Run, RunStepOf(r) PROVE RowsAreTracked'
      <3>1. at[r] \in Alive => r \in active
        BY DEF SlotInv, RunLocals, RunLocal
      <3>2. CASE Begin(r) \/ Save(r)
        BY <3>1, <3>2 DEF Begin, Save, UpdateRun, Moves, RunUnchanged, SlotInv, TypeOK,
           Alive, RunStep
      <3>3. CASE WorkStep(r)
        BY <3>3 DEF WorkStep, Up
      <3>4. CASE ChainRedeem(r)
        <4>1. r \in Starter /\ start[r].run = NoRun
          BY <3>4 DEF ChainRedeem, Reserve, SlotInv, StartLocals, Holding, Starter
        <4> QED
          BY <3>4, <4>1, ConstantsAssumption DEF ChainRedeem, Reserve, Moves, SlotInv, TypeOK
      <3>5. CASE Remove(r)
        <4>1. row[r] \notin Unfinished \/ r \in lost
          BY <3>5 DEF Remove, Moves, SlotInv, RunLocals, RunLocal, Unfinished
        <4> QED  BY <3>5, <4>1 DEF Remove, Moves
      <3> HIDE DEF RowsAreTracked
      <3> QED  BY <2>2, <3>2, <3>3, <3>4, <3>5, WorkSteps DEF RunStepOf, SlotInv
    <2>3. CASE Toggles \/ Forms \/ Buttons
      BY <2>3 DEF Toggles, Forms, Buttons, SwitchOn, SwitchOff, AdminStepOf,
         CollectRuns, CancelRuns, SaveAccount, DeleteAccount, StopTask,
         ResolveRedeem, AdminUnchanged
    <2>4. CASE Updating \/ PowerNext \/ UNCHANGED vars
      <3>1. UNCHANGED <<row, lost, active, start, phase>>
        BY <2>4 DEF Updating, BeginPreparation, Poll, ReadLedger, CancelMaintenance,
           UpdateUnchanged, PowerNext, BeginPower, StopDesktopRuns, EndPower,
           PowerUnchanged, vars
      <3> QED  BY <3>1 DEF Up
    <2>5. CASE CloseContext \/ CloseGate \/ Exit
      BY <2>5 DEF CloseContext, CloseGate, Exit, PhaseUnchanged, Up
    <2>6. CASE ProcessEnds
      BY <2>6 DEF ProcessEnds, Up
    <2>7. CASE Restart
      BY <2>7 DEF Restart, Reset, Unfinished, SlotInv, TypeOK
    <2> HIDE DEF RowsAreTracked
    <2> QED
      BY <2>1, <2>2, <2>3, <2>4, <2>5, <2>6, <2>7, NextCases DEF ShutDown, End, Crash
  <1> QED  BY <1>1, <1>2, SlotInvariant, PTL DEF Spec
-----------------------------------------------------------------------------
(* The update preparation.                                                 *)

LEMMA UpdateInit == Init => UpdateInv
  BY DEF Init, UpdateInv, NoPower, Up

(* While a preparation has seen the slots empty, or has ended, nothing is  *)
(* admitted and no order is placed.                                        *)
LEMMA UpdateStepKeeps == SlotInv /\ UpdateInv /\ [Next]_vars => UpdateInv'
  <1> SUFFICES ASSUME SlotInv, UpdateInv, [Next]_vars PROVE UpdateInv'
    OBVIOUS
  <1> USE DEF store, runs, slots, updater
  <1>1. ASSUME NEW s \in Starter, StartStepOf(s) \/ (s \in Caller /\ Call(s))
        PROVE UpdateInv'
    <2>1. UNCHANGED <<maintenance, update, short, power, pending, phase>>
      BY <1>1 DEF StartStepOf, Call, ReadAccount, StoreFails, GiveUp, Register,
         MarkRefused, Launch, AddRun
    <2>2. maintenance => starting' \subseteq starting /\ active' = active
      BY <1>1 DEF StartStepOf, Call, Reserve, ReadAccount, StoreFails, GiveUp,
         Register, MarkRefused, Launch, AddRun, Refused, RefusedAtRegister, Release
    <2> QED  BY <2>1, <2>2 DEF UpdateInv, Up
  <1>2. ASSUME NEW r \in Run, RunStepOf(r) PROVE UpdateInv'
    <2>1. UNCHANGED <<maintenance, update, short, power, phase>>
      BY <1>2, WorkSteps DEF RunStepOf, SlotInv, Begin, WorkStep, ChainRedeem, Save,
         Remove, RunUnchanged
    <2>2. r \in active
      BY <1>2, WorkSteps DEF RunStepOf, SlotInv, Begin, WorkStep, ChainRedeem, Save,
         Remove, Moves, RunLocals, RunLocal, Alive, RunStep, Working
    <2> QED  BY <2>1, <2>2 DEF UpdateInv, Up
  <1>3. CASE Toggles \/ Forms \/ Buttons
    <2>1. /\ UNCHANGED <<maintenance, update, short, power, phase, starting, active>>
          /\ pending' \subseteq pending
      BY <1>3 DEF Toggles, Forms, Buttons, SwitchOn, SwitchOff, AdminStepOf,
         CollectRuns, CancelRuns, SaveAccount, DeleteAccount, StopTask,
         ResolveRedeem, AdminUnchanged
    <2> QED  BY <2>1 DEF UpdateInv, Up
  <1>4. CASE Updating
    <2>1. UNCHANGED <<power, phase, starting, active, pending>>
      BY <1>4 DEF Updating, BeginPreparation, Poll, ReadLedger, CancelMaintenance,
         UpdateUnchanged
    <2>2. CASE BeginPreparation
      BY <2>1, <2>2 DEF BeginPreparation, UpdateInv, Up
    <2>3. CASE Poll
      <3>1. ~ActiveOf({"pc", "redeem"}) /\ ~ShortRunning => starting = {} /\ active = {}
        BY ConstantsAssumption, JobShape
        DEF ActiveOf, ShortRunning, SlotInv, TypeOK, RunLocals, RunLocal
      <3> QED  BY <2>1, <2>3, <3>1 DEF Poll, UpdateInv, Up
    <2>4. CASE ReadLedger
      BY <2>1, <2>4 DEF ReadLedger, UpdateInv, Up
    <2>5. CASE CancelMaintenance
      BY <2>1, <2>5 DEF CancelMaintenance, UpdateInv, Up
    <2> QED  BY <1>4, <2>2, <2>3, <2>4, <2>5 DEF Updating
  <1>5. CASE PowerNext
    <2>1. UNCHANGED <<maintenance, update, short, phase, starting, active, pending>>
      BY <1>5 DEF PowerNext, BeginPower, StopDesktopRuns, EndPower, PowerUnchanged
    <2>2. maintenance /\ ~power.on => ~power'.on
      BY <1>5 DEF PowerNext, BeginPower, StopDesktopRuns, EndPower, NoPower,
         SlotInv, TypeOK
    <2> QED  BY <2>1, <2>2 DEF UpdateInv, Up
  <1>6. CASE CloseContext \/ CloseGate \/ Exit \/ Restart \/ UNCHANGED vars
    BY <1>6 DEF CloseContext, CloseGate, Exit, PhaseUnchanged, Restart, vars, UpdateInv, Up
  <1>7. CASE ProcessEnds
    BY <1>7 DEF ProcessEnds, UpdateInv, NoPower, Up
  <1> QED
    BY <1>1, <1>2, <1>3, <1>4, <1>5, <1>6, <1>7, NextCases DEF ShutDown, End, Crash

(* Once PrepareForUpdate has succeeded, no task runs, none is admitted and *)
(* no order is unresolved, until the maintenance ends.                     *)
THEOREM PreparedIsQuiescent == Spec => []PreparedQuiescent
  <1>1. SlotInv /\ UpdateInv => PreparedQuiescent
    <2> SUFFICES ASSUME SlotInv, UpdateInv, update = "prepared"
                 PROVE  PreparedQuiescent
      BY DEF PreparedQuiescent
    <2>1. /\ maintenance /\ Up /\ ~power.on
          /\ starting = {} /\ active = {} /\ pending = {}
      BY DEF UpdateInv, Up
    <2>2. \A r \in Run : at[r] \notin Alive
      BY <2>1 DEF SlotInv, RunLocals, RunLocal
    <2>3. Up => \A r \in Run : row[r] = "running" => r \in lost
      BY <2>2 DEF SlotInv, RunLocals, RunLocal
    <2> QED  BY <2>1, <2>2, <2>3 DEF PreparedQuiescent
  <1> QED  BY <1>1, UpdateInit, UpdateStepKeeps, SlotInvariant, PTL DEF Spec
-----------------------------------------------------------------------------
(* The power batch.                                                        *)

LEMMA PowerInit == Init => PowerInv
  BY DEF Init, PowerInv, NoPower

LEMMA PowerStepKeeps == SlotInv /\ PowerInv /\ [Next]_vars => PowerInv'
  <1> SUFFICES ASSUME SlotInv, PowerInv, [Next]_vars PROVE PowerInv'
    OBVIOUS
  <1> USE DEF store, runs, slots, updater
  <1>1. ASSUME NEW s \in Starter, StartStepOf(s) \/ (s \in Caller /\ Call(s))
        PROVE PowerInv'
    <2>1. UNCHANGED <<power, cancelled, phase>>
      BY <1>1 DEF StartStepOf, Call, ReadAccount, StoreFails, GiveUp, Register,
         MarkRefused, Launch, AddRun
    <2>2. CASE Register(s)
      <3>1. \A r \in active' \ active : /\ job[r] = start[s].job
                                        /\ ~PowerHolds(job[r])
        BY <2>2 DEF Register, RefusedAtRegister, Refused, SlotInv, StartLocals, Holding
      <3>2. UNCHANGED job
        BY <2>2 DEF Register
      <3> QED  BY <2>1, <3>1, <3>2 DEF PowerInv, PowerHolds, Cancelled
    <2>3. ASSUME NEW r \in Run, AddRun(s, r) PROVE PowerInv'
      <3>1. r \notin active /\ active' = active
        BY <2>3 DEF AddRun, SlotInv, RunLocals, RunLocal
      <3>2. \A q \in active : job'[q] = job[q]
        BY <2>3, <3>1 DEF AddRun, SlotInv, TypeOK
      <3> QED  BY <2>1, <3>1, <3>2 DEF PowerInv, Cancelled
    <2>4. CASE UNCHANGED <<job, active>>
      BY <2>1, <2>4 DEF PowerInv, Cancelled
    <2> QED
      BY <1>1, <2>2, <2>3, <2>4 DEF StartStepOf, Call, ReadAccount, StoreFails,
         GiveUp, MarkRefused, Launch
  <1>2. ASSUME NEW r \in Run, RunStepOf(r) PROVE PowerInv'
    <2>1. UNCHANGED <<power, cancelled, phase, job>> /\ active' \subseteq active
      BY <1>2, WorkSteps DEF RunStepOf, SlotInv, Begin, WorkStep, ChainRedeem, Save,
         Remove, RunUnchanged
    <2> QED  BY <2>1 DEF PowerInv, Cancelled
  <1>3. CASE Toggles \/ Forms \/ Buttons
    <2>1. UNCHANGED <<power, phase, job, active>> /\ cancelled \subseteq cancelled'
      BY <1>3 DEF Toggles, Forms, Buttons, SwitchOn, SwitchOff, AdminStepOf,
         CollectRuns, CancelRuns, SaveAccount, DeleteAccount, StopTask,
         ResolveRedeem, AdminUnchanged
    <2> QED  BY <2>1 DEF PowerInv, Cancelled
  <1>4. CASE Updating
    BY <1>4 DEF Updating, BeginPreparation, Poll, ReadLedger, CancelMaintenance,
       UpdateUnchanged, PowerInv, Cancelled
  <1>5. CASE PowerNext
    <2>1. UNCHANGED <<phase, job, active>> /\ cancelled \subseteq cancelled'
      BY <1>5 DEF PowerNext, BeginPower, StopDesktopRuns, EndPower, PowerUnchanged
    <2>2. ASSUME NEW a \in Account, StopDesktopRuns(a) PROVE PowerInv'
      <3>1. /\ a \in power.accounts /\ power' = [power EXCEPT !.quiet = @ \cup {a}]
            /\ cancelled' = cancelled \cup DesktopRuns(a)
        BY <2>2 DEF StopDesktopRuns
      <3>2. /\ power'.quiet = power.quiet \cup {a}
            /\ power'.accounts = power.accounts /\ power'.on = power.on
        BY <3>1 DEF SlotInv, TypeOK
      <3>3. power.on
        BY <3>1 DEF PowerInv, NoPower
      <3> QED  BY <2>1, <3>1, <3>2, <3>3 DEF PowerInv, DesktopRuns, Cancelled
    <2>3. (\E accounts \in (SUBSET Account) \ {{}} : BeginPower(accounts)) \/ EndPower
            => power'.quiet = {} /\ (~power'.on => power' = NoPower)
      BY DEF BeginPower, EndPower, NoPower
    <2> QED  BY <1>5, <2>1, <2>2, <2>3 DEF PowerNext, PowerInv
  <1>6. CASE CloseContext \/ CloseGate \/ Exit \/ UNCHANGED vars
    BY <1>6 DEF CloseContext, CloseGate, Exit, PhaseUnchanged, vars, PowerInv, Cancelled
  <1>7. CASE ProcessEnds
    BY <1>7 DEF ProcessEnds, PowerInv, NoPower
  <1>8. CASE Restart
    <2>1. active' = {} /\ power' = power
      BY <1>8 DEF Restart, SlotInv, AfterClose
    <2> QED  BY <2>1 DEF PowerInv
  <1> QED
    BY <1>1, <1>2, <1>3, <1>4, <1>5, <1>6, <1>7, <1>8, NextCases
    DEF ShutDown, End, Crash

(* No desktop task of an account whose runs the power batch has stopped    *)
(* goes on uncancelled until the batch ends.                               *)
THEOREM PowerIsExclusive == Spec => []PowerExclusive
  <1>1. SlotInv /\ PowerInv => PowerExclusive
    BY DEF SlotInv, RunLocals, RunLocal, PowerInv, PowerExclusive
  <1> QED  BY <1>1, PowerInit, PowerStepKeeps, SlotInvariant, PTL DEF Spec
-----------------------------------------------------------------------------
(* The switches.                                                           *)

LEMMA ToggleInit == Init => ToggleInv
  BY DEF Init, ToggleInv, GoesOn

(* A step that lets no further run go on, and writes no switch.            *)
LEMMA ToggleFrame ==
  ASSUME ToggleInv, UNCHANGED <<switch, admin>>, exists' \subseteq exists,
         \A r \in Run : GoesOn(r)' => GoesOn(r) /\ job'[r] = job[r]
  PROVE  ToggleInv'
  BY DEF ToggleInv, InHand

LEMMA ToggleStepKeeps == SlotInv /\ ToggleInv /\ [Next]_vars => ToggleInv'
  <1> SUFFICES ASSUME SlotInv, ToggleInv, [Next]_vars PROVE ToggleInv'
    OBVIOUS
  <1> USE DEF store, runs, slots, updater
  <1>1. ASSUME NEW s \in Starter, StartStepOf(s) \/ (s \in Caller /\ Call(s))
        PROVE ToggleInv'
    <2>1. UNCHANGED <<switch, admin, exists, cancelled, phase>>
      BY <1>1 DEF StartStepOf, Call, ReadAccount, StoreFails, GiveUp, Register,
         MarkRefused, Launch, AddRun
    <2>2. ASSUME NEW r \in Run, GoesOn(r)' PROVE GoesOn(r) /\ job'[r] = job[r]
      <3>1. CASE Launch(s)
        BY <2>1, <2>2, <3>1 DEF Launch, GoesOn, Going, Cancelled, SlotInv, TypeOK
      <3>2. ASSUME NEW q \in Run, AddRun(s, q) PROVE GoesOn(r) /\ job'[r] = job[r]
        <4>1. at[q] = "none" /\ at' = at /\ job' = [job EXCEPT ![q] = start[s].job]
          BY <3>2 DEF AddRun, SlotInv, RunLocals, RunLocal
        <4> QED  BY <2>1, <2>2, <4>1 DEF GoesOn, Going, Cancelled, SlotInv, TypeOK
      <3>3. CASE UNCHANGED <<at, job>>
        BY <2>1, <2>2, <3>3 DEF GoesOn, Cancelled
      <3> QED
        BY <1>1, <3>1, <3>2, <3>3 DEF StartStepOf, Call, ReadAccount, StoreFails,
           GiveUp, MarkRefused, Register
    <2> QED  BY <2>1, <2>2, ToggleFrame
  <1>2. ASSUME NEW r \in Run, RunStepOf(r) PROVE ToggleInv'
    <2>1. CASE Begin(r) \/ ChainRedeem(r) \/ Save(r) \/ Remove(r)
      <3>1. /\ UNCHANGED <<switch, admin, exists, cancelled, phase, job>>
            /\ \A q \in Run : at'[q] = at[q] \/ at'[q] \in {"begun", "chain", "remove", "gone"}
        BY <2>1 DEF Begin, ChainRedeem, Save, Remove, Moves, RunUnchanged, SlotInv, TypeOK
      <3>2. \A q \in Run : GoesOn(q)' => GoesOn(q)
        BY <3>1 DEF GoesOn, Going, Cancelled
      <3> QED  BY <3>1, <3>2, ToggleFrame
    <2>2. CASE WorkStep(r)
      <3>1. /\ UNCHANGED <<switch, admin, exists, cancelled, phase, job>>
            /\ \A q \in Run \ {r} : at'[q] = at[q]
            /\ at[r] = "begun" /\ at'[r] # "save" => Enabled(job[r])
        BY <2>2 DEF WorkStep, SlotInv, TypeOK
      <3>2. \A q \in Run \ {r} : GoesOn(q)' => GoesOn(q)
        BY <3>1 DEF GoesOn, Cancelled
      <3>3. CASE GoesOn(r)' => GoesOn(r)
        BY <3>1, <3>2, <3>3, ToggleFrame
      <3>4. CASE GoesOn(r)' /\ ~GoesOn(r)
        <4>1. at[r] = "begun" /\ Enabled(job[r])
          BY <2>2, <3>1, <3>4 DEF WorkStep, GoesOn, Going, Cancelled, SlotInv, TypeOK
        <4>2. ASSUME NEW a \in exists, NEW s \in Switch, switch[a][s] = "toggledOff"
              PROVE  ~Governed(a, s, job[r])
          BY <4>1, <4>2, ConstantsAssumption DEF Enabled, IsOn, Governed, Switch
        <4> QED  BY <3>1, <3>2, <4>2 DEF ToggleInv, InHand
      <3> QED  BY <3>3, <3>4
    <2> QED  BY <1>2, <2>1, <2>2, WorkSteps DEF RunStepOf, SlotInv
  <1>3. ASSUME NEW a \in Account, NEW s \in Switch, SwitchOn(a, s) PROVE ToggleInv'
    <2>1. /\ UNCHANGED <<admin, exists, cancelled, phase, job, at>>
          /\ switch' = [switch EXCEPT ![a][s] = "on"]
      BY <1>3 DEF SwitchOn, AdminUnchanged
    <2>2. \A b \in exists, z \in Switch :
            switch'[b][z] = "toggledOff" => switch[b][z] = "toggledOff"
      BY <2>1 DEF SlotInv, TypeOK
    <2> QED  BY <2>1, <2>2 DEF ToggleInv, InHand, GoesOn, Cancelled
  <1>4. ASSUME NEW a \in Account, NEW s \in Switch, NEW h \in Admin, SwitchOff(h, a, s)
        PROVE ToggleInv'
    <2>1. /\ UNCHANGED <<exists, cancelled, phase, job, at>>
          /\ switch' = [switch EXCEPT ![a][s] = "toggledOff"]
          /\ admin[h].at = "idle"
          /\ admin' = [admin EXCEPT ![h] = [at |-> "collect", account |-> a,
                                            switch |-> s, found |-> {}]]
      BY <1>4 DEF SwitchOff, AdminUnchanged
    <2>2. /\ \A r \in Run : InHand(h, a, s, r)'
          /\ \A g \in Admin \ {h} : admin'[g] = admin[g]
          /\ \A b \in exists, z \in Switch : <<b, z>> # <<a, s>> => switch'[b][z] = switch[b][z]
      BY <2>1 DEF InHand, SlotInv, TypeOK
    <2>3. ASSUME NEW b \in exists, NEW z \in Switch, NEW r \in Run,
                 switch'[b][z] = "toggledOff", Governed(b, z, job[r]), GoesOn(r)
          PROVE  \E g \in Admin : InHand(g, b, z, r)'
      <3>1. CASE <<b, z>> = <<a, s>>
        BY <2>2, <3>1
      <3>2. CASE <<b, z>> # <<a, s>>
        <4>1. PICK g \in Admin : InHand(g, b, z, r)
          BY <2>2, <2>3, <3>2 DEF ToggleInv
        <4>2. g # h
          BY <2>1, <4>1 DEF InHand
        <4> QED  BY <2>2, <4>1, <4>2 DEF InHand
      <3> QED  BY <3>1, <3>2
    <2> QED  BY <2>1, <2>3 DEF ToggleInv, GoesOn, Cancelled
  <1>5. ASSUME NEW h \in Admin, CollectRuns(h) PROVE ToggleInv'
    <2> DEFINE found == {r \in active : Concerns(admin[h].account,
                                                admin[h].switch, job[r])}
    <2>1. /\ UNCHANGED <<exists, switch, cancelled, phase, job, at>>
          /\ admin' = [admin EXCEPT ![h].at = "cancel", ![h].found = found]
      BY <1>5 DEF CollectRuns, AdminUnchanged
    <2>2. /\ admin'[h].at = "cancel" /\ admin'[h].found = found
          /\ admin'[h].account = admin[h].account /\ admin'[h].switch = admin[h].switch
          /\ \A g \in Admin \ {h} : admin'[g] = admin[g]
      <3> HIDE DEF found
      <3> QED  BY <2>1 DEF SlotInv, TypeOK, AdminRecord
    <2>3. ASSUME NEW b \in exists, NEW z \in Switch, NEW r \in Run, NEW g \in Admin,
                 InHand(g, b, z, r), Governed(b, z, job[r]), GoesOn(r)
          PROVE  InHand(g, b, z, r)'
      <3>1. r \in active
        BY <2>3 DEF GoesOn, Going, Alive, RunStep, SlotInv, RunLocals, RunLocal
      <3>2. Concerns(b, z, job[r])
        BY <2>3 DEF Governed, Concerns
      <3> QED  BY <2>2, <2>3, <3>1, <3>2 DEF InHand
    <2> QED  BY <2>1, <2>3 DEF ToggleInv, GoesOn, Cancelled
  <1>6. ASSUME NEW h \in Admin, CancelRuns(h) PROVE ToggleInv'
    <2>1. /\ UNCHANGED <<exists, switch, phase, job, at>>
          /\ cancelled' = cancelled \cup admin[h].found
          /\ admin[h].at = "cancel"
          /\ \A g \in Admin \ {h} : admin'[g] = admin[g]
      BY <1>6 DEF CancelRuns, AdminUnchanged, SlotInv, TypeOK
    <2>2. ASSUME NEW b \in exists, NEW z \in Switch, NEW r \in Run,
                 switch[b][z] = "toggledOff", Governed(b, z, job[r]), GoesOn(r)'
          PROVE  \E g \in Admin : InHand(g, b, z, r)'
      <3>1. GoesOn(r) /\ r \notin admin[h].found
        BY <2>1, <2>2 DEF GoesOn, Cancelled
      <3>2. PICK g \in Admin : InHand(g, b, z, r)
        BY <2>2, <3>1 DEF ToggleInv
      <3>3. g # h
        BY <2>1, <3>1, <3>2 DEF InHand
      <3> QED  BY <2>1, <3>2, <3>3 DEF InHand
    <2> QED  BY <2>1, <2>2 DEF ToggleInv
  <1>7. ASSUME NEW a \in Account, SaveAccount(a) PROVE ToggleInv'
    <2>1. UNCHANGED <<admin, exists, cancelled, phase, job, at>>
      BY <1>7 DEF SaveAccount, AdminUnchanged
    <2>2. \A b \in exists, z \in Switch :
            switch'[b][z] = "toggledOff" => switch[b][z] = "toggledOff"
      BY <1>7 DEF SaveAccount, SlotInv, TypeOK
    <2> QED  BY <2>1, <2>2 DEF ToggleInv, InHand, GoesOn, Cancelled
  <1>8. ASSUME NEW a \in Account, DeleteAccount(a) PROVE ToggleInv'
    BY <1>8, ToggleFrame DEF DeleteAccount, GoesOn, Cancelled
  <1>9. CASE Buttons
    <2>1. /\ UNCHANGED <<switch, admin, exists, phase, job, at>>
          /\ cancelled \subseteq cancelled'
      BY <1>9 DEF Buttons, StopTask, ResolveRedeem, AdminUnchanged
    <2> QED  BY <2>1, ToggleFrame DEF GoesOn, Cancelled
  <1>10. CASE Updating \/ UNCHANGED vars
    BY <1>10, ToggleFrame DEF Updating, BeginPreparation, Poll, ReadLedger,
       CancelMaintenance, UpdateUnchanged, vars, GoesOn, Cancelled
  <1>11. CASE PowerNext
    <2>1. /\ UNCHANGED <<switch, admin, exists, phase, job, at>>
          /\ cancelled \subseteq cancelled'
      BY <1>11 DEF PowerNext, BeginPower, StopDesktopRuns, EndPower, PowerUnchanged
    <2> QED  BY <2>1, ToggleFrame DEF GoesOn, Cancelled
  <1>12. CASE CloseContext \/ CloseGate \/ Exit
    BY <1>12, ToggleFrame
    DEF CloseContext, CloseGate, Exit, PhaseUnchanged, GoesOn, Cancelled
  <1>13. CASE ProcessEnds \/ Restart
    <2>1. \A r \in Run : ~GoesOn(r)'
      BY <1>13 DEF ProcessEnds, Restart, GoesOn, Going, Alive, RunStep, SlotInv,
         TypeOK, RunLocals, RunLocal, AfterClose
    <2> QED  BY <2>1 DEF ToggleInv
  <1> QED
    BY <1>1, <1>2, <1>3, <1>4, <1>5, <1>6, <1>7, <1>8, <1>9, <1>10, <1>11,
       <1>12, <1>13, NextCases
    DEF Toggles, AdminStepOf, Forms, ShutDown, End, Crash

(* A toggle that has returned has stopped every run its switch governs.    *)
THEOREM TogglesStopRuns == Spec => []ToggleStopsRuns
  <1>1. ToggleInv => ToggleStopsRuns
    BY DEF ToggleInv, InHand, GoesOn, Going, ToggleStopsRuns, StoppedWhenOff
  <1> QED  BY <1>1, ToggleInit, ToggleStepKeeps, SlotInvariant, PTL DEF Spec
-----------------------------------------------------------------------------
(* The refinement: every step of the runner is a step of the ledger or     *)
(* leaves it alone.                                                        *)

LEMMA LedgerInit == Init => Ledger!Init
  BY DEF Init, Ledger!Init

LEMMA LedgerStep == SlotInv /\ SlotInv' /\ [Next]_vars => [Ledger!Next]_(Ledger!vars)
  <1> SUFFICES ASSUME SlotInv, SlotInv', [Next]_vars
               PROVE  [Ledger!Next]_(Ledger!vars)
    OBVIOUS
  <1> USE DEF store, runs, slots, updater
  <1> DEFINE Stutter == UNCHANGED <<row, lost, job, active>> /\ (Up <=> Up')
             Goal == [Ledger!Next]_(Ledger!vars)
  <1>1. Stutter => Goal
    BY DEF Ledger!vars, Up
  <1>2. ASSUME NEW s \in Starter, StartStepOf(s) \/ (s \in Caller /\ Call(s))
        PROVE Goal
    <2>1. CASE (s \in Caller /\ Call(s)) \/ ReadAccount(s) \/ StoreFails(s)
                 \/ GiveUp(s) \/ Launch(s)
      BY <1>1, <2>1 DEF Call, ReadAccount, StoreFails, GiveUp, Launch, Up
    <2>2. CASE Register(s)
      <3>1. CASE active' = active
        BY <1>1, <2>2, <3>1 DEF Register, Up
      <3>2. CASE active' # active
        <4>1. /\ start[s].run \in Run /\ start[s].run \notin active
              /\ row[start[s].run] = "queued" /\ job[start[s].run] = start[s].job
              /\ start[s].run \notin lost
              /\ Claim(s) \in starting
              /\ \A q \in active : SlotOf(job[q]) # Claim(s)
          BY <2>2 DEF Register, SlotInv, StartLocals, ClaimsDistinct, Claiming, Holding
        <4>2. /\ active' = active \cup {start[s].run}
              /\ UNCHANGED <<row, lost, job, phase>> /\ Up
          BY <2>2, <3>2 DEF Register
        <4>3. Ledger!Admit(start[s].run)
          BY <4>1, <4>2 DEF Ledger!Admit, Claim, Up, SlotInv, TypeOK
        <4> QED  BY <4>1, <4>3 DEF Ledger!Next
      <3> QED  BY <3>1, <3>2
    <2>3. CASE MarkRefused(s)
      <3>1. /\ start[s].run \in Run /\ start[s].run \notin active
            /\ row[start[s].run] = "queued" /\ start[s].run \notin lost
        BY <2>3 DEF MarkRefused, SlotInv, StartLocals, Holding
      <3>2. Ledger!Refuse(start[s].run)
        BY <2>3, <3>1 DEF MarkRefused, RefusedRow, UpdateRun, Unfinished, Ledger!Refuse,
           Ledger!SetRow, Ledger!Miss, Ledger!Open, Up
      <3> QED  BY <3>1, <3>2 DEF Ledger!Next
    <2>4. ASSUME NEW r \in Run, AddRun(s, r) PROVE Goal
      <3>1. start[s].job \in Job
        BY <2>4 DEF AddRun, SlotInv, StartLocals, Claiming
      <3>2. Ledger!Queue(r, SlotOf(start[s].job))
        BY <2>4 DEF AddRun, Ledger!Queue, Ledger!SetRow, Up, SlotInv, TypeOK
      <3> QED  BY <3>1, <3>2, JobShape DEF Ledger!Next
    <2> QED  BY <1>2, <2>1, <2>2, <2>3, <2>4 DEF StartStepOf
  <1>3. ASSUME NEW r \in Run, RunStepOf(r) PROVE Goal
    <2>1. at[r] \in Alive => r \in active
      BY DEF SlotInv, RunLocals, RunLocal
    <2>2. CASE Begin(r)
      <3>1. r \in active /\ row[r] = "queued" /\ r \notin lost
        BY <2>1, <2>2 DEF Begin, Moves, SlotInv, RunLocals, RunLocal, Alive, RunStep
      <3>2. CASE row' = row
        BY <1>1, <2>2, <3>2 DEF Begin, UpdateRun, Unfinished, RunUnchanged, Up
      <3>3. CASE row' = [row EXCEPT ![r] = "running"]
        <4>1. Ledger!Begin(r)
          BY <2>2, <3>1, <3>3 DEF Begin, UpdateRun, Unfinished, Moves, RunUnchanged,
             Ledger!Begin, Ledger!SetRow, Up
        <4> QED  BY <4>1 DEF Ledger!Next
      <3> QED  BY <2>2, <3>2, <3>3 DEF Begin, UpdateRun
    <2>3. CASE WorkStep(r)
      BY <1>1, <2>3 DEF WorkStep, Up
    <2>4. CASE ChainRedeem(r)
      BY <1>1, <2>4 DEF ChainRedeem, Up
    <2>5. CASE Save(r)
      <3>1. /\ r \in active /\ row[r] \in Ledger!Open /\ r \notin lost
            /\ result[r] \in Ledger!Final /\ result[r] \notin Unfinished
        BY <2>1, <2>5 DEF Save, Moves, SlotInv, RunLocals, RunLocal, Alive, RunStep,
           Ledger!Final, Ledger!Open, Unfinished
      <3>2. Ledger!Finish(r)
        BY <2>5, <3>1 DEF Save, UpdateRun, Moves, RunUnchanged, Ledger!Finish,
           Ledger!SetRow, Ledger!Miss, Up
      <3> QED  BY <3>2 DEF Ledger!Next
    <2>6. CASE Remove(r)
      <3>1. r \in active /\ (row[r] \in Ledger!Final \/ r \in lost)
        BY <2>1, <2>6 DEF Remove, Moves, SlotInv, RunLocals, RunLocal, Alive, RunStep,
           Ledger!Final
      <3>2. Ledger!Leave(r)
        BY <2>6, <3>1 DEF Remove, Moves, Ledger!Leave, Up
      <3> QED  BY <3>2 DEF Ledger!Next
    <2> QED
      BY <1>3, <2>2, <2>3, <2>4, <2>5, <2>6, WorkSteps DEF RunStepOf, SlotInv
  <1>4. CASE Toggles \/ Forms \/ Buttons
    BY <1>1, <1>4 DEF Toggles, Forms, Buttons, SwitchOn, SwitchOff, AdminStepOf,
       CollectRuns, CancelRuns, SaveAccount, DeleteAccount, StopTask,
       ResolveRedeem, AdminUnchanged, Up
  <1>5. CASE Updating \/ PowerNext \/ UNCHANGED vars
    <2>1. UNCHANGED <<row, lost, job, active, phase>>
      BY <1>5 DEF Updating, BeginPreparation, Poll, ReadLedger, CancelMaintenance,
         UpdateUnchanged, PowerNext, BeginPower, StopDesktopRuns, EndPower,
         PowerUnchanged, vars
    <2> QED  BY <1>1, <2>1 DEF Up
  <1>6. CASE CloseContext \/ CloseGate \/ Exit
    BY <1>1, <1>6 DEF CloseContext, CloseGate, Exit, PhaseUnchanged, Up
  <1>7. CASE End \/ Crash
    <2>1. Ledger!Die
      BY <1>7 DEF End, Crash, ProcessEnds, Up, Ledger!Die
    <2> QED  BY <2>1 DEF Ledger!Next
  <1>8. CASE Restart
    <2>1. Ledger!Recover
      BY <1>8 DEF Restart, Reset, Unfinished, Ledger!Recover, Ledger!Open
    <2> QED  BY <2>1 DEF Ledger!Next
  <1> QED
    BY <1>2, <1>3, <1>4, <1>5, <1>6, <1>7, <1>8, NextCases DEF ShutDown

(* The runner implements the ledger: rows are queued, admitted, begun,     *)
(* finished and taken out one step at a time, also across a crash.         *)
THEOREM RunnerImplementsLedger == Spec => ImplementsLedger
  BY LedgerInit, LedgerStep, SlotInvariant, PTL
  DEF Spec, ImplementsLedger, Ledger!Spec
-----------------------------------------------------------------------------
(* What the ledger promises, and the task runner with it.                  *)

LedgerInv ==
  Ledger!TypeOK /\ Ledger!Exclusive /\ \A r \in active : row[r] # "none"

LEMMA LedgerInvariant == Ledger!Spec => []LedgerInv
  <1>1. Ledger!Init => LedgerInv
    <2> DEFINE taken == [r \in Run |-> SlotOf(job[r])]
    <2> SUFFICES ASSUME Ledger!Init PROVE LedgerInv
      OBVIOUS
    <2>1. taken = [r \in Run |-> SlotOf(NoJob)] /\ active = {} /\ lost = {}
      BY DEF Ledger!Init
    <2> HIDE DEF taken
    <2>2. taken \in [Run -> Slot \cup {SlotOf(NoJob)}]
      BY <2>1
    <2>3. row \in [Run -> Ledger!Status] /\ (phase # "down") \in BOOLEAN
      BY DEF Ledger!Init, Ledger!Status
    <2> QED
      BY <2>1, <2>2, <2>3 DEF LedgerInv, Ledger!TypeOK, Ledger!Exclusive, taken
  <1>2. LedgerInv /\ [Ledger!Next]_(Ledger!vars) => LedgerInv'
    <2> SUFFICES ASSUME LedgerInv, [Ledger!Next]_(Ledger!vars) PROVE LedgerInv'
      OBVIOUS
    <2> USE DEF LedgerInv, Ledger!TypeOK, Ledger!Exclusive, Ledger!Status,
            Ledger!Final, Ledger!Open, Ledger!SetRow, Ledger!Miss
    <2>1. ASSUME NEW r \in Run, NEW k \in Slot, Ledger!Queue(r, k)
          PROVE  LedgerInv'
      <3> DEFINE taken == [q \in Run |-> SlotOf(job[q])]
      <3>1. taken' = [taken EXCEPT ![r] = k]
        BY <2>1 DEF Ledger!Queue
      <3>2. taken \in [Run -> Slot \cup {SlotOf(NoJob)}]
        OBVIOUS
      <3>3. \A p, q \in active : taken[p] = taken[q] => p = q
        OBVIOUS
      <3>4. r \notin active /\ active \subseteq Run /\ active' = active
        BY <2>1 DEF Ledger!Queue
      <3>5. /\ row' = [row EXCEPT ![r] = "queued"] /\ row \in [Run -> Ledger!Status]
            /\ UNCHANGED <<phase # "down", lost>> /\ lost \subseteq Run
        BY <2>1 DEF Ledger!Queue
      <3> HIDE DEF taken, LedgerInv
      <3>6. taken' \in [Run -> Slot \cup {SlotOf(NoJob)}]
        BY <3>1, <3>2
      <3>7. \A p, q \in active' : taken'[p] = taken'[q] => p = q
        BY <3>1, <3>2, <3>3, <3>4
      <3>8. row' \in [Run -> Ledger!Status] /\ \A q \in active' : row'[q] # "none"
        BY <3>4, <3>5 DEF LedgerInv
      <3>9. active' \subseteq Run /\ lost' \subseteq Run /\ (phase' # "down") \in BOOLEAN
        BY <3>4, <3>5
      <3> QED
        BY <3>6, <3>7, <3>8, <3>9 DEF LedgerInv, taken
    <2>2. ASSUME NEW r \in Run, Ledger!Admit(r) PROVE LedgerInv'
      BY <2>2 DEF Ledger!Admit
    <2>3. ASSUME NEW r \in Run,
                 Ledger!Refuse(r) \/ Ledger!Begin(r) \/ Ledger!Finish(r)
          PROVE  LedgerInv'
      BY <2>3 DEF Ledger!Refuse, Ledger!Begin, Ledger!Finish
    <2>4. ASSUME NEW r \in Run, Ledger!Leave(r) PROVE LedgerInv'
      BY <2>4 DEF Ledger!Leave
    <2>5. CASE Ledger!Die \/ Ledger!Recover
      BY <2>5 DEF Ledger!Die, Ledger!Recover
    <2>6. CASE UNCHANGED Ledger!vars
      BY <2>6 DEF Ledger!vars
    <2> HIDE DEF LedgerInv
    <2> QED  BY <2>1, <2>2, <2>3, <2>4, <2>5, <2>6 DEF Ledger!Next
  <1> QED  BY <1>1, <1>2, PTL DEF Ledger!Spec

(* The working set of the ledger never holds two runs of one slot.         *)
THEOREM LedgerExclusive == Ledger!Spec => []Ledger!Exclusive
  <1>1. LedgerInv => Ledger!Exclusive
    BY DEF LedgerInv
  <1> QED  BY <1>1, LedgerInvariant, PTL

(* A run's final status is final: nothing rewrites the history.            *)
THEOREM LedgerFinal == Ledger!Spec => Ledger!FinalForever
  <1>1. LedgerInv /\ [Ledger!Next]_(Ledger!vars) =>
          [\A r \in Run : row[r] \in Ledger!Final \cup {"interrupted"}
                            => row'[r] = row[r]]_row
    BY DEF LedgerInv, Ledger!TypeOK, Ledger!Next, Ledger!Queue, Ledger!Admit,
       Ledger!Refuse, Ledger!Begin, Ledger!Finish, Ledger!Leave, Ledger!Die,
       Ledger!Recover, Ledger!SetRow, Ledger!Miss, Ledger!Open, Ledger!Final, Ledger!vars
  <1> QED
    BY <1>1, LedgerInvariant, PTL DEF Ledger!Spec, Ledger!FinalForever

(* So nothing rewrites a final status in task_runs.                        *)
THEOREM FinalStatusesStay == Spec => Ledger!FinalForever
  BY RunnerImplementsLedger, LedgerFinal, PTL DEF ImplementsLedger
=============================================================================
