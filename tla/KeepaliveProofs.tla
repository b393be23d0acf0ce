-------------------------- MODULE KeepaliveProofs --------------------------
(***************************************************************************)
(* Theorems about Keepalive for every number of accounts, runs of          *)
(* startAccount and requests.                                              *)
(*                                                                         *)
(* SessionsAreRegistered is inductive with the types: who cancels a        *)
(* context takes it out of m.clients in the same critical section, who     *)
(* replaces an entry has seen that its context is cancelled, and setState, *)
(* which has not, leaves a mark in lost.                                   *)
(***************************************************************************)
EXTENDS Keepalive, TLAPS

(* startAccount counts its connections from none.                          *)
Counted ==
  \A s \in Session :
    \/ start[s].at = "connect"
    \/ start[s].at \in {"check", "write"} /\ start[s].then = "connect"
    => start[s].workers = 0

IInv == TypeOK /\ Counted /\ SessionsAreRegistered

StartAt == {"free", "launched", "login", "connect", "check", "write"}
-----------------------------------------------------------------------------
(* Types                                                                   *)

LEMMA IdleTypes ==
  /\ AnyAccount \in Account /\ NoClient \in Client
  /\ IdleStart \in Start /\ IdleSweep \in Sweep
  <1>1. AnyAccount \in Account
    BY KeepaliveAssumption DEF AnyAccount
  <1>2. QED
    BY <1>1 DEF NoClient, Client, IdleStart, Start, IdleSweep, Sweep

(* No step of startAccount moves a session to another account.             *)
LEMMA GotoStart ==
  ASSUME TypeOK, Counted, NEW s \in Session, NEW at \in StartAt, Goto(s, at),
         at = "connect" => start[s].workers = 0,
         at \in {"check", "write"} /\ start[s].then = "connect"
           => start[s].workers = 0
  PROVE  /\ start' \in [Session -> Start] /\ Counted'
         /\ \A r \in Session : start'[r].account = start[r].account
  <1> DEFINE new == IF at = "free"
                    THEN [IdleStart EXCEPT !.account = start[s].account]
                    ELSE [start[s] EXCEPT !.at = at]
  <1>1. start \in [Session -> Start]
    BY DEF TypeOK
  <1>2. start[s] \in Start
    BY <1>1
  <1>3. /\ new \in Start /\ new.account = start[s].account
        /\ new.at = at
        /\ at # "free" => new.workers = start[s].workers /\ new.then = start[s].then
    BY <1>2, IdleTypes DEF Start, StartAt, IdleStart
  <1>4. start' = [start EXCEPT ![s] = new]
    BY DEF Goto
  <1>5. start' \in [Session -> Start]
    BY <1>1, <1>3, <1>4
  <1>6. \A r \in Session : start'[r] = IF r = s THEN new ELSE start[r]
    BY <1>1, <1>4
  <1>7. Counted'
    BY <1>3, <1>6 DEF Counted
  <1>8. QED
    BY <1>3, <1>5, <1>6, <1>7

LEMMA SetStateStart ==
  ASSUME TypeOK, Counted, NEW s \in Session, NEW n \in 0..1,
         NEW then \in {"connect", "free"}, SetState(s, n, then),
         then = "connect" => n = 0
  PROVE  /\ start' \in [Session -> Start] /\ Counted'
         /\ \A r \in Session : start'[r].account = start[r].account
  <1> DEFINE new == [start[s] EXCEPT !.at = "check", !.workers = n,
                                     !.then = then]
  <1>1. start \in [Session -> Start]
    BY DEF TypeOK
  <1>2. start[s] \in Start
    BY <1>1
  <1>3. /\ new \in Start /\ new.account = start[s].account
        /\ new.at = "check" /\ new.workers = n /\ new.then = then
    BY <1>2 DEF Start
  <1>4. start' = [start EXCEPT ![s] = new]
    BY <1>1 DEF SetState
  <1>5. start' \in [Session -> Start]
    BY <1>1, <1>3, <1>4
  <1>6. \A r \in Session : start'[r] = IF r = s THEN new ELSE start[r]
    BY <1>1, <1>4
  <1>7. Counted'
    BY <1>3, <1>6 DEF Counted
  <1>8. QED
    BY <1>3, <1>5, <1>6, <1>7

(* A step that leaves m.clients, the contexts and the history alone, and   *)
(* moves no session, keeps SessionsAreRegistered.                          *)
LEMMA RegisteredUnchanged ==
  ASSUME TypeOK, SessionsAreRegistered, client' = client,
         live' \subseteq live, lost' = lost,
         \A r \in Session : start'[r].account = start[r].account
  PROVE  SessionsAreRegistered'
  BY DEF SessionsAreRegistered, TypeOK

(* Cancelling the contexts of some accounts and forgetting them keeps      *)
(* SessionsAreRegistered.                                                  *)
LEMMA RegisteredCancelled ==
  ASSUME TypeOK, SessionsAreRegistered, NEW ids \in SUBSET Account,
         live' = Cancelled(ids), start' = start, lost' = lost,
         client' = [a \in Account |-> IF a \in ids THEN NoClient
                                      ELSE client[a]]
  PROVE  /\ SessionsAreRegistered'
         /\ live' \subseteq Session /\ client' \in [Account -> Client]
  <1>1. live' \subseteq Session /\ client' \in [Account -> Client]
    BY IdleTypes DEF TypeOK, Cancelled
  <1>2. ASSUME NEW s \in live' \ lost'
        PROVE  client'[start'[s].account].ctx = s
    <2>1. s \in live \ lost
      BY <1>2 DEF Cancelled
    <2>2. start[s].account \in Account
      BY <2>1 DEF TypeOK, Start
    <2>3. client[start[s].account].ctx = s
      BY <2>1 DEF SessionsAreRegistered
    <2>4. start[s].account \notin ids
      BY <1>2, <2>3 DEF Cancelled
    <2>5. QED
      BY <2>2, <2>3, <2>4
  <1>3. QED
    BY <1>1, <1>2 DEF SessionsAreRegistered
-----------------------------------------------------------------------------
(* startAccount                                                            *)

LEMMA SessionSteps ==
  ASSUME IInv, NEW s \in Session, SessionStep(s)
  PROVE  IInv'
  <1>1. TypeOK /\ Counted /\ SessionsAreRegistered
    BY DEF IInv
  <1>2. start[s] \in Start
    BY <1>1 DEF TypeOK
  <1> DEFINE a == start[s].account
  <1>3. a \in Account /\ client[a] \in Client
    BY <1>1, <1>2 DEF TypeOK, Start
  <1>4. CASE Register(s)
    <2>1. CASE Running(a)
      <3>1. Goto(s, "free") /\ UNCHANGED <<client, live, pending, link>>
        BY <1>4, <2>1 DEF Register
      <3>2. QED
        BY <1>1, <1>4, <3>1, GotoStart, RegisteredUnchanged
        DEF IInv, TypeOK, StartAt, Register, SessionOnly
    <2>2. CASE ~Running(a)
      <3>1. /\ Goto(s, "login") /\ live' = live \cup {s} /\ lost' = lost
            /\ client' = [client EXCEPT ![a] = [ctx |-> s, workers |-> 0]]
        BY <1>4, <2>2 DEF Register, SessionOnly
      <3>2. /\ start' \in [Session -> Start] /\ Counted'
            /\ \A r \in Session : start'[r].account = start[r].account
        BY <1>1, <3>1, GotoStart DEF StartAt
      <3>3. client' \in [Account -> Client]
        BY <1>1, <1>3, <3>1 DEF TypeOK, Client
      <3>4. ASSUME NEW r \in live' \ lost'
            PROVE  client'[start'[r].account].ctx = r
        <4>1. CASE r = s
          BY <1>1, <1>3, <3>1, <3>2, <4>1 DEF TypeOK
        <4>2. CASE r # s
          <5>1. r \in live \ lost /\ r \in Session
            BY <1>1, <3>1, <4>2 DEF TypeOK
          <5>2. client[start[r].account].ctx = r /\ start[r].account \in Account
            BY <1>1, <5>1 DEF SessionsAreRegistered, TypeOK, Start
          <5>3. start[r].account # a
            BY <2>2, <5>1, <5>2 DEF Running
          <5>4. QED
            BY <1>1, <3>1, <3>2, <5>1, <5>2, <5>3 DEF TypeOK
        <4>3. QED
          BY <4>1, <4>2
      <3>5. SessionsAreRegistered'
        BY <3>4 DEF SessionsAreRegistered
      <3>6. QED
        BY <1>1, <1>4, <3>1, <3>2, <3>3, <3>5
        DEF IInv, TypeOK, Register, SessionOnly
    <2>3. QED
      BY <2>1, <2>2
  <1>5. CASE Login(s)
    <2>1. /\ UNCHANGED <<client, live, link>> /\ SessionOnly
          /\ pending' \subseteq Account
          /\ SetState(s, 0, "free") \/ SetState(s, 0, "connect")
      BY <1>1, <1>3, <1>5 DEF Login, TypeOK
    <2>2. /\ start' \in [Session -> Start] /\ Counted'
          /\ \A r \in Session : start'[r].account = start[r].account
      BY <1>1, <2>1, SetStateStart
    <2>3. QED
      BY <1>1, <2>1, <2>2, RegisteredUnchanged DEF IInv, TypeOK, SessionOnly
  <1>6. CASE Connect(s)
    <2>1. start[s].workers = 0 /\ ConnectedOnce(s) = 1
      BY <1>1, <1>2, <1>6 DEF Connect, Counted, ConnectedOnce
    <2>2. /\ UNCHANGED <<client, live, pending>> /\ SessionOnly
          /\ link' \subseteq Session
          /\ \/ Goto(s, "free") \/ SetState(s, 0, "free")
             \/ SetState(s, 1, "free")
      BY <1>1, <1>6, <2>1 DEF Connect, TypeOK
    <2>3. /\ start' \in [Session -> Start] /\ Counted'
          /\ \A r \in Session : start'[r].account = start[r].account
      BY <1>1, <2>2, SetStateStart, GotoStart DEF StartAt
    <2>4. QED
      BY <1>1, <2>2, <2>3, RegisteredUnchanged DEF IInv, TypeOK, SessionOnly
  <1>7. CASE CheckState(s)
    <2>1. /\ UNCHANGED <<client, live, pending, link>> /\ SessionOnly
          /\ start[s].at = "check"
          /\ Goto(s, "write") \/ Goto(s, start[s].then)
      BY <1>7 DEF CheckState
    <2>2. /\ start' \in [Session -> Start] /\ Counted'
          /\ \A r \in Session : start'[r].account = start[r].account
      BY <1>1, <1>2, <2>1, GotoStart DEF StartAt, Start, Counted
    <2>3. QED
      BY <1>1, <2>1, <2>2, RegisteredUnchanged DEF IInv, TypeOK, SessionOnly
  <1>8. CASE WriteState(s)
    <2>1. /\ Goto(s, start[s].then) /\ live' = live
          /\ lost' = (lost \cup (live \cap {client[a].ctx})) \ {s}
          /\ client' = [client EXCEPT ![a] =
                          [ctx |-> s, workers |-> start[s].workers]]
      BY <1>8 DEF WriteState
    <2>2. /\ start' \in [Session -> Start] /\ Counted'
          /\ \A r \in Session : start'[r].account = start[r].account
      BY <1>1, <1>2, <1>8, <2>1, GotoStart
      DEF StartAt, Start, Counted, WriteState
    <2>3. client' \in [Account -> Client] /\ lost' \subseteq Session
      BY <1>1, <1>2, <1>3, <2>1 DEF TypeOK, Client, Start
    <2>4. ASSUME NEW r \in live' \ lost'
          PROVE  client'[start'[r].account].ctx = r
      <3>1. r \in live /\ r \in Session
        BY <1>1, <2>1 DEF TypeOK
      <3>2. CASE r = s
        BY <1>1, <1>3, <2>1, <2>2, <3>2 DEF TypeOK
      <3>3. CASE r # s
        <4>1. r \notin lost /\ r # client[a].ctx
          BY <2>1, <2>4, <3>1, <3>3
        <4>2. client[start[r].account].ctx = r /\ start[r].account \in Account
          BY <1>1, <3>1, <4>1 DEF SessionsAreRegistered, TypeOK, Start
        <4>3. QED
          BY <1>1, <2>1, <2>2, <3>1, <4>1, <4>2 DEF TypeOK
      <3>4. QED
        BY <3>2, <3>3
    <2>5. SessionsAreRegistered'
      BY <2>4 DEF SessionsAreRegistered
    <2>6. QED
      BY <1>1, <1>8, <2>1, <2>2, <2>3, <2>5 DEF IInv, TypeOK, WriteState
  <1>9. CASE Disconnect(s)
    BY <1>1, <1>9, RegisteredUnchanged
    DEF Disconnect, IInv, TypeOK, Counted, SessionOnly
  <1>10. QED
    BY <1>4, <1>5, <1>6, <1>7, <1>8, <1>9 DEF SessionStep
-----------------------------------------------------------------------------
(* The comparisons                                                         *)

LEMMA BeginSweep ==
  ASSUME TypeOK, NEW t \in Thread, NEW kind \in {"restart", "reconcile", "reset"},
         NEW ids \in SUBSET Account, Begin(t, kind, ids)
  PROVE  sweep' \in [Thread -> Sweep]
  BY IdleTypes DEF TypeOK, Begin, IdleSweep, Sweep

LEMMA GoOnSweep ==
  ASSUME TypeOK, NEW t \in Thread, NEW next \in Sweep,
         NEW at \in {"read", "clear", "look", "stop"}, GoOn(t, next, at)
  PROVE  sweep' \in [Thread -> Sweep]
  <1>1. sweep \in [Thread -> Sweep]
    BY DEF TypeOK
  <1>2. [next EXCEPT !.at = at] \in Sweep
    BY DEF Sweep
  <1>3. QED
    BY <1>1, <1>2, IdleTypes DEF GoOn

LEMMA DecideSweep ==
  ASSUME TypeOK, NEW t \in Thread, NEW a \in Account, NEW at \in {"look", "stop"},
         Decide(t, a, at)
  PROVE  sweep' \in [Thread -> Sweep]
  <1> DEFINE next == [sweep[t] EXCEPT !.ids = @ \ {a}, !.want = @ \ {a},
                                      !.account = a]
  <1>1. sweep[t] \in Sweep
    BY DEF TypeOK
  <1>2. next \in Sweep
    BY <1>1 DEF Sweep
  <1>3. GoOn(t, next, at)
    BY DEF Decide
  <1> HIDE DEF next
  <1>4. QED
    BY <1>2, <1>3, GoOnSweep

LEMMA SweepSteps ==
  ASSUME IInv, NEW t \in Thread, SweepStep(t)
  PROVE  IInv'
  <1>1. TypeOK /\ Counted /\ SessionsAreRegistered
    BY DEF IInv
  <1>2. /\ sweep[t] \in Sweep /\ sweep[t].ids \in SUBSET Account
        /\ sweep[t].account \in Account
    BY <1>1 DEF TypeOK, Sweep
  <1>3. SweepOnly
    BY DEF SweepStep, Read, Clear, Look, StopSession
  <1>4. CASE Read(t)
    <2> DEFINE next == [sweep[t] EXCEPT !.ids = @ \cap exists,
                          !.want = {a \in sweep[t].ids : Wants(a)},
                          !.kind = "reconcile"]
    <2>1. sweep' \in [Thread -> Sweep]
      <3>1. next \in Sweep
        BY <1>2 DEF Sweep
      <3>2. PICK at \in {"clear", "look"} : GoOn(t, next, at)
        BY <1>4 DEF Read
      <3> HIDE DEF next
      <3>3. QED
        BY <1>1, <3>1, <3>2, GoOnSweep
    <2>2. QED
      BY <1>1, <1>3, <1>4, <2>1, RegisteredUnchanged
      DEF Read, IInv, TypeOK, Counted, SweepOnly
  <1>5. CASE Clear(t)
    <2> DEFINE next == [sweep[t] EXCEPT !.kind = "reconcile"]
    <2>1. sweep' \in [Thread -> Sweep]
      <3>1. next \in Sweep
        BY <1>2 DEF Sweep
      <3>2. PICK at \in {"read", "look"} : GoOn(t, next, at)
        BY <1>5 DEF Clear
      <3> HIDE DEF next
      <3>3. QED
        BY <1>1, <3>1, <3>2, GoOnSweep
    <2>2. usage' \in [Account -> {"none", "active", "reuses", "own"}]
      BY <1>1, <1>5 DEF TypeOK, Clear
    <2>3. /\ SessionsAreRegistered'
          /\ live' \subseteq Session /\ client' \in [Account -> Client]
      <3>1. Cleared(t) \in SUBSET Account
        BY <1>2 DEF Cleared
      <3>2. QED
        BY <1>1, <1>3, <1>5, <3>1, RegisteredCancelled DEF Clear, SweepOnly
    <2>4. QED
      BY <1>1, <1>3, <1>5, <2>1, <2>2, <2>3
      DEF Clear, IInv, TypeOK, Counted, SweepOnly
  <1>6. CASE Look(t)
    <2>1. PICK a \in sweep[t].ids :
            \/ Decide(t, a, "look") /\ UNCHANGED <<client, start>>
            \/ ~IsRunning(a) /\ Decide(t, a, "look") /\ Launch(a) /\ UNCHANGED client
            \/ Decide(t, a, "stop") /\ UNCHANGED <<client, start>>
            \/ /\ ~IsRunning(a) /\ Decide(t, a, "look") /\ UNCHANGED start
               /\ client' = [client EXCEPT ![a] = NoClient]
      BY <1>6 DEF Look
    <2>2. a \in Account /\ UNCHANGED <<live, usage>>
      BY <1>2, <1>6 DEF Look
    <2>3. sweep' \in [Thread -> Sweep]
      BY <1>1, <2>1, <2>2, DecideSweep
    <2>4. CASE UNCHANGED <<client, start>>
      BY <1>1, <1>3, <2>2, <2>3, <2>4, RegisteredUnchanged
      DEF IInv, TypeOK, Counted, SweepOnly
    <2>5. CASE Launch(a) /\ UNCHANGED client
      <3> DEFINE s == CHOOSE r \in Session : Free(r, a)
                 new == [IdleStart EXCEPT !.at = "launched", !.account = a]
      <3>1. s \in Session /\ Free(s, a) /\ start' = [start EXCEPT ![s] = new]
        BY <2>5 DEF Launch
      <3>2. new \in Start /\ new.at = "launched"
        BY <2>2, IdleTypes DEF IdleStart, Start
      <3> HIDE DEF s, new
      <3>3. start' \in [Session -> Start]
        BY <1>1, <3>1, <3>2 DEF TypeOK
      <3>4. Counted'
        BY <1>1, <3>1, <3>2 DEF TypeOK, Counted
      <3>5. SessionsAreRegistered'
        BY <1>1, <1>3, <2>2, <2>5, <3>1
        DEF SessionsAreRegistered, TypeOK, Free, SweepOnly
      <3>6. QED
        BY <1>1, <1>3, <2>2, <2>3, <2>5, <3>3, <3>4, <3>5
        DEF IInv, TypeOK, SweepOnly
    <2>6. CASE /\ ~IsRunning(a) /\ UNCHANGED start
               /\ client' = [client EXCEPT ![a] = NoClient]
      <3>1. client' \in [Account -> Client]
        BY <1>1, <2>2, <2>6, IdleTypes DEF TypeOK
      <3>2. ASSUME NEW r \in live' \ lost'
            PROVE  client'[start'[r].account].ctx = r
        <4>1. r \in live \ lost /\ r \in Session
          BY <1>1, <1>3, <2>2 DEF SweepOnly, TypeOK
        <4>2. client[start[r].account].ctx = r /\ start[r].account \in Account
          BY <1>1, <4>1 DEF SessionsAreRegistered, TypeOK, Start
        <4>3. start[r].account # a
          BY <2>6, <4>1, <4>2 DEF IsRunning, Running
        <4>4. QED
          BY <1>1, <2>6, <4>2, <4>3 DEF TypeOK
      <3>3. SessionsAreRegistered'
        BY <3>2 DEF SessionsAreRegistered
      <3>4. QED
        BY <1>1, <1>3, <2>2, <2>3, <2>6, <3>1, <3>3
        DEF IInv, TypeOK, Counted, SweepOnly
    <2>7. QED
      BY <2>1, <2>4, <2>5, <2>6
  <1>7. CASE StopSession(t)
    <2>1. sweep' \in [Thread -> Sweep]
      BY <1>1, <1>2, <1>7, DecideSweep DEF StopSession
    <2>2. /\ SessionsAreRegistered'
          /\ live' \subseteq Session /\ client' \in [Account -> Client]
      <3>1. client' = [a \in Account |-> IF a \in {sweep[t].account} THEN NoClient
                                         ELSE client[a]]
        BY <1>1, <1>2, <1>7 DEF StopSession, TypeOK
      <3>2. live' = Cancelled({sweep[t].account}) /\ start' = start
        BY <1>7 DEF StopSession
      <3>3. QED
        BY <1>1, <1>2, <1>3, <3>1, <3>2, RegisteredCancelled DEF SweepOnly
    <2>3. QED
      BY <1>1, <1>3, <1>7, <2>1, <2>2
      DEF StopSession, IInv, TypeOK, Counted, SweepOnly
  <1>8. QED
    BY <1>4, <1>5, <1>6, <1>7 DEF SweepStep
-----------------------------------------------------------------------------
(* What happens outside, and usage tasks                                   *)

LEMMA RequestSteps ==
  ASSUME IInv, NEW t \in Request,
         \/ Save(t) \/ CancelUpdate(t)
         \/ \E a \in Account : Delete(t, a) \/ Verify(t, a) \/ ReturnPower(t, a)
  PROVE  IInv'
  <1>1. TypeOK /\ Counted /\ SessionsAreRegistered /\ t \in Thread
    BY DEF IInv, Thread
  <1>2. UNCHANGED <<client, live, start, link, usage, lost>>
    BY DEF Save, CancelUpdate, Delete, Verify, ReturnPower, Change
  <1>3. SessionsAreRegistered' /\ Counted'
    BY <1>1, <1>2, RegisteredUnchanged DEF Counted
  <1>4. sweep' \in [Thread -> Sweep]
    <2>1. CASE Save(t)
      BY <1>1, <2>1, BeginSweep DEF Save
    <2>2. CASE CancelUpdate(t)
      BY <1>1, <2>2, BeginSweep DEF CancelUpdate
    <2>3. ASSUME NEW a \in Account, Verify(t, a)
          PROVE  sweep' \in [Thread -> Sweep]
      BY <1>1, <2>3, BeginSweep DEF Verify
    <2>4. ASSUME NEW a \in Account, ReturnPower(t, a)
          PROVE  sweep' \in [Thread -> Sweep]
      BY <1>1, <2>4, BeginSweep DEF ReturnPower
    <2>5. ASSUME NEW a \in Account, Delete(t, a)
          PROVE  sweep' \in [Thread -> Sweep]
      BY <1>1, <2>5, BeginSweep DEF Delete
    <2>6. QED
      BY <2>1, <2>2, <2>3, <2>4, <2>5
  <1>5. changes' \in 0..MaxChanges
    <2>1. changes' = changes \/ Change
      BY DEF Save, CancelUpdate, Delete, Verify, ReturnPower
    <2>2. QED
      BY <1>1, <2>1, KeepaliveAssumption DEF TypeOK, Change
  <1>6. /\ exists' \subseteq Account /\ pending' \subseteq Account
        /\ wanted' \in [Account -> BOOLEAN]
        /\ maintenance' \in {"no", "waits", "ready"} /\ power' \subseteq Account
    BY <1>1 DEF TypeOK, Save, CancelUpdate, Delete, Verify, ReturnPower
  <1>7. QED
    BY <1>1, <1>2, <1>3, <1>4, <1>5, <1>6 DEF IInv, TypeOK

LEMMA OtherSteps ==
  ASSUME IInv,
         \/ Tick \/ Prepare \/ StopForUpdate
         \/ \E a \in Account : \/ ClockChanges(a) \/ NeedCode(a) \/ TakePower(a)
                               \/ StopForPower(a) \/ StartUsage(a)
                               \/ ChooseConnection(a) \/ EndUsage(a)
  PROVE  IInv'
  <1>1. TypeOK /\ Counted /\ SessionsAreRegistered
    BY DEF IInv
  <1>2. CASE Tick
    <2>1. sweep' \in [Thread -> Sweep]
      BY <1>1, <1>2, BeginSweep DEF Tick, Thread
    <2>2. QED
      BY <1>1, <1>2, <2>1, RegisteredUnchanged
      DEF Tick, IInv, TypeOK, Counted, SweepOnly
  <1>3. CASE Prepare
    <2>1. changes' \in 0..MaxChanges
      BY <1>1, <1>3, KeepaliveAssumption DEF TypeOK, Prepare, Change
    <2>2. QED
      BY <1>1, <1>3, <2>1, RegisteredUnchanged
      DEF Prepare, Change, IInv, TypeOK, Counted
  <1>4. CASE StopForUpdate
    BY <1>1, <1>4, RegisteredUnchanged
    DEF StopForUpdate, Cancelled, IInv, TypeOK, Counted
  <1>5. ASSUME NEW a \in Account, ClockChanges(a) \/ NeedCode(a) \/ TakePower(a)
        PROVE  IInv'
    <2>1. changes' \in 0..MaxChanges
      BY <1>1, <1>5, KeepaliveAssumption
      DEF TypeOK, ClockChanges, NeedCode, TakePower, Change
    <2>2. /\ wanted' \in [Account -> BOOLEAN]
          /\ pending' \subseteq Account /\ power' \subseteq Account
      BY <1>1, <1>5 DEF TypeOK, ClockChanges, NeedCode, TakePower
    <2>3. UNCHANGED <<exists, client, live, start, link, sweep, usage,
                      maintenance, lost>>
      BY <1>5 DEF ClockChanges, NeedCode, TakePower, Change
    <2>4. QED
      BY <1>1, <2>1, <2>2, <2>3, RegisteredUnchanged DEF IInv, TypeOK, Counted
  <1>6. ASSUME NEW a \in Account, StopForPower(a)
        PROVE  IInv'
    <2>1. client' = [b \in Account |-> IF b \in {a} THEN NoClient ELSE client[b]]
      BY <1>1, <1>6 DEF StopForPower, TypeOK
    <2>2. /\ SessionsAreRegistered'
          /\ live' \subseteq Session /\ client' \in [Account -> Client]
      BY <1>1, <1>6, <2>1, RegisteredCancelled DEF StopForPower
    <2>3. QED
      BY <1>1, <1>6, <2>2 DEF StopForPower, IInv, TypeOK, Counted
  <1>7. ASSUME NEW a \in Account,
               StartUsage(a) \/ ChooseConnection(a) \/ EndUsage(a)
        PROVE  IInv'
    <2>1. usage' \in [Account -> {"none", "active", "reuses", "own"}]
      BY <1>1, <1>7 DEF TypeOK, StartUsage, ChooseConnection, EndUsage
    <2>2. UNCHANGED <<exists, wanted, pending, client, live, start, link, sweep,
                      maintenance, power, changes, lost>>
      BY <1>7 DEF StartUsage, ChooseConnection, EndUsage, UsageOnly
    <2>3. QED
      BY <1>1, <2>1, <2>2, RegisteredUnchanged DEF IInv, TypeOK, Counted
  <1>8. QED
    BY <1>2, <1>3, <1>4, <1>5, <1>6, <1>7
-----------------------------------------------------------------------------
(* The theorems                                                            *)

LEMMA Initially == Init => IInv
  <1> SUFFICES ASSUME Init PROVE IInv
    OBVIOUS
  <1>1. TypeOK
    BY IdleTypes, KeepaliveAssumption DEF Init, TypeOK
  <1>2. Counted
    BY DEF Init, Counted, IdleStart
  <1>3. SessionsAreRegistered
    BY DEF Init, SessionsAreRegistered
  <1>4. QED
    BY <1>1, <1>2, <1>3 DEF IInv

LEMMA Preserved == IInv /\ [Next]_vars => IInv'
  <1> SUFFICES ASSUME IInv, [Next]_vars PROVE IInv'
    OBVIOUS
  <1>1. CASE Next
    BY <1>1, SessionSteps, SweepSteps, RequestSteps, OtherSteps DEF Next
  <1>2. CASE UNCHANGED vars
    BY <1>2 DEF vars, IInv, TypeOK, Counted, SessionsAreRegistered
  <1>3. QED
    BY <1>1, <1>2

(* The three parts hold together in every state.                           *)
THEOREM Invariance == Spec => []IInv
  BY Initially, Preserved, PTL DEF Spec

(* Every variable keeps its type; m.clients counts at most the one desktop *)
(* of a session.                                                           *)
THEOREM TypeCorrect == Spec => []TypeOK
  BY Invariance, PTL DEF IInv

(* Whatever starts, stops and comparisons interleave: a session that runs  *)
(* is the one m.clients can cancel, unless a late setState has overwritten *)
(* its entry (manager.go:735-742).                                         *)
THEOREM SessionsCanBeStopped == Spec => []SessionsAreRegistered
  BY Invariance, PTL DEF IInv
=============================================================================
