--------------------------- MODULE PowerBatchProofs ---------------------------
(***************************************************************************)
(* Proofs about PowerBatch for every set of jobs, desktops and accounts    *)
(* and every number of faults and crashes.  The inductive invariant grows  *)
(* in layers: the types; the ledger (which status an item has at each step *)
(* of the worker and how often it was submitted); what the keepalive has   *)
(* seen (no session of an account in the batch knows the batch); the holds *)
(* (which hold a desktop carries at each step, and which sessions are      *)
(* linked to it).  What a refusal restores and which items are left open   *)
(* rest on these.                                                          *)
(***************************************************************************)
EXTENDS PowerBatch, FiniteSetTheorems, TLAPS

LEMMA WorkerFields ==
  \A w \in WorkerRecord :
    /\ w.at \in WorkerStep /\ w.target \in Target \cup {NoTarget}
    /\ w.todo \in SUBSET Target /\ w.listed \in [Account -> {"unread", "ok", "error"}]
    /\ w.prev \in Hold /\ w.changed \in SUBSET Account /\ w.outcome \in Outcome
BY DEF WorkerRecord

LEMMA IdleWorkerType ==
  /\ IdleWorker \in WorkerRecord
  /\ IdleWorker.at = "idle" /\ IdleWorker.target = NoTarget /\ IdleWorker.todo = {}
BY DEF IdleWorker, WorkerRecord, WorkerStep, Hold, NoHold, Outcome

LEMMA HoldTypes ==
  /\ NoHold \in Hold /\ ShutdownHold \in Hold /\ RebootHold \in Hold
  /\ CheckHold \in Hold /\ BrowserHold \in Hold
  /\ \A action : HoldFor(action) \in Hold
  /\ \A h \in Hold : Lapsed(h) \in Hold
  /\ \A h \in Hold : [h EXCEPT !.until = "future"] \in Hold
BY DEF Hold, NoHold, ShutdownHold, RebootHold, CheckHold, BrowserHold, HoldFor, Lapsed

LEMMA SessionTypes == NoSession \in Session /\ NoSessions \in Sessions
BY DEF NoSession, NoSessions, Session, Sessions

LEMMA StatusTypes ==
  /\ \A outcome : StatusOf(outcome) \in {"accepted", "unknown", "failed"}
  /\ \A s \in ItemStatus : Closed(s) \in ItemStatus
BY DEF StatusOf, Closed, ItemStatus, Open, Final

(* Moving the worker keeps its other fields.                               *)
WorkerIs(w, s, t) == w \in WorkerRecord /\ w.at = s /\ w.target = t
LEMMA WorkerMoves ==
  ASSUME NEW w \in WorkerRecord, NEW s \in WorkerStep
  PROVE  WorkerIs([w EXCEPT !.at = s], s, w.target)
BY DEF WorkerRecord, WorkerIs

LEMMA WorkerLists ==
  ASSUME NEW w \in WorkerRecord, NEW l \in [Account -> {"unread", "ok", "error"}]
  PROVE  /\ WorkerIs([w EXCEPT !.at = "item", !.listed = l, !.prev = NoHold],
                     "item", w.target)
         /\ WorkerIs([w EXCEPT !.at = "snapshot", !.listed = l], "snapshot", w.target)
BY HoldTypes DEF WorkerRecord, WorkerIs, WorkerStep

LEMMA WorkerTakes ==
  ASSUME NEW w \in WorkerRecord, NEW t \in w.todo
  PROVE  WorkerIs([w EXCEPT !.at = "verdict", !.target = t, !.prev = NoHold,
                            !.outcome = "none", !.todo = @ \ {t}], "verdict", t)
BY HoldTypes DEF WorkerRecord, WorkerIs, WorkerStep, Outcome

LEMMA WorkerSees ==
  ASSUME NEW w \in WorkerRecord, NEW p \in Hold
  PROVE  /\ WorkerIs([w EXCEPT !.at = "hold", !.prev = p], "hold", w.target)
         /\ WorkerIs([w EXCEPT !.prev = p], w.at, w.target)
BY DEF WorkerRecord, WorkerIs, WorkerStep

LEMMA WorkerChanges ==
  ASSUME NEW w \in WorkerRecord, NEW a \in Account
  PROVE  WorkerIs([w EXCEPT !.at = "stop", !.changed = @ \cup {a}], "stop", w.target)
BY DEF WorkerRecord, WorkerIs, WorkerStep

LEMMA WorkerAnswers ==
  ASSUME NEW w \in WorkerRecord, NEW o \in Outcome
  PROVE  WorkerIs([w EXCEPT !.at = "record", !.outcome = o], "record", w.target)
BY DEF WorkerRecord, WorkerIs, WorkerStep

LEMMA WorkerLeaves ==
  ASSUME NEW w \in WorkerRecord, NEW s \in WorkerStep
  PROVE  WorkerIs([w EXCEPT !.at = s, !.prev = NoHold, !.outcome = "none"],
                  s, w.target)
BY HoldTypes DEF WorkerRecord, WorkerIs, Outcome

LEMMA WorkerBegins ==
  ASSUME NEW td \in SUBSET Target
  PROVE  WorkerIs([IdleWorker EXCEPT !.at = "item", !.todo = td], "item", NoTarget)
BY IdleWorkerType DEF WorkerRecord, WorkerIs, WorkerStep

LEMMA StepNames ==
  /\ "item" \in WorkerStep /\ "verdict" \in WorkerStep /\ "snapshot" \in WorkerStep
  /\ "hold" \in WorkerStep /\ "stop" \in WorkerStep /\ "submit" \in WorkerStep
  /\ "operate" \in WorkerStep /\ "answer" \in WorkerStep /\ "record" \in WorkerStep
  /\ "wait" \in WorkerStep /\ "finish" \in WorkerStep /\ "close" \in WorkerStep
  /\ "release" \in WorkerStep /\ "none" \in Outcome
BY DEF WorkerStep, Outcome
-----------------------------------------------------------------------------
(* Layer 1: types.  The worker is idle exactly when no batch is active,    *)
(* and knows its target in the middle of an item.                          *)

Midway == {"verdict", "snapshot", "hold", "stop", "submit", "operate", "answer",
           "record", "wait"}
Worked ==
  /\ worker.at = "idle" <=> active = NoJob
  /\ worker.at = "idle" => worker.target = NoTarget
  /\ worker.at \in Midway => worker.target \in Target
  /\ active # NoJob => job[active].action \in Action
  /\ phase = "down" => worker.at = "idle"
TInv == TypeOK /\ Worked

THEOREM TypeInit == Init => TInv
<1> SUFFICES ASSUME Init PROVE TInv
  OBVIOUS
<1>1. worker.at = "idle" /\ worker.target = NoTarget /\ worker \in WorkerRecord
  BY IdleWorkerType DEF Init
<1>2. TypeOK
  <2>1. job \in [Job -> JobRecord] /\ item \in [Job -> [Target -> ItemStatus]]
    BY DEF Init, JobRecord, FreeJob, ItemStatus
  <2>2. hold \in [Target -> Hold]
    BY HoldTypes DEF Init
  <2>3. session \in [Account -> Sessions] /\ expiry \in ExpiryRecord
    BY SessionTypes DEF Init, ExpiryRecord, IdleExpiry
  <2> QED
    BY <1>1, <2>1, <2>2, <2>3, ConstantsAssumption DEF Init, TypeOK
<1> QED
  BY <1>1, <1>2, ConstantsAssumption DEF TInv, Worked, Midway, Init

LEMMA ItemType ==
  ASSUME TInv, NEW j \in Job, NEW t \in Target, NEW status \in ItemStatus
  PROVE  [item EXCEPT ![j][t] = status] \in [Job -> [Target -> ItemStatus]]
BY DEF TInv, TypeOK

LEMMA SetItemType ==
  ASSUME TInv, active \in Job, worker.target \in Target,
         NEW status \in ItemStatus, SetPowerItem(status)
  PROVE  item' \in [Job -> [Target -> ItemStatus]]
BY ItemType DEF SetPowerItem

LEMMA SentType ==
  ASSUME TInv, NEW j \in Job, NEW t \in Target
  PROVE  [sent EXCEPT ![j][t] = @ + 1] \in [Job -> [Target -> Nat]]
<1>1. sent[j] \in [Target -> Nat] /\ sent[j][t] + 1 \in Nat
  BY DEF TInv, TypeOK
<1>2. [sent[j] EXCEPT ![t] = @ + 1] \in [Target -> Nat]
  BY <1>1
<1> QED
  BY <1>2 DEF TInv, TypeOK

(* Steps that only move the worker, and those that record an item.         *)
LEMMA GotoType ==
  ASSUME TInv, NEW step \in WorkerStep, Goto(step)
  PROVE  /\ worker' \in WorkerRecord
         /\ worker'.at = step /\ worker'.target = worker.target
BY WorkerMoves DEF TInv, TypeOK, Goto, WorkerIs

LEMMA LeaveType ==
  ASSUME TInv, NEW step \in WorkerStep, Leave(step)
  PROVE  worker' \in WorkerRecord /\ worker'.at = step /\ worker'.target = worker.target
BY WorkerLeaves DEF TInv, TypeOK, Leave, WorkerIs

LEMMA FaultType ==
  ASSUME TInv, Fine \/ Fault
  PROVE  faults' \in 0..MaxFaults
BY ConstantsAssumption DEF TInv, TypeOK, Fine, Fault

LEMMA SkipType ==
  ASSUME TInv, worker.at \in Midway, Skip(worker.listed) \/
           \E l \in [Account -> {"unread", "ok", "error"}] : Skip(l)
  PROVE  /\ item' \in [Job -> [Target -> ItemStatus]]
         /\ worker' \in WorkerRecord
         /\ worker'.at = "item" /\ worker'.target = worker.target
         /\ faults' \in 0..MaxFaults
<1>1. worker \in WorkerRecord /\ worker.listed \in [Account -> {"unread", "ok", "error"}]
  BY WorkerFields DEF TInv, TypeOK
<1>2. PICK l \in [Account -> {"unread", "ok", "error"}] : Skip(l)
  BY <1>1
<1>3. worker' \in WorkerRecord /\ worker'.at = "item" /\ worker'.target = worker.target
  <2>1. WorkerIs([worker EXCEPT !.at = "item", !.listed = l, !.prev = NoHold],
                 "item", worker.target)
    BY <1>1, WorkerLists
  <2>2. worker' = [worker EXCEPT !.at = "item", !.listed = l, !.prev = NoHold]
    BY <1>2 DEF Skip
  <2>3. WorkerIs(worker', "item", worker.target)
    BY <2>1, <2>2
  <2> QED
    BY <2>3 DEF WorkerIs
<1>4. active \in Job /\ worker.target \in Target
  BY DEF TInv, Worked, TypeOK, Midway
<1>5. item' \in [Job -> [Target -> ItemStatus]]
  BY <1>2, <1>4, SetItemType DEF Skip, TInv, TypeOK, ItemStatus, Final
<1>6. faults' \in 0..MaxFaults
  BY <1>2, FaultType DEF Skip
<1> QED
  BY <1>3, <1>5, <1>6

(* Ending a job keeps its action; closing items and resetting sessions     *)
(* stay within their types.                                                *)
LEMMA StatusKept ==
  ASSUME TInv, NEW status \in {"finished", "interrupted"}
  PROVE  LET after == [job EXCEPT ![active].status = status] IN
         /\ after \in [Job -> JobRecord]
         /\ \A j \in Job : after[j].action = job[j].action
BY DEF TInv, TypeOK, JobRecord

LEMMA CloseType ==
  ASSUME item \in [Job -> [Target -> ItemStatus]], NEW lost
  PROVE  /\ \A j \in Job : Close(item[j], lost) \in [Target -> ItemStatus]
         /\ [j \in Job |-> Close(item[j], lost)] \in [Job -> [Target -> ItemStatus]]
         /\ [item EXCEPT ![active] = Close(@, lost)] \in [Job -> [Target -> ItemStatus]]
<1>1. \A j \in Job : Close(item[j], lost) \in [Target -> ItemStatus]
  BY StatusTypes DEF Close
<1> QED
  BY <1>1

LEMMA SessionsAre ==
  ASSUME NEW k \in Sessions
  PROVE  /\ k.starts \in SUBSET (Job \cup {NoJob})
         /\ k.entry \in Session /\ k.stale \in BOOLEAN /\ k.lost \in Session
BY DEF Sessions

(* What a step of a session keeps, and which desktops it links.            *)
Like(m, s) == m \in Session /\ m.seen = s.seen /\ m.strayed = s.strayed
LEMMA SessionMoves ==
  ASSUME NEW s \in Session, NEW t \in Target
  PROVE  /\ /\ Like([s EXCEPT !.todo = @ \ {t}], s)
            /\ [s EXCEPT !.todo = @ \ {t}].busy = s.busy
            /\ [s EXCEPT !.todo = @ \ {t}].linked = s.linked
         /\ /\ Like([s EXCEPT !.todo = @ \ {t}, !.linked = @ \cup {t}], s)
            /\ [s EXCEPT !.todo = @ \ {t}, !.linked = @ \cup {t}].busy = s.busy
            /\ [s EXCEPT !.todo = @ \ {t}, !.linked = @ \cup {t}].linked = s.linked \cup {t}
         /\ /\ Like([s EXCEPT !.linked = @ \ {t}], s)
            /\ [s EXCEPT !.linked = @ \ {t}].busy = s.busy
            /\ [s EXCEPT !.linked = @ \ {t}].linked = s.linked \ {t}
<1>1. /\ Like([s EXCEPT !.todo = @ \ {t}], s)
      /\ [s EXCEPT !.todo = @ \ {t}].busy = s.busy
      /\ [s EXCEPT !.todo = @ \ {t}].linked = s.linked
  BY DEF Session, Like
<1>2. /\ Like([s EXCEPT !.todo = @ \ {t}, !.linked = @ \cup {t}], s)
      /\ [s EXCEPT !.todo = @ \ {t}, !.linked = @ \cup {t}].busy = s.busy
      /\ [s EXCEPT !.todo = @ \ {t}, !.linked = @ \cup {t}].linked = s.linked \cup {t}
  BY DEF Session, Like
<1>3. /\ Like([s EXCEPT !.linked = @ \ {t}], s)
      /\ [s EXCEPT !.linked = @ \ {t}].busy = s.busy
      /\ [s EXCEPT !.linked = @ \ {t}].linked = s.linked \ {t}
  BY DEF Session, Like
<1> QED
  BY <1>1, <1>2, <1>3

LEMMA SessionSettles ==
  ASSUME NEW s \in Session
  PROVE  /\ Like([s EXCEPT !.busy = FALSE], s)
         /\ [s EXCEPT !.busy = FALSE].linked = s.linked
BY DEF Session, Like

LEMMA SessionVisits ==
  ASSUME NEW a \in Account, NEW s \in Session, NEW t \in Target,
         Visit(a, s, t) \/ LinkEnds(a, s, t)
  PROVE  \E m \in Session :
           /\ Goes(a, s, m) /\ m.seen = s.seen /\ m.strayed = s.strayed /\ m.busy = s.busy
           /\ \A u \in m.linked \cap Target : u \in s.linked \/ ~Held(u)
<1>1. CASE Goes(a, s, [s EXCEPT !.todo = @ \ {t}])
  <2> DEFINE m == [s EXCEPT !.todo = @ \ {t}]
  <2>1. Like(m, s) /\ m.busy = s.busy /\ m.linked = s.linked
    BY SessionMoves
  <2>2. Goes(a, s, m)
    BY <1>1
  <2> HIDE DEF m
  <2> QED
    BY <2>1, <2>2 DEF Like
<1>2. CASE ~Held(t) /\ Goes(a, s, [s EXCEPT !.todo = @ \ {t}, !.linked = @ \cup {t}])
  <2> DEFINE m == [s EXCEPT !.todo = @ \ {t}, !.linked = @ \cup {t}]
  <2>1. Like(m, s) /\ m.busy = s.busy /\ m.linked = s.linked \cup {t}
    BY SessionMoves
  <2>2. Goes(a, s, m) /\ ~Held(t)
    BY <1>2
  <2> HIDE DEF m
  <2> QED
    BY <2>1, <2>2 DEF Like
<1>3. CASE Goes(a, s, [s EXCEPT !.linked = @ \ {t}])
  <2> DEFINE m == [s EXCEPT !.linked = @ \ {t}]
  <2>1. Like(m, s) /\ m.busy = s.busy /\ m.linked = s.linked \ {t}
    BY SessionMoves
  <2>2. Goes(a, s, m)
    BY <1>3
  <2> HIDE DEF m
  <2> QED
    BY <2>1, <2>2 DEF Like
<1> QED
  BY <1>1, <1>2, <1>3 DEF Visit, LinkEnds

(* A step of the keepalive replaces what one account has by one of these.  *)
Launched(k) == [k EXCEPT !.starts = @ \cup {active}]
Entered(k, a, batch) ==
  [k EXCEPT !.starts = @ \ {batch}, !.entry = IF @.live THEN @ ELSE Registered(a, batch)]
WithEntry(k, s) == [k EXCEPT !.entry = s]
WithLost(k, s) == [k EXCEPT !.lost = s]
Overwritten(k) ==
  [k EXCEPT !.stale = FALSE, !.entry = NoSession,
            !.lost = IF @.live THEN @ ELSE Astray(k.entry)]
Swapped(k) == [k EXCEPT !.entry = k.lost, !.lost = Astray(k.entry)]
Stopped(k, w) == [k EXCEPT !.entry = NoSession, !.stale = @ \/ w]

LEMMA StepRecords ==
  ASSUME NEW k \in Sessions
  PROVE  /\ active \in Job \cup {NoJob} =>
              /\ Launched(k) \in Sessions
              /\ Launched(k).starts = k.starts \cup {active}
              /\ Launched(k).entry = k.entry /\ Launched(k).lost = k.lost
         /\ \A a \in Account, batch \in k.starts :
              /\ Entered(k, a, batch) \in Sessions
              /\ Entered(k, a, batch).starts = k.starts \ {batch}
              /\ Entered(k, a, batch).entry \in {k.entry, Registered(a, batch)}
              /\ Entered(k, a, batch).lost = k.lost
         /\ \A s \in Session :
              /\ WithEntry(k, s) \in Sessions /\ WithEntry(k, s).starts = k.starts
              /\ WithEntry(k, s).entry = s /\ WithEntry(k, s).lost = k.lost
              /\ WithLost(k, s) \in Sessions /\ WithLost(k, s).starts = k.starts
              /\ WithLost(k, s).entry = k.entry /\ WithLost(k, s).lost = s
         /\ /\ Overwritten(k) \in Sessions /\ Overwritten(k).starts = k.starts
            /\ Overwritten(k).entry = NoSession
            /\ Overwritten(k).lost \in {k.lost, Astray(k.entry)}
         /\ /\ Swapped(k) \in Sessions /\ Swapped(k).starts = k.starts
            /\ Swapped(k).entry = k.lost /\ Swapped(k).lost = Astray(k.entry)
         /\ \A w \in BOOLEAN :
              /\ Stopped(k, w) \in Sessions /\ Stopped(k, w).starts = k.starts
              /\ Stopped(k, w).entry = NoSession /\ Stopped(k, w).lost = k.lost
<1>0. /\ k.starts \in SUBSET (Job \cup {NoJob}) /\ k.entry \in Session
      /\ k.stale \in BOOLEAN /\ k.lost \in Session /\ Astray(k.entry) \in Session
  BY SessionsAre, SessionTypes DEF Session, Astray
<1>1. \A a \in Account, batch \in k.starts : Registered(a, batch) \in Session
  BY <1>0 DEF Registered, Session
<1>2. active \in Job \cup {NoJob} =>
        /\ Launched(k) \in Sessions
        /\ Launched(k).starts = k.starts \cup {active}
        /\ Launched(k).entry = k.entry /\ Launched(k).lost = k.lost
  BY DEF Launched, Sessions
<1>3. ASSUME NEW a \in Account, NEW batch \in k.starts
      PROVE  /\ Entered(k, a, batch) \in Sessions
             /\ Entered(k, a, batch).starts = k.starts \ {batch}
             /\ Entered(k, a, batch).entry \in {k.entry, Registered(a, batch)}
             /\ Entered(k, a, batch).lost = k.lost
  BY <1>1 DEF Entered, Sessions
<1>4. ASSUME NEW s \in Session
      PROVE  /\ WithEntry(k, s) \in Sessions /\ WithEntry(k, s).starts = k.starts
             /\ WithEntry(k, s).entry = s /\ WithEntry(k, s).lost = k.lost
             /\ WithLost(k, s) \in Sessions /\ WithLost(k, s).starts = k.starts
             /\ WithLost(k, s).entry = k.entry /\ WithLost(k, s).lost = s
  BY DEF WithEntry, WithLost, Sessions
<1>5. /\ Overwritten(k) \in Sessions /\ Overwritten(k).starts = k.starts
      /\ Overwritten(k).entry = NoSession
      /\ Overwritten(k).lost \in {k.lost, Astray(k.entry)}
  BY <1>0, SessionTypes DEF Overwritten, Sessions
<1>6. /\ Swapped(k) \in Sessions /\ Swapped(k).starts = k.starts
      /\ Swapped(k).entry = k.lost /\ Swapped(k).lost = Astray(k.entry)
  BY <1>0 DEF Swapped, Sessions
<1>7. ASSUME NEW w \in BOOLEAN
      PROVE  /\ Stopped(k, w) \in Sessions /\ Stopped(k, w).starts = k.starts
             /\ Stopped(k, w).entry = NoSession /\ Stopped(k, w).lost = k.lost
  BY SessionTypes DEF Stopped, Sessions
<1> QED
  BY <1>2, <1>3, <1>4, <1>5, <1>6, <1>7

Becomes(a, n) == session' = [session EXCEPT ![a] = n]
LEMMA OneAccount ==
  ASSUME session \in [Account -> Sessions], NEW a \in Account, NEW n \in Sessions, Becomes(a, n)
  PROVE  /\ session' \in [Account -> Sessions] /\ session'[a] = n
         /\ \A b \in Account : b # a => session'[b] = session[b]
BY DEF Becomes

LEMMA ResetAll ==
  ASSUME NEW ids, Reset(ids)
  PROVE  \E writers : session' = [a \in Account |->
           IF a \in ids THEN Stopped(session[a], a \in writers) ELSE session[a]]
BY DEF Reset, Stopped

LEMMA ResetType ==
  ASSUME session \in [Account -> Sessions], NEW ids, Reset(ids)
  PROVE  /\ session' \in [Account -> Sessions]
         /\ \A a \in Account :
              IF a \in ids
              THEN /\ session'[a].starts = session[a].starts
                   /\ session'[a].entry = NoSession /\ session'[a].lost = session[a].lost
              ELSE session'[a] = session[a]
<1>1. PICK writers : session' = [a \in Account |->
        IF a \in ids THEN Stopped(session[a], a \in writers) ELSE session[a]]
  BY ResetAll
<1>2. ASSUME NEW a \in Account
      PROVE  /\ Stopped(session[a], a \in writers) \in Sessions
             /\ Stopped(session[a], a \in writers).starts = session[a].starts
             /\ Stopped(session[a], a \in writers).entry = NoSession
             /\ Stopped(session[a], a \in writers).lost = session[a].lost
  <2>1. (a \in writers) \in BOOLEAN
    OBVIOUS
  <2> QED
    BY <2>1, StepRecords
<1> QED
  BY <1>1, <1>2

(* The steps of the keepalive but StopKeepalive, which is a Reset.         *)
LEMMA KeepaliveSteps ==
  ASSUME session \in [Account -> Sessions], NEW a \in Account, KeepaliveStep(a)
  PROVE  \/ StopKeepalive(a)
         \/ Launch(a) /\ Becomes(a, Launched(session[a]))
         \/ \E batch \in session[a].starts : Becomes(a, Entered(session[a], a, batch))
         \/ Settle(a) /\ Becomes(a, WithEntry(session[a], [session[a].entry EXCEPT !.busy = FALSE]))
         \/ \E s \in {session[a].entry, session[a].lost}, t \in Target :
              Visit(a, s, t) \/ LinkEnds(a, s, t)
         \/ Becomes(a, Overwritten(session[a]))
         \/ session[a].lost.busy /\ Becomes(a, Swapped(session[a]))
<1>1. Launch(a) => Becomes(a, Launched(session[a]))
  BY DEF Launch, Becomes, Launched
<1>2. Register(a) => \E batch \in session[a].starts : Becomes(a, Entered(session[a], a, batch))
  BY DEF Register, Becomes, Entered, Sessions
<1>3. Settle(a) => Becomes(a, WithEntry(session[a], [session[a].entry EXCEPT !.busy = FALSE]))
  BY DEF Settle, Becomes, WithEntry
<1>4. StaleWrite(a) => Becomes(a, Overwritten(session[a]))
  BY DEF StaleWrite, Becomes, Overwritten, Sessions
<1>5. LostWrite(a) => session[a].lost.busy /\ Becomes(a, Swapped(session[a]))
  BY DEF LostWrite, Becomes, Swapped, Sessions
<1> QED
  BY <1>1, <1>2, <1>3, <1>4, <1>5 DEF KeepaliveStep

LEMMA GoesOn ==
  ASSUME NEW a \in Account, NEW s, NEW next, Goes(a, s, next)
  PROVE  \/ s = session[a].entry /\ Becomes(a, WithEntry(session[a], next))
         \/ s = session[a].lost /\ Becomes(a, WithLost(session[a], next))
BY DEF Goes, Becomes, WithEntry, WithLost

LEMMA KeepaliveType ==
  ASSUME session \in [Account -> Sessions], active \in Job \cup {NoJob},
         NEW a \in Account, KeepaliveStep(a)
  PROVE  session' \in [Account -> Sessions]
<1>1. session[a] \in Sessions /\ session[a].entry \in Session /\ session[a].lost \in Session
  BY SessionsAre
<1>2. CASE StopKeepalive(a)
  BY <1>2, ResetType DEF StopKeepalive
<1>3. CASE \E s \in {session[a].entry, session[a].lost}, t \in Target :
             Visit(a, s, t) \/ LinkEnds(a, s, t)
  <2>1. PICK s \in {session[a].entry, session[a].lost}, t \in Target :
             Visit(a, s, t) \/ LinkEnds(a, s, t)
    BY <1>3
  <2>2. \E next \in Session : Goes(a, s, next)
    BY <1>1, <2>1, SessionVisits
  <2> QED
    BY <1>1, <2>2, GoesOn, StepRecords, OneAccount
<1>4. [session[a].entry EXCEPT !.busy = FALSE] \in Session
  BY <1>1, SessionSettles DEF Like
<1> QED
  BY <1>1, <1>2, <1>3, <1>4, KeepaliveSteps, StepRecords, OneAccount

LEMMA Statements == IsFiniteSet({"queue", "submit", "job"})
<1>1. {"queue", "submit", "job"} = (({} \cup {"queue"}) \cup {"submit"}) \cup {"job"}
  OBVIOUS
<1>2. IsFiniteSet({} \cup {"queue"})
  BY FS_EmptySet, FS_AddElement
<1>3. IsFiniteSet(({} \cup {"queue"}) \cup {"submit"})
  BY <1>2, FS_AddElement
<1> QED
  BY <1>1, <1>3, FS_AddElement

THEOREM TypeStep == TInv /\ [Next]_vars => TInv'
<1> SUFFICES ASSUME TInv, [Next]_vars PROVE TInv'
  OBVIOUS
<1>0. /\ worker \in WorkerRecord /\ item \in [Job -> [Target -> ItemStatus]]
      /\ worker.prev \in Hold /\ worker.listed \in [Account -> {"unread", "ok", "error"}]
      /\ worker.todo \in SUBSET Target /\ hold \in [Target -> Hold]
      /\ faults \in 0..MaxFaults /\ sent \in [Job -> [Target -> Nat]]
  BY WorkerFields DEF TInv, TypeOK
<1>1. CASE StartPowerBatch
  <2>1. PICK j \in Job, act \in Action, targets \in SUBSET Target : Enlist(j, act, targets)
    BY <1>1 DEF StartPowerBatch
  <2>2. worker' \in WorkerRecord /\ worker'.at = "item"
    BY <2>1, WorkerBegins DEF WorkerIs, Enlist
  <2>3. job' \in [Job -> JobRecord] /\ job'[j].action \in Action
    BY <2>1 DEF TInv, TypeOK, JobRecord, Enlist
  <2>4. item' \in [Job -> [Target -> ItemStatus]]
    BY <2>1 DEF TInv, TypeOK, ItemStatus, Open, Enlist
  <2>5. accounts' \in SUBSET Account
    BY <2>1, ConstantsAssumption DEF Enlist
  <2> QED
    BY <1>1, <2>1, <2>2, <2>3, <2>4, <2>5, ConstantsAssumption
       DEF StartPowerBatch, Enlist, TInv, TypeOK, Worked, Midway
<1>2. CASE NextItem
  <2>1. active \in Job
    BY <1>2 DEF NextItem, TInv, TypeOK, Worked
  <2>2. /\ worker' \in WorkerRecord /\ item' \in [Job -> [Target -> ItemStatus]]
        /\ worker'.at \in {"finish", "close", "verdict"}
        /\ worker'.at = "verdict" => worker'.target \in Target
    <3>1. CASE Goto("finish") /\ UNCHANGED item
      BY <3>1, GotoType DEF WorkerStep, TInv, TypeOK
    <3>2. CASE Goto("close") /\ UNCHANGED item
      BY <3>2, GotoType DEF WorkerStep, TInv, TypeOK
    <3>3. ASSUME NEW t \in worker.todo, Take(t)
          PROVE  /\ worker' \in WorkerRecord /\ item' \in [Job -> [Target -> ItemStatus]]
                 /\ worker'.at = "verdict" /\ worker'.target \in Target
      <4>1. t \in Target /\ worker.todo \ {t} \in SUBSET Target /\ worker \in WorkerRecord
        BY <1>0, <3>3
      <4>2. worker' \in WorkerRecord /\ worker'.at = "verdict" /\ worker'.target = t
        BY <3>3, <4>1, WorkerTakes DEF WorkerIs, Take
      <4>3. "validating" \in ItemStatus
        BY DEF ItemStatus, Open
      <4> QED
        BY <2>1, <3>3, <4>1, <4>2, <4>3, ItemType DEF Take
    <3> QED
      BY <1>2, <3>1, <3>2, <3>3 DEF NextItem
  <2>3. faults' \in 0..MaxFaults
    BY <1>2, FaultType DEF NextItem
  <2> QED
    BY <1>2, <2>1, <2>2, <2>3, ConstantsAssumption DEF NextItem, TInv, TypeOK, Worked, Midway
<1>3. CASE Verdict
  <2>1. worker.at \in Midway /\ worker.target \in Target /\ Owner[worker.target] \in Account
    BY <1>3, ConstantsAssumption DEF Verdict, TInv, Worked, Midway
  <2>2. /\ worker' \in WorkerRecord /\ item' \in [Job -> [Target -> ItemStatus]]
        /\ worker'.at \in {"item", "snapshot"} /\ worker'.target = worker.target
        /\ faults' \in 0..MaxFaults
    <3>1. PICK read \in {"ok", "error"} :
            LET listed == [worker.listed EXCEPT ![Owner[worker.target]] = read] IN
            \/ Skip(listed)
            \/ /\ worker' = [worker EXCEPT !.at = "snapshot", !.listed = listed]
               /\ UNCHANGED <<item, faults>>
      BY <1>3 DEF Verdict
    <3> DEFINE listed == [worker.listed EXCEPT ![Owner[worker.target]] = read]
    <3>2. listed \in [Account -> {"unread", "ok", "error"}]
      BY <1>0, <2>1
    <3>3. CASE Skip(listed)
      BY <2>1, <3>2, <3>3, SkipType
    <3>4. CASE worker' = [worker EXCEPT !.at = "snapshot", !.listed = listed] /\ UNCHANGED <<item, faults>>
      <4>1. WorkerIs([worker EXCEPT !.at = "snapshot", !.listed = listed],
                     "snapshot", worker.target)
        BY <1>0, <3>2, WorkerLists
      <4>2. WorkerIs(worker', "snapshot", worker.target)
        BY <3>4, <4>1
      <4> QED
        BY <3>4, <4>2 DEF WorkerIs, TInv, TypeOK
    <3> QED
      BY <3>1, <3>3, <3>4
  <2> QED
    BY <1>3, <2>1, <2>2 DEF Verdict, TInv, TypeOK, Worked, Midway
<1>4. CASE Snapshot
  <2>1. worker.at \in Midway /\ worker.target \in Target /\ hold[worker.target] \in Hold
    BY <1>4 DEF Snapshot, TInv, TypeOK, Worked, Midway
  <2>2. /\ worker' \in WorkerRecord /\ item' \in [Job -> [Target -> ItemStatus]]
        /\ worker'.at \in {"item", "hold"} /\ worker'.target = worker.target
        /\ faults' \in 0..MaxFaults
    <3>1. CASE Skip(worker.listed)
      BY <2>1, <3>1, SkipType
    <3>2. CASE /\ worker' = [worker EXCEPT !.at = "hold", !.prev = hold[worker.target]]
               /\ UNCHANGED <<item, faults>>
      BY <1>0, <2>1, <3>2, WorkerSees DEF WorkerIs
    <3> QED
      BY <1>4, <3>1, <3>2 DEF Snapshot
  <2> QED
    BY <1>4, <2>1, <2>2 DEF Snapshot, TInv, TypeOK, Worked, Midway
<1>5. CASE PlaceHold
  <2>1. /\ worker.at \in Midway /\ worker.target \in Target
        /\ Owner[worker.target] \in Account
    BY <1>5, ConstantsAssumption DEF PlaceHold, TInv, Worked, Midway
  <2>2. /\ worker' \in WorkerRecord /\ item' \in [Job -> [Target -> ItemStatus]]
        /\ worker'.at \in {"item", "stop"} /\ worker'.target = worker.target
        /\ faults' \in 0..MaxFaults /\ hold' \in [Target -> Hold]
    <3>1. CASE Skip(worker.listed) /\ UNCHANGED hold
      BY <2>1, <3>1, SkipType DEF TInv, TypeOK
    <3>2. CASE /\ hold' = [hold EXCEPT ![worker.target] = HoldFor(job[active].action)]
               /\ worker' = [worker EXCEPT !.at = "stop", !.changed = @ \cup {Owner[worker.target]}]
               /\ UNCHANGED <<item, faults>>
      <4>2. worker' \in WorkerRecord /\ worker'.at = "stop" /\ worker'.target = worker.target
        BY <2>1, <3>2, WorkerChanges DEF WorkerIs, TInv, TypeOK
      <4> QED
        BY <1>0, <2>1, <3>2, <4>2, HoldTypes
    <3> QED
      BY <1>5, <3>1, <3>2 DEF PlaceHold
  <2> QED
    BY <1>5, <2>1, <2>2 DEF PlaceHold, TInv, TypeOK, Worked, Midway
<1>6. CASE StopSessions
  <2>1. worker' \in WorkerRecord /\ worker'.at = "submit" /\ worker'.target = worker.target
    BY <1>6, GotoType DEF StopSessions, WorkerStep
  <2>2. session' \in [Account -> Sessions]
    BY <1>6, ResetType DEF StopSessions, TInv, TypeOK
  <2> QED
    BY <1>6, <2>1, <2>2 DEF StopSessions, TInv, TypeOK, Worked, Midway
<1>7. CASE Submit
  <2>1. /\ worker' \in WorkerRecord /\ worker'.at \in {"operate", "close"}
        /\ worker'.target = worker.target
    BY <1>7, GotoType DEF Submit, WorkerStep
  <2>2. active \in Job /\ worker.target \in Target /\ "submitting" \in ItemStatus
    BY <1>7 DEF Submit, TInv, TypeOK, Worked, Midway, ItemStatus, Open
  <2>3. item' \in [Job -> [Target -> ItemStatus]]
    BY <1>7, <2>2, SetItemType DEF Submit, TInv, TypeOK
  <2>4. faults' \in 0..MaxFaults
    BY <1>7, FaultType DEF Submit
  <2> QED
    BY <1>7, <2>1, <2>2, <2>3, <2>4 DEF Submit, TInv, TypeOK, Worked, Midway
<1>8. CASE Operate
  <2>1. worker' \in WorkerRecord /\ worker'.at = "answer" /\ worker'.target = worker.target
    BY <1>8, GotoType DEF Operate, WorkerStep
  <2>2. sent' \in [Job -> [Target -> Nat]]
    <3>1. active \in Job /\ worker.target \in Target
      BY <1>8 DEF Operate, TInv, TypeOK, Worked, Midway
    <3>2. \/ sent' = sent
          \/ sent' = [sent EXCEPT ![active][worker.target] = @ + 1]
      BY <1>8 DEF Operate
    <3>3. sent \in [Job -> [Target -> Nat]]
      BY DEF TInv, TypeOK
    <3>4. [sent EXCEPT ![active][worker.target] = @ + 1] \in [Job -> [Target -> Nat]]
      BY <1>0, <3>1, SentType
    <3> QED
      BY <3>2, <3>3, <3>4
  <2> QED
    BY <1>8, <2>1, <2>2 DEF Operate, TInv, TypeOK, Worked, Midway
<1>9. CASE Answer
  <2>1. worker.target \in Target /\ worker \in WorkerRecord /\ hold \in [Target -> Hold]
    BY <1>9 DEF Answer, TInv, TypeOK, Worked, Midway
  <2>2. PICK o \in Outcome :
          /\ worker' = [worker EXCEPT !.at = "record", !.outcome = o]
          /\ \/ UNCHANGED hold
             \/ \E q : hold' = [hold EXCEPT ![worker.target] = Adjusted(q)]
    BY <1>9 DEF Answer, Outcome
  <2>3. worker' \in WorkerRecord /\ worker'.at = "record" /\ worker'.target = worker.target
    BY <2>1, <2>2, WorkerAnswers DEF WorkerIs
  <2>4. \A q : Adjusted(q) \in Hold
    BY <1>0, <2>1, HoldTypes DEF Adjusted
  <2>5. hold' \in [Target -> Hold]
    BY <2>1, <2>2, <2>4
  <2>6. faults' \in 0..MaxFaults
    BY <1>9, FaultType DEF Answer
  <2> QED
    BY <1>9, <2>1, <2>3, <2>5, <2>6 DEF Answer, TInv, TypeOK, Worked, Midway
<1>10. CASE Record
  <2>1. /\ worker' \in WorkerRecord /\ worker'.at \in {"wait", "close"}
        /\ worker'.target = worker.target
    BY <1>10, LeaveType DEF Record, WorkerStep
  <2>2. active \in Job /\ worker.target \in Target /\ StatusOf(worker.outcome) \in ItemStatus
    BY <1>10, StatusTypes DEF Record, TInv, TypeOK, Worked, Midway, ItemStatus, Final
  <2>3. item' \in [Job -> [Target -> ItemStatus]]
    BY <1>10, <2>2, SetItemType DEF Record, TInv, TypeOK
  <2>4. faults' \in 0..MaxFaults
    BY <1>10, FaultType DEF Record
  <2> QED
    BY <1>10, <2>1, <2>2, <2>3, <2>4 DEF Record, TInv, TypeOK, Worked, Midway
<1>11. CASE Wait
  <2>1. /\ worker' \in WorkerRecord /\ worker'.at \in {"item", "close"}
        /\ worker'.target = worker.target
    BY <1>11, GotoType DEF Wait, WorkerStep
  <2> QED
    BY <1>11, <2>1 DEF Wait, TInv, TypeOK, Worked, Midway
<1>12. CASE Finish
  <2>1. /\ worker' \in WorkerRecord /\ worker'.at \in {"release", "close"}
        /\ worker'.target = worker.target
    BY <1>12, GotoType DEF Finish, WorkerStep
  <2>2. job' \in [Job -> JobRecord] /\ (active # NoJob => job'[active].action \in Action)
    BY <1>12, StatusKept DEF Finish, TInv, TypeOK, Worked
  <2>3. faults' \in 0..MaxFaults
    BY <1>12, FaultType DEF Finish
  <2> QED
    BY <1>12, <2>1, <2>2, <2>3 DEF Finish, TInv, TypeOK, Worked, Midway
<1>13. CASE CloseJob
  <2>1. /\ worker' \in WorkerRecord /\ worker'.at = "release"
        /\ worker'.target = worker.target
    BY <1>13, GotoType DEF CloseJob, WorkerStep
  <2>2. job' \in [Job -> JobRecord] /\ (active # NoJob => job'[active].action \in Action)
    BY <1>13, StatusKept DEF CloseJob, TInv, TypeOK, Worked
  <2>3. item' \in [Job -> [Target -> ItemStatus]]
    <3>1. PICK lost : item' = [item EXCEPT ![active] = Close(@, lost)]
      BY <1>13, Zenon DEF CloseJob
    <3> QED
      BY <1>0, <3>1, CloseType
  <2>4. faults' \in 0..MaxFaults
    <3>1. PICK lost \in SUBSET {"queue", "submit", "job"} :
            /\ faults + Cardinality(lost) <= MaxFaults
            /\ faults' = faults + Cardinality(lost)
      BY <1>13 DEF CloseJob
    <3>2. Cardinality(lost) \in Nat
      BY Statements, FS_Subset, FS_CardinalityType
    <3> QED
      BY <1>0, <3>1, <3>2, ConstantsAssumption
  <2> QED
    BY <1>13, <2>1, <2>2, <2>3, <2>4 DEF CloseJob, TInv, TypeOK, Worked, Midway
<1>14. CASE Release
  <2>1. owed' \in SUBSET Account
    BY <1>0, <1>14, WorkerFields DEF Release, TInv, TypeOK
  <2> QED
    BY <1>14, <2>1, IdleWorkerType DEF Release, TInv, TypeOK, Worked, Midway
<1>15. CASE ResetChanged
  BY <1>15, ResetType DEF ResetChanged, TInv, TypeOK, Worked, Midway
<1>16. ASSUME NEW t \in Target,
              OpenBrowser(t) \/ RenewBrowser(t) \/ ResumeBrowser(t) \/ ResumeDesktop(t)
       PROVE  TInv'
  <2>1. hold' \in [Target -> Hold]
    BY <1>0, <1>16, HoldTypes DEF OpenBrowser, RenewBrowser, ResumeBrowser, ResumeDesktop
  <2>2. session' \in [Account -> Sessions]
    BY <1>16, ResetType DEF OpenBrowser, RenewBrowser, ResumeBrowser, ResumeDesktop, TInv, TypeOK
  <2>3. UNCHANGED <<job, item, active, accounts, worker, owed, expiry, sent, phase, faults>>
    BY <1>16 DEF OpenBrowser, RenewBrowser, ResumeBrowser, ResumeDesktop, Others
  <2> QED
    BY <2>1, <2>2, <2>3 DEF TInv, TypeOK, Worked, Midway
<1>17. CASE HoldLapses
  <2>1. hold' \in [Target -> Hold]
    BY <1>0, <1>17, HoldTypes DEF HoldLapses
  <2>2. WorkerIs(worker', worker.at, worker.target)
    <3>1. Lapsed(worker.prev) \in Hold
      BY <1>0, HoldTypes
    <3>2. WorkerIs(worker, worker.at, worker.target)
      BY <1>0 DEF WorkerIs
    <3> QED
      <4>1. CASE UNCHANGED worker
        BY <3>2, <4>1
      <4>2. CASE worker' = [worker EXCEPT !.prev = Lapsed(@)]
        BY <1>0, <3>1, <4>2, WorkerSees
      <4> QED
        BY <1>17, <4>1, <4>2 DEF HoldLapses
  <2> QED
    BY <1>17, <2>1, <2>2 DEF HoldLapses, TInv, TypeOK, Worked, Midway, WorkerIs
<1>18. CASE ExpiryNext
  <2>1. Past \subseteq Target /\ {Owner[t] : t \in Past} \in SUBSET Account
    BY ConstantsAssumption DEF Past
  <2>2. expiry' \in ExpiryRecord
    <3>1. expiry \in ExpiryRecord /\ IdleExpiry \in ExpiryRecord
      BY DEF TInv, TypeOK, ExpiryRecord, IdleExpiry
    <3>2. /\ [IdleExpiry EXCEPT !.at = "select"] \in ExpiryRecord
          /\ [expiry EXCEPT !.at = "reset"] \in ExpiryRecord
          /\ [at |-> "delete", ids |-> {Owner[t] : t \in Past}] \in ExpiryRecord
      BY <2>1, <3>1 DEF ExpiryRecord
    <3> QED
      BY <1>18, <3>1, <3>2 DEF ExpiryNext, ExpiryTick, ExpirySelect, ExpiryDelete, ExpiryReset
  <2>3. hold' \in [Target -> Hold]
    BY <1>0, <1>18, HoldTypes DEF ExpiryNext, ExpiryTick, ExpirySelect, ExpiryDelete, ExpiryReset
  <2>4. session' \in [Account -> Sessions]
    BY <1>18, ResetType DEF ExpiryNext, ExpiryTick, ExpirySelect, ExpiryDelete, ExpiryReset, TInv, TypeOK
  <2>5. faults' \in 0..MaxFaults
    BY <1>0, <1>18, FaultType DEF ExpiryNext, ExpiryTick, ExpirySelect, ExpiryDelete, ExpiryReset
  <2>6. UNCHANGED <<job, item, active, accounts, worker, owed, sent, phase>>
    BY <1>18 DEF ExpiryNext, ExpiryTick, ExpirySelect, ExpiryDelete, ExpiryReset
  <2> QED
    BY <2>2, <2>3, <2>4, <2>5, <2>6 DEF TInv, TypeOK, Worked, Midway
<1>19. ASSUME NEW a \in Account, KeepaliveStep(a)
       PROVE  TInv'
  <2>1. session' \in [Account -> Sessions]
    BY <1>19, KeepaliveType DEF TInv, TypeOK
  <2> QED
    BY <1>19, <2>1 DEF KeepaliveStep, Others, TInv, TypeOK, Worked, Midway
<1>20. CASE Close_Cancel \/ Close_Closing
  <2>1. session' \in [Account -> Sessions]
    <3>1. session' = session \/ session' = [a \in Account |-> NoSessions]
      BY <1>20 DEF Close_Cancel, Close_Closing
    <3> QED
      BY <3>1, SessionTypes DEF TInv, TypeOK
  <2> QED
    BY <1>20, <2>1 DEF Close_Cancel, Close_Closing, TInv, TypeOK, Worked, Midway
<1>21. CASE Close_Return \/ Crash
  <2>1. Gone
    BY <1>21, ConstantsAssumption DEF Close_Return, Crash, TInv, TypeOK
  <2>2. session' \in [Account -> Sessions] /\ expiry' \in ExpiryRecord
    BY <2>1, SessionTypes DEF Gone, ExpiryRecord, IdleExpiry
  <2>3. /\ worker' \in WorkerRecord /\ worker'.at = "idle"
        /\ worker'.target = NoTarget /\ active' = NoJob
    BY <2>1, IdleWorkerType DEF Gone
  <2>4. TypeOK'
    BY <2>1, <2>2, <2>3, ConstantsAssumption DEF Gone, TInv, TypeOK
  <2> QED
    BY <2>3, <2>4, ConstantsAssumption DEF TInv, Worked, Midway
<1>22. CASE Restart
  <2>1. job' \in [Job -> JobRecord] /\ \A j \in Job : job'[j].action = job[j].action
    <3>1. job \in [Job -> JobRecord]
      BY DEF TInv, TypeOK
    <3>2. \A j \in Job :
            LET after == [job[j] EXCEPT !.status = "interrupted"] IN
            after \in JobRecord /\ after.action = job[j].action
      BY <3>1 DEF JobRecord
    <3>3. CASE UNCHANGED job
      BY <3>1, <3>3
    <3>4. CASE job' = [j \in Job |-> IF job[j].status = "running"
                                     THEN [job[j] EXCEPT !.status = "interrupted"]
                                     ELSE job[j]]
      BY <3>1, <3>2, <3>4
    <3> QED
      BY <1>22, <3>3, <3>4 DEF Restart
  <2>2. item' \in [Job -> [Target -> ItemStatus]]
    BY <1>0, <1>22, CloseType DEF Restart
  <2>3. faults' \in 0..MaxFaults
    BY <1>22, FaultType DEF Restart
  <2> QED
    BY <1>22, <2>1, <2>2, <2>3 DEF Restart, TInv, TypeOK, Worked, Midway
<1>23. CASE UNCHANGED vars
  BY <1>23 DEF vars, TInv, TypeOK, Worked, Midway
<1> QED
  BY <1>1, <1>2, <1>3, <1>4, <1>5, <1>6, <1>7, <1>8, <1>9, <1>10, <1>11, <1>12, <1>13, <1>14,
     <1>15, <1>16, <1>17, <1>18, <1>19, <1>20, <1>21, <1>22, <1>23 DEF Next, WorkerNext

(* The state stays within its types for every number of jobs, desktops and *)
(* failures.                                                               *)
THEOREM TypeCorrect == Spec => []TypeOK
<1>1. TInv => TypeOK
  BY DEF TInv
<1> QED
  BY <1>1, TypeInit, TypeStep, PTL DEF Spec
-----------------------------------------------------------------------------
(* Layer 2: the ledger.  The status of the current item follows the step   *)
(* of the worker; an item that was not submitting yet has not been sent.   *)

Before == {"verdict", "snapshot", "hold", "stop", "submit"}
During == {"operate", "answer", "record"}
Unsent == {"none", "queued", "validating", "cancelled"}

FreeIsEmpty == \A j \in Job, t \in Target : job[j] = FreeJob => item[j][t] = "none"
TodoIsQueued ==
  worker.at \notin {"idle", "release"} => \A t \in worker.todo : item[active][t] = "queued"
Current ==
  /\ worker.at \in Before => item[active][worker.target] = "validating"
  /\ worker.at \in During => item[active][worker.target] = "submitting"
  /\ worker.at = "operate" => sent[active][worker.target] = 0
  /\ worker.at = "record" /\ worker.outcome = "accepted" => sent[active][worker.target] = 1
LInv == FreeIsEmpty /\ TodoIsQueued /\ Current /\ SubmittedOnce /\ HistoryIsTrue
        /\ \A j \in Job, t \in Target : item[j][t] = "none" => sent[j][t] = 0

OutcomesKept ==
  \A j \in Job, t \in Target : item[j][t] \in Final => item'[j][t] = item[j][t]

LEMMA LedgerInit == Init => LInv
BY ConstantsAssumption, IdleWorkerType
   DEF Init, LInv, FreeIsEmpty, TodoIsQueued, Current, SubmittedOnce, HistoryIsTrue,
       Before, During

(* What the steps of the worker leave alone.                               *)
SameWork == worker'.target = worker.target /\ worker'.todo = worker.todo
LEMMA GotoWork ==
  ASSUME worker \in WorkerRecord, NEW step, Goto(step)
  PROVE  /\ SameWork /\ worker'.at = step /\ worker'.outcome = worker.outcome
         /\ worker'.changed = worker.changed
BY DEF Goto, WorkerRecord, SameWork

LEMMA LeaveWork ==
  ASSUME worker \in WorkerRecord, NEW step, Leave(step)
  PROVE  SameWork /\ worker'.at = step /\ worker'.changed = worker.changed
BY DEF Leave, WorkerRecord, SameWork

(* A step that changes neither items nor requests, and leads to a step of  *)
(* the worker with the same obligations.                                   *)
LEMMA LedgerFrame ==
  ASSUME TInv, LInv, UNCHANGED <<item, sent, active>>, SameWork, Current',
         \A j \in Job : job'[j] = FreeJob => job[j] = FreeJob,
         worker'.at = worker.at \/ worker.at \notin {"idle", "release"}
  PROVE  LInv' /\ OutcomesKept
<1>1. FreeIsEmpty' /\ TodoIsQueued'
  BY DEF LInv, FreeIsEmpty, TodoIsQueued, SameWork
<1>2. SubmittedOnce' /\ HistoryIsTrue'
  BY DEF LInv, SubmittedOnce, HistoryIsTrue
<1> QED
  BY <1>1, <1>2 DEF LInv, OutcomesKept

(* A step that gives one open item a new status.                           *)
LEMMA LedgerRecord ==
  ASSUME TInv, LInv, NEW j \in Job, NEW t \in Target, NEW status,
         active = j, active' = j, job[j] # FreeJob,
         item' = [item EXCEPT ![j][t] = status], UNCHANGED <<sent, job>>,
         item[j][t] \notin Final,
         status \in Unsent => sent[j][t] = 0,
         status = "accepted" => sent[j][t] = 1,
         worker.at \notin {"idle", "release"},
         worker'.todo \subseteq worker.todo \ {t},
         Current'
  PROVE  LInv' /\ OutcomesKept
<1>1. /\ item'[j][t] = status
      /\ \A k \in Job, u \in Target : k # j \/ u # t => item'[k][u] = item[k][u]
  BY DEF TInv, TypeOK
<1>2. FreeIsEmpty' /\ TodoIsQueued'
  <2>1. worker'.todo \subseteq Target
    BY WorkerFields DEF TInv, TypeOK
  <2> QED
    BY <1>1, <2>1, ConstantsAssumption DEF LInv, FreeIsEmpty, TodoIsQueued
<1>3. SubmittedOnce' /\ HistoryIsTrue'
  BY <1>1 DEF LInv, SubmittedOnce, HistoryIsTrue, Unsent
<1>4. \A k \in Job, u \in Target : item'[k][u] = "none" => sent'[k][u] = 0
  BY <1>1 DEF LInv, Unsent
<1>5. OutcomesKept
  BY <1>1 DEF OutcomesKept
<1> QED
  BY <1>2, <1>3, <1>4, <1>5 DEF LInv

(* The end of a batch and the restart close open items.                    *)
LEMMA LedgerClose ==
  ASSUME TInv, LInv, UNCHANGED sent, worker'.at \in {"idle", "release"},
         \A j \in Job, t \in Target : item'[j][t] \in {item[j][t], Closed(item[j][t])},
         \A j \in Job : job'[j] = FreeJob => job[j] = FreeJob
  PROVE  LInv' /\ OutcomesKept
<1>1. \A status \in ItemStatus :
        /\ status = "none" => Closed(status) = "none"
        /\ status \in Final => Closed(status) = status
        /\ Closed(status) \in Unsent => status \in Unsent
        /\ Closed(status) = "accepted" <=> status = "accepted"
        /\ Closed(status) = "none" => status = "none"
  BY DEF Closed, ItemStatus, Open, Final, Unsent
<1>2. \A j \in Job, t \in Target : item[j][t] \in ItemStatus
  BY DEF TInv, TypeOK
<1>3. FreeIsEmpty'
  BY <1>1, <1>2 DEF LInv, FreeIsEmpty
<1>4. TodoIsQueued' /\ Current'
  BY DEF TodoIsQueued, Current, Before, During
<1>5. \A j \in Job, t \in Target :
        /\ item'[j][t] \in Unsent => sent'[j][t] = 0
        /\ item'[j][t] = "accepted" => sent'[j][t] = 1
  BY <1>1, <1>2 DEF LInv, HistoryIsTrue, Unsent
<1>6. SubmittedOnce' /\ HistoryIsTrue'
  BY <1>5 DEF LInv, SubmittedOnce, HistoryIsTrue, Unsent
<1>7. OutcomesKept
  BY <1>1, <1>2 DEF OutcomesKept
<1> QED
  BY <1>3, <1>4, <1>5, <1>6, <1>7 DEF LInv, Unsent

LEMMA EndedIsNotFree ==
  \A r \in JobRecord, status \in {"finished", "interrupted"} :
    [r EXCEPT !.status = status] # FreeJob
BY DEF JobRecord, FreeJob

LEMMA SkipLedger ==
  ASSUME TInv, LInv, worker.at \in Before, NEW l, Skip(l), UNCHANGED <<job, active, sent>>
  PROVE  LInv' /\ OutcomesKept
<1>1. /\ active \in Job /\ worker.target \in Target /\ worker \in WorkerRecord
      /\ job[active] # FreeJob /\ worker.todo \subseteq Target
  BY WorkerFields, ConstantsAssumption DEF TInv, Worked, TypeOK, Midway, Before, FreeJob
<1>2. /\ worker'.at = "item" /\ SameWork
  BY <1>1 DEF Skip, WorkerRecord, SameWork
<1>3. Current'
  BY <1>2 DEF Current, Before, During
<1>4. item[active][worker.target] = "validating" /\ worker.target \notin worker.todo
  BY <1>1 DEF LInv, Current, TodoIsQueued, Before
<1>5. CASE UNCHANGED item
  BY <1>2, <1>3, <1>5, LedgerFrame DEF Before
<1>6. CASE SetPowerItem("failed")
  BY <1>1, <1>2, <1>3, <1>4, <1>6, LedgerRecord
     DEF SetPowerItem, Before, Final, Unsent, SameWork
<1> QED
  BY <1>5, <1>6 DEF Skip

THEOREM LedgerStep == TInv /\ LInv /\ [Next]_vars => LInv' /\ OutcomesKept
<1> SUFFICES ASSUME TInv, LInv, [Next]_vars PROVE LInv' /\ OutcomesKept
  OBVIOUS
<1>0. /\ worker \in WorkerRecord /\ worker.todo \subseteq Target
      /\ worker.at # "idle" => active \in Job /\ job[active] # FreeJob
      /\ worker.at \in Midway => worker.target \in Target
  BY WorkerFields, ConstantsAssumption DEF TInv, TypeOK, Worked, FreeJob
<1>1. CASE StartPowerBatch
  <2>1. PICK j \in Job, act \in Action, targets \in SUBSET Target : Enlist(j, act, targets)
    BY <1>1 DEF StartPowerBatch
  <2>2. /\ worker'.at = "item" /\ worker'.todo = targets /\ active' = j
        /\ UNCHANGED sent
    BY <1>1, <2>1 DEF Enlist, IdleWorker, StartPowerBatch
  <2>3. /\ job[j] = FreeJob /\ job'[j] # FreeJob
        /\ \A k \in Job : k # j => job'[k] = job[k] /\ item'[k] = item[k]
        /\ \A t \in Target : item'[j][t] = IF t \in targets THEN "queued" ELSE "none"
    BY <2>1, ConstantsAssumption DEF Enlist, TInv, TypeOK, FreeJob
  <2>4. \A t \in Target : item[j][t] = "none" /\ sent[j][t] = 0
    BY <2>3 DEF LInv, FreeIsEmpty
  <2>5. FreeIsEmpty' /\ TodoIsQueued' /\ Current'
    BY <2>2, <2>3 DEF LInv, FreeIsEmpty, TodoIsQueued, Current, Before, During
  <2>6. SubmittedOnce' /\ HistoryIsTrue'
    BY <2>2, <2>3, <2>4 DEF LInv, SubmittedOnce, HistoryIsTrue
  <2>7. \A k \in Job, t \in Target : item'[k][t] = "none" => sent'[k][t] = 0
    BY <2>2, <2>3, <2>4 DEF LInv
  <2>8. OutcomesKept
    BY <2>3, <2>4 DEF OutcomesKept, Final
  <2> QED
    BY <2>5, <2>6, <2>7, <2>8 DEF LInv
<1>2. CASE NextItem
  <2>1. CASE (Goto("finish") \/ Goto("close")) /\ UNCHANGED item
    <3>1. SameWork /\ worker'.at \in {"finish", "close"}
      BY <1>0, <2>1, GotoWork
    <3>2. Current'
      BY <3>1 DEF Current, Before, During
    <3> QED
      BY <1>2, <2>1, <3>1, <3>2, LedgerFrame DEF NextItem
  <2>2. ASSUME NEW t \in worker.todo, Take(t) PROVE LInv' /\ OutcomesKept
    <3>1. /\ worker'.at = "verdict" /\ worker'.target = t /\ worker'.todo = worker.todo \ {t}
          /\ t \in Target /\ active \in Job /\ job[active] # FreeJob
      BY <1>0, <1>2, <2>2 DEF Take, WorkerRecord, NextItem
    <3>2. item[active][t] = "queued" /\ sent[active][t] = 0
      BY <1>2, <3>1 DEF NextItem, LInv, TodoIsQueued, HistoryIsTrue
    <3>3. item'[active][t] = "validating"
      BY <2>2, <3>1 DEF Take, TInv, TypeOK
    <3>4. Current'
      BY <1>2, <3>1, <3>3 DEF Current, Before, During, NextItem
    <3> QED
      BY <1>2, <2>2, <3>1, <3>2, <3>4, LedgerRecord DEF Take, NextItem, Final
  <2> QED
    BY <1>2, <2>1, <2>2 DEF NextItem
<1>3. CASE Verdict
  <2>1. worker.at \in Before /\ UNCHANGED <<job, active, sent>>
    BY <1>3 DEF Verdict, Before
  <2>2. PICK l : \/ Skip(l)
                 \/ /\ worker' = [worker EXCEPT !.at = "snapshot", !.listed = l]
                    /\ UNCHANGED <<item, faults>>
    BY <1>3, Zenon DEF Verdict
  <2>3. CASE Skip(l)
    BY <2>1, <2>3, SkipLedger
  <2>4. CASE /\ worker' = [worker EXCEPT !.at = "snapshot", !.listed = l]
             /\ UNCHANGED <<item, faults>>
    <3>1. SameWork /\ worker'.at = "snapshot"
      BY <1>0, <2>4 DEF WorkerRecord, SameWork
    <3>2. Current'
      BY <1>3, <2>1, <2>4, <3>1 DEF LInv, Current, Before, During, SameWork
    <3> QED
      BY <1>3, <2>1, <2>4, <3>1, <3>2, LedgerFrame DEF Verdict
  <2> QED
    BY <2>2, <2>3, <2>4
<1>4. CASE Snapshot \/ PlaceHold
  <2>1. worker.at \in {"snapshot", "hold"} /\ UNCHANGED <<job, active, sent>>
    BY <1>4 DEF Snapshot, PlaceHold
  <2>2. CASE Skip(worker.listed)
    BY <2>1, <2>2, SkipLedger DEF Before
  <2>3. CASE UNCHANGED item /\ ~Skip(worker.listed)
    <3>1. SameWork /\ worker'.at \in {"hold", "stop"}
      BY <1>0, <1>4, <2>3 DEF Snapshot, PlaceHold, WorkerRecord, SameWork
    <3>2. Current'
      BY <2>1, <2>3, <3>1 DEF LInv, Current, Before, During, SameWork
    <3> QED
      BY <2>1, <2>3, <3>1, <3>2, LedgerFrame
  <2> QED
    BY <1>4, <2>2, <2>3 DEF Snapshot, PlaceHold
<1>5. CASE StopSessions \/ Wait \/ Finish
  <2>1. /\ SameWork /\ worker'.at \in {"submit", "item", "release", "close"}
        /\ worker'.at = "submit" => worker.at = "stop"
        /\ worker.at \in {"stop", "wait", "finish"}
    BY <1>0, <1>5, GotoWork DEF StopSessions, Wait, Finish
  <2>2. UNCHANGED <<item, sent, active>>
    BY <1>5 DEF StopSessions, Wait, Finish
  <2>3. \A j \in Job : job'[j] = FreeJob => job[j] = FreeJob
    <3>1. job' = job \/ job' = [job EXCEPT ![active].status = "finished"]
      BY <1>5 DEF StopSessions, Wait, Finish
    <3>2. job \in [Job -> JobRecord]
      BY DEF TInv, TypeOK
    <3> QED
      BY <3>1, <3>2 DEF FreeJob, JobRecord
  <2>4. Current'
    BY <2>1, <2>2 DEF LInv, Current, Before, During, SameWork
  <2> QED
    BY <2>1, <2>2, <2>3, <2>4, LedgerFrame
<1>6. CASE Submit
  <2>1. /\ worker.at = "submit" /\ UNCHANGED <<job, active, sent>>
        /\ active \in Job /\ job[active] # FreeJob /\ worker.target \in Target
    BY <1>0, <1>6 DEF Submit, Midway
  <2>2. /\ item[active][worker.target] = "validating" /\ sent[active][worker.target] = 0
        /\ worker.target \notin worker.todo
    BY <2>1 DEF LInv, Current, Before, HistoryIsTrue, TodoIsQueued
  <2>3. CASE SetPowerItem("submitting") /\ Goto("operate")
    <3>1. SameWork /\ worker'.at = "operate"
      BY <1>0, <2>3, GotoWork
    <3>2. item'[active][worker.target] = "submitting"
      BY <2>1, <2>3 DEF SetPowerItem, TInv, TypeOK
    <3>3. Current'
      BY <2>1, <2>2, <3>1, <3>2 DEF Current, Before, During, SameWork
    <3> QED
      BY <2>1, <2>2, <2>3, <3>1, <3>3, LedgerRecord DEF SetPowerItem, SameWork, Unsent, Final
  <2>4. CASE UNCHANGED item /\ Goto("close")
    <3>1. SameWork /\ worker'.at = "close"
      BY <1>0, <2>4, GotoWork
    <3>2. Current'
      BY <3>1 DEF Current, Before, During
    <3> QED
      BY <2>1, <2>4, <3>1, <3>2, LedgerFrame
  <2> QED
    BY <1>6, <2>3, <2>4 DEF Submit
<1>7. CASE Operate
  <2>1. /\ worker.at = "operate" /\ UNCHANGED <<job, active, item>>
        /\ active \in Job /\ worker.target \in Target
        /\ SameWork /\ worker'.at = "answer"
    BY <1>0, <1>7, GotoWork DEF Operate, Midway
  <2>2. item[active][worker.target] = "submitting" /\ sent[active][worker.target] = 0
    BY <2>1 DEF LInv, Current, During
  <2>3. /\ sent'[active][worker.target] \in {0, 1}
        /\ \A j \in Job, t \in Target :
             j # active \/ t # worker.target => sent'[j][t] = sent[j][t]
    BY <1>7, <2>1, <2>2 DEF Operate, TInv, TypeOK
  <2>4. FreeIsEmpty' /\ TodoIsQueued' /\ Current'
    BY <2>1, <2>2 DEF LInv, FreeIsEmpty, TodoIsQueued, Current, Before, During, SameWork
  <2>5. SubmittedOnce' /\ HistoryIsTrue'
    BY <2>1, <2>2, <2>3 DEF LInv, SubmittedOnce, HistoryIsTrue
  <2> QED
    BY <2>1, <2>2, <2>3, <2>4, <2>5 DEF LInv, OutcomesKept
<1>8. CASE Answer
  <2>1. /\ worker.at = "answer" /\ UNCHANGED <<job, active, item, sent>>
        /\ active \in Job /\ worker.target \in Target
    BY <1>0, <1>8 DEF Answer, Midway
  <2>2. PICK o \in Outcome :
          /\ worker' = [worker EXCEPT !.at = "record", !.outcome = o]
          /\ o = "accepted" => sent[active][worker.target] > 0
    BY <1>8 DEF Answer, Outcome
  <2>3. SameWork /\ worker'.at = "record" /\ worker'.outcome = o
    BY <1>0, <2>2 DEF WorkerRecord, SameWork
  <2>4. o = "accepted" => sent[active][worker.target] = 1
    BY <2>1, <2>2 DEF LInv, SubmittedOnce, TInv, TypeOK
  <2>5. Current'
    BY <2>1, <2>3, <2>4 DEF LInv, Current, Before, During, SameWork
  <2> QED
    BY <2>1, <2>3, <2>5, LedgerFrame
<1>9. CASE Record
  <2>1. /\ worker.at = "record" /\ UNCHANGED <<job, active, sent>>
        /\ active \in Job /\ job[active] # FreeJob /\ worker.target \in Target
    BY <1>0, <1>9 DEF Record, Midway
  <2>2. /\ item[active][worker.target] = "submitting" /\ worker.target \notin worker.todo
        /\ worker.outcome = "accepted" => sent[active][worker.target] = 1
    BY <2>1 DEF LInv, Current, During, TodoIsQueued
  <2>3. /\ StatusOf(worker.outcome) \notin Unsent
        /\ StatusOf(worker.outcome) = "accepted" => worker.outcome = "accepted"
    BY DEF StatusOf, Unsent
  <2>4. SameWork /\ worker'.at \in {"wait", "close"} /\ Current'
    <3>1. SameWork /\ worker'.at \in {"wait", "close"}
      BY <1>0, <1>9, LeaveWork DEF Record
    <3> QED
      BY <3>1 DEF Current, Before, During
  <2>5. CASE SetPowerItem(StatusOf(worker.outcome))
    BY <2>1, <2>2, <2>3, <2>4, <2>5, LedgerRecord DEF SetPowerItem, SameWork, Final
  <2>6. CASE UNCHANGED item
    BY <2>1, <2>4, <2>6, LedgerFrame
  <2> QED
    BY <1>9, <2>5, <2>6 DEF Record
<1>10. CASE CloseJob
  <2>1. worker.at = "close" /\ worker'.at = "release" /\ UNCHANGED sent /\ active \in Job
    BY <1>0, <1>10, GotoWork DEF CloseJob
  <2>2. PICK lost : item' = [item EXCEPT ![active] = Close(@, lost)]
    BY <1>10, Zenon DEF CloseJob
  <2>3. \A j \in Job, t \in Target : item'[j][t] \in {item[j][t], Closed(item[j][t])}
    BY <2>1, <2>2 DEF Close, TInv, TypeOK
  <2>4. \A j \in Job : job'[j] = FreeJob => job[j] = FreeJob
    <3>1. \A j \in Job : job[j] \in JobRecord
      BY DEF TInv, TypeOK
    <3>2. UNCHANGED job \/ job' = [job EXCEPT ![active].status = "interrupted"]
      BY <1>10, Zenon DEF CloseJob
    <3> QED
      BY <2>1, <3>1, <3>2, EndedIsNotFree DEF TInv, TypeOK
  <2> QED
    BY <2>1, <2>3, <2>4, LedgerClose
<1>11. CASE Release \/ Close_Return \/ Crash
  <2>1. worker'.at = "idle" /\ UNCHANGED <<item, sent, job>>
    BY <1>11, IdleWorkerType DEF Release, Close_Return, Crash, Gone
  <2> QED
    BY <2>1, LedgerClose
<1>12. CASE Restart
  <2>1. UNCHANGED <<sent, worker>>
    BY <1>12 DEF Restart
  <2>2. CASE worker.at = "idle"
    <3>1. \A j \in Job, t \in Target : item'[j][t] \in {item[j][t], Closed(item[j][t])}
      BY <1>12 DEF Restart, Close
    <3>2. \A j \in Job : job'[j] = FreeJob => job[j] = FreeJob
      <4>1. \A j \in Job : job[j] \in JobRecord
        BY DEF TInv, TypeOK
      <4> QED
        BY <1>12, <4>1, EndedIsNotFree DEF Restart
    <3> QED
      BY <2>1, <2>2, <3>1, <3>2, LedgerClose
  <2> QED
    BY <1>12, <2>2 DEF Restart, TInv, Worked
<1>13. CASE \/ ResetChanged \/ HoldLapses \/ ExpiryNext \/ Close_Cancel \/ Close_Closing
            \/ UNCHANGED vars
            \/ \E t \in Target : OpenBrowser(t) \/ RenewBrowser(t) \/ ResumeBrowser(t) \/ ResumeDesktop(t)
            \/ \E a \in Account : KeepaliveStep(a)
  <2>1. UNCHANGED <<item, sent, active, job>>
    BY <1>13 DEF ResetChanged, HoldLapses, ExpiryNext, ExpiryTick, ExpirySelect, ExpiryDelete,
                 ExpiryReset, Close_Cancel, Close_Closing, vars, OpenBrowser, RenewBrowser,
                 ResumeBrowser, ResumeDesktop, KeepaliveStep, Others
  <2>2. worker' = worker \/ worker' = [worker EXCEPT !.prev = Lapsed(@)]
    BY <1>13 DEF ResetChanged, HoldLapses, ExpiryNext, ExpiryTick, ExpirySelect, ExpiryDelete,
                 ExpiryReset, Close_Cancel, Close_Closing, vars, OpenBrowser, RenewBrowser,
                 ResumeBrowser, ResumeDesktop, KeepaliveStep, Others
  <2>3. SameWork /\ worker'.at = worker.at /\ worker'.outcome = worker.outcome
    BY <1>0, <2>2 DEF WorkerRecord, SameWork
  <2>4. Current'
    BY <2>1, <2>3 DEF LInv, Current, SameWork
  <2> QED
    BY <2>1, <2>3, <2>4, LedgerFrame
<1> QED
  BY <1>1, <1>2, <1>3, <1>4, <1>5, <1>6, <1>7, <1>8, <1>9, <1>10, <1>11, <1>12, <1>13
     DEF Next, WorkerNext

(* No power request of an item leaves twice, whatever fails and whoever    *)
(* restarts the service.                                                   *)
THEOREM RequestsLeaveOnce == Spec => []SubmittedOnce
<1>1. LInv => SubmittedOnce
  BY DEF LInv
<1> QED
  BY <1>1, TypeInit, TypeStep, LedgerInit, LedgerStep, PTL DEF Spec

(* An item recorded as cancelled was not submitted, one recorded as        *)
(* accepted was.                                                           *)
THEOREM LedgerIsTrue == Spec => []HistoryIsTrue
<1>1. LInv => HistoryIsTrue
  BY DEF LInv
<1> QED
  BY <1>1, TypeInit, TypeStep, LedgerInit, LedgerStep, PTL DEF Spec

(* A recorded outcome is never rewritten, by no batch and no restart.      *)
THEOREM OutcomesNeverChange == Spec => OutcomesAreFinal
<1>1. OutcomesKept => \A j \in Job, t \in Target : item[j][t] \in Final => item'[j][t] = item[j][t]
  BY DEF OutcomesKept
<1> QED
  BY <1>1, TypeInit, TypeStep, LedgerInit, LedgerStep, PTL DEF Spec, OutcomesAreFinal
-----------------------------------------------------------------------------
(* Layer 3: what the keepalive has seen.  A start is decided for an        *)
(* account outside the batch that runs, so no session of an account in it  *)
(* has seen this batch; and a session that was lost and still starts       *)
(* desktops knows it.                                                      *)

Used == {j \in Job : job[j].action # "none"}
Saw(k) == k.starts \cup {k.entry.seen, k.lost.seen}
SInv ==
  /\ active = NoJob => accounts = {}
  /\ \A a \in Account : Saw(session[a]) \subseteq Used \cup {NoJob}
  /\ \A a \in accounts : active \notin Saw(session[a])
  /\ \A a \in Account : session[a].lost.busy => session[a].lost.strayed

LEMMA SeenInit == Init => SInv
BY DEF Init, SInv, Saw, NoSessions, NoSession

LEMMA EmptySaw ==
  /\ Saw(NoSessions) = {NoJob} /\ NoSessions.lost.busy = FALSE
  /\ NoSession.busy = FALSE /\ NoSession.seen = NoJob /\ NoSession.linked = {}
  /\ NoSessions.entry = NoSession
BY DEF Saw, NoSessions, NoSession

(* A reset launches nothing, and links nothing.                            *)
LEMMA ResetSeen ==
  ASSUME session \in [Account -> Sessions], NEW ids, Reset(ids),
         \A a \in Account : session[a].lost.busy => session[a].lost.strayed
  PROVE  /\ \A a \in Account : Saw(session'[a]) \subseteq Saw(session[a]) \cup {NoJob}
         /\ \A a \in Account : session'[a].lost.busy => session'[a].lost.strayed
         /\ \A t \in Target : Linked(t)' =>
              Linked(t) /\ Owner[t] \notin ids /\ (Strayed(t) => Strayed(t)')
<1>1. \A a \in Account : Saw(session'[a]) \subseteq Saw(session[a]) \cup {NoJob}
  BY ResetType, EmptySaw DEF Saw
<1>2. \A t \in Target : Linked(t)' =>
        Linked(t) /\ Owner[t] \notin ids /\ (Strayed(t) => Strayed(t)')
  BY ResetType, EmptySaw, ConstantsAssumption DEF Linked, Strayed
<1> QED
  BY <1>1, <1>2, ResetType

(* A step of the keepalive launches only outside the batch; it links a     *)
(* desktop only if no hold keeps it away, or into a session that strayed.  *)
SeenOnce(a, k, n) ==
  /\ \/ Saw(n) \subseteq Saw(k) \cup {NoJob}
     \/ a \notin accounts /\ Saw(n) \subseteq Saw(k) \cup {active}
  /\ n.lost.busy => n.lost.strayed
  /\ \A t \in n.entry.linked : t \in Target =>
       \/ t \in k.entry.linked /\ (k.entry.strayed => n.entry.strayed)
       \/ n.entry.strayed \/ ~Held(t)

LEMMA SeenAfter ==
  ASSUME NEW a \in Account, NEW k \in Sessions, k.lost.busy => k.lost.strayed,
         active \in Job \cup {NoJob}
  PROVE  /\ a \notin accounts => SeenOnce(a, k, Launched(k))
         /\ \A batch \in k.starts : SeenOnce(a, k, Entered(k, a, batch))
         /\ \A m \in Session :
              /\ m.seen = k.entry.seen /\ m.strayed = k.entry.strayed
                 /\ (\A t \in m.linked \cap Target : t \in k.entry.linked \/ ~Held(t))
                   => SeenOnce(a, k, WithEntry(k, m))
              /\ m.seen = k.lost.seen /\ (m.busy => m.strayed) => SeenOnce(a, k, WithLost(k, m))
         /\ SeenOnce(a, k, Overwritten(k))
         /\ k.lost.busy => SeenOnce(a, k, Swapped(k))
<1>1. /\ Astray(k.entry).seen \in {k.entry.seen, NoJob}
      /\ Astray(k.entry).busy => Astray(k.entry).strayed
  BY SessionsAre, EmptySaw DEF Astray, Session
<1>2. \A batch : Registered(a, batch).seen = batch /\ Registered(a, batch).linked = {}
  BY DEF Registered
<1>3. a \notin accounts => SeenOnce(a, k, Launched(k))
  BY StepRecords DEF SeenOnce, Saw
<1>4. \A batch \in k.starts : SeenOnce(a, k, Entered(k, a, batch))
  BY <1>2, StepRecords DEF SeenOnce, Saw
<1>5. ASSUME NEW m \in Session
      PROVE  /\ m.seen = k.entry.seen /\ m.strayed = k.entry.strayed
                /\ (\A t \in m.linked \cap Target : t \in k.entry.linked \/ ~Held(t))
                  => SeenOnce(a, k, WithEntry(k, m))
             /\ m.seen = k.lost.seen /\ (m.busy => m.strayed) => SeenOnce(a, k, WithLost(k, m))
  BY StepRecords DEF SeenOnce, Saw
<1>6. SeenOnce(a, k, Overwritten(k))
  BY <1>1, StepRecords, EmptySaw DEF SeenOnce, Saw
<1>7. k.lost.busy => SeenOnce(a, k, Swapped(k))
  BY <1>1, StepRecords DEF SeenOnce, Saw
<1> QED
  BY <1>3, <1>4, <1>5, <1>6, <1>7

LEMMA VisitSeen ==
  ASSUME session \in [Account -> Sessions], NEW a \in Account,
         session[a].lost.busy => session[a].lost.strayed, active \in Job \cup {NoJob},
         NEW s \in {session[a].entry, session[a].lost}, NEW t \in Target,
         Visit(a, s, t) \/ LinkEnds(a, s, t)
  PROVE  \E n \in Sessions : Becomes(a, n) /\ SeenOnce(a, session[a], n)
<1>1. session[a] \in Sessions /\ s \in Session
  BY SessionsAre
<1>2. PICK m \in Session :
        /\ Goes(a, s, m) /\ m.seen = s.seen /\ m.strayed = s.strayed /\ m.busy = s.busy
        /\ \A u \in m.linked \cap Target : u \in s.linked \/ ~Held(u)
  BY <1>1, SessionVisits
<1>3. CASE s = session[a].entry /\ Becomes(a, WithEntry(session[a], m))
  BY <1>1, <1>2, <1>3, SeenAfter, StepRecords
<1>4. CASE s = session[a].lost /\ Becomes(a, WithLost(session[a], m))
  BY <1>1, <1>2, <1>4, SeenAfter, StepRecords
<1> QED
  BY <1>2, <1>3, <1>4, GoesOn

LEMMA KeepaliveSeen ==
  ASSUME session \in [Account -> Sessions], NEW a \in Account, KeepaliveStep(a),
         active \in Job \cup {NoJob},
         \A b \in Account : session[b].lost.busy => session[b].lost.strayed
  PROVE  /\ \A b \in Account :
              \/ Saw(session'[b]) \subseteq Saw(session[b]) \cup {NoJob}
              \/ b \notin accounts /\ Saw(session'[b]) \subseteq Saw(session[b]) \cup {active}
         /\ \A b \in Account : session'[b].lost.busy => session'[b].lost.strayed
         /\ \A t \in Target : Linked(t)' =>
              \/ Linked(t) /\ (Strayed(t) => Strayed(t)')
              \/ Strayed(t)' \/ ~Held(t)
<1>1. CASE StopKeepalive(a)
  BY <1>1, ResetSeen DEF StopKeepalive
<1>2. CASE \E n \in Sessions : Becomes(a, n) /\ SeenOnce(a, session[a], n)
  <2>1. /\ SeenOnce(a, session[a], session'[a])
        /\ \A b \in Account : b # a => session'[b] = session[b]
    BY <1>2, OneAccount
  <2>2. ASSUME NEW t \in Target, Linked(t)'
        PROVE  \/ Linked(t) /\ (Strayed(t) => Strayed(t)')
               \/ Strayed(t)' \/ ~Held(t)
    BY <2>1, <2>2, ConstantsAssumption DEF Linked, Strayed, SeenOnce
  <2> QED
    BY <2>1, <2>2 DEF SeenOnce
<1>3. session[a] \in Sessions /\ session[a].entry \in Session
  BY SessionsAre
<1>4. CASE Settle(a) /\ Becomes(a, WithEntry(session[a], [session[a].entry EXCEPT !.busy = FALSE]))
  <2> DEFINE m == [session[a].entry EXCEPT !.busy = FALSE]
  <2>1. Like(m, session[a].entry) /\ m.linked = session[a].entry.linked
    BY <1>3, SessionSettles
  <2>2. Becomes(a, WithEntry(session[a], m))
    BY <1>4
  <2> HIDE DEF m
  <2> QED
    BY <1>2, <1>3, <2>1, <2>2, SeenAfter, StepRecords DEF Like
<1>5. Launch(a) => a \notin accounts
  BY DEF Launch
<1> QED
  BY <1>1, <1>2, <1>3, <1>4, <1>5, KeepaliveSteps, VisitSeen, SeenAfter, StepRecords

LEMMA SeenFrame ==
  ASSUME TInv, SInv, UNCHANGED <<active, accounts>>, Used \subseteq Used',
         UNCHANGED session \/ \E ids : Reset(ids)
  PROVE  SInv'
<1>1. CASE UNCHANGED session
  BY <1>1 DEF SInv
<1>2. ASSUME NEW ids, Reset(ids) PROVE SInv'
  <2>1. session \in [Account -> Sessions]
    BY DEF TInv, TypeOK
  <2>2. /\ \A a \in Account : Saw(session'[a]) \subseteq Saw(session[a]) \cup {NoJob}
        /\ \A a \in Account : session'[a].lost.busy => session'[a].lost.strayed
    BY <1>2, <2>1, ResetSeen DEF SInv
  <2>3. accounts \subseteq Account
    BY DEF TInv, TypeOK
  <2> QED
    BY <2>2, <2>3 DEF SInv
<1> QED
  BY <1>1, <1>2

THEOREM SeenStep == TInv /\ SInv /\ [Next]_vars => SInv'
<1> SUFFICES ASSUME TInv, SInv, [Next]_vars PROVE SInv'
  OBVIOUS
<1>0. /\ session \in [Account -> Sessions] /\ accounts \subseteq Account
      /\ active # NoJob => active \in Used
      /\ job \in [Job -> JobRecord] /\ active \in Job \cup {NoJob}
      /\ worker.at # "idle" => active \in Job
  BY ConstantsAssumption DEF TInv, TypeOK, Worked, Used
<1>1. CASE StartPowerBatch
  <2>1. PICK j \in Job, act \in Action, targets \in SUBSET Target : Enlist(j, act, targets)
    BY <1>1 DEF StartPowerBatch
  <2>2. UNCHANGED session /\ active' = j /\ active = NoJob /\ j \notin Used
    BY <1>1, <2>1 DEF StartPowerBatch, Enlist, Used, FreeJob
  <2>3. Used \subseteq Used'
    BY <1>0, <2>1, <2>2 DEF Enlist, Used
  <2>4. accounts' \subseteq Account
    BY <2>1, ConstantsAssumption DEF Enlist
  <2> QED
    BY <2>2, <2>3, <2>4, ConstantsAssumption DEF SInv
<1>2. CASE Finish \/ CloseJob
  <2>1. UNCHANGED <<active, accounts, session>> /\ active \in Job
    BY <1>0, <1>2 DEF Finish, CloseJob
  <2>2. \/ UNCHANGED job
        \/ \E status \in {"finished", "interrupted"} : job' = [job EXCEPT ![active].status = status]
    <3>1. CASE Finish
      BY <3>1 DEF Finish
    <3>2. CASE CloseJob
      BY <3>2 DEF CloseJob
    <3> QED
      BY <1>2, <3>1, <3>2
  <2>3. Used \subseteq Used'
    BY <2>2, StatusKept DEF Used
  <2> QED
    BY <2>1, <2>3, SeenFrame
<1>3. CASE Release
  BY <1>3 DEF Release, SInv, Used
<1>4. ASSUME NEW a \in Account, KeepaliveStep(a)
      PROVE  SInv'
  <2>1. UNCHANGED <<job, active, accounts>>
    BY <1>4 DEF KeepaliveStep, Others
  <2>2. /\ \A b \in Account :
              \/ Saw(session'[b]) \subseteq Saw(session[b]) \cup {NoJob}
              \/ b \notin accounts /\ Saw(session'[b]) \subseteq Saw(session[b]) \cup {active}
        /\ \A b \in Account : session'[b].lost.busy => session'[b].lost.strayed
    BY <1>0, <1>4, KeepaliveSeen DEF SInv
  <2> QED
    BY <1>0, <2>1, <2>2 DEF SInv, Used
<1>5. CASE Close_Cancel \/ Close_Return \/ Crash
  <2>1. \A a \in Account : session'[a] = NoSessions
    BY <1>5 DEF Close_Cancel, Close_Return, Crash, Gone
  <2>2. accounts' \subseteq accounts /\ (active' = active \/ accounts' = {})
        /\ (active' = NoJob => accounts' = {})
    BY <1>5 DEF Close_Cancel, Close_Return, Crash, Gone, SInv
  <2>3. \A a \in accounts' : active' # NoJob
    BY <2>2
  <2> QED
    BY <1>0, <2>1, <2>2, <2>3, EmptySaw DEF SInv
<1>6. CASE Restart
  <2>1. UNCHANGED <<active, accounts, session>>
    BY <1>6 DEF Restart
  <2>2. \A j \in Job : [job[j] EXCEPT !.status = "interrupted"].action = job[j].action
    BY <1>0 DEF JobRecord
  <2>3. Used \subseteq Used'
    BY <1>6, <2>2 DEF Restart, Used
  <2> QED
    BY <2>1, <2>3, SeenFrame
<1>7. CASE \/ NextItem \/ Verdict \/ Snapshot \/ PlaceHold \/ StopSessions \/ Submit
           \/ Operate \/ Answer \/ Record \/ Wait \/ ResetChanged \/ HoldLapses
           \/ ExpiryNext \/ Close_Closing \/ UNCHANGED vars
           \/ \E t \in Target : OpenBrowser(t) \/ RenewBrowser(t) \/ ResumeBrowser(t) \/ ResumeDesktop(t)
  <2>1. UNCHANGED <<job, active, accounts>>
    BY <1>7 DEF NextItem, Verdict, Snapshot, PlaceHold, StopSessions, Submit, Operate, Answer,
                Record, Wait, ResetChanged, HoldLapses, ExpiryNext, ExpiryTick, ExpirySelect,
                ExpiryDelete, ExpiryReset, Close_Closing, vars, OpenBrowser, RenewBrowser,
                ResumeBrowser, ResumeDesktop, Others
  <2>2. UNCHANGED session \/ \E ids : Reset(ids)
    BY <1>7 DEF NextItem, Verdict, Snapshot, PlaceHold, StopSessions, Submit, Operate, Answer,
                Record, Wait, ResetChanged, HoldLapses, ExpiryNext, ExpiryTick, ExpirySelect,
                ExpiryDelete, ExpiryReset, Close_Closing, vars, OpenBrowser, RenewBrowser,
                ResumeBrowser, ResumeDesktop, Others
  <2> QED
    BY <2>1, <2>2, SeenFrame DEF Used
<1> QED
  BY <1>1, <1>2, <1>3, <1>4, <1>5, <1>6, <1>7 DEF Next, WorkerNext
-----------------------------------------------------------------------------
(* Layer 4: the holds.  From the moment the worker has placed a hold until *)
(* it has its answer nobody else touches it; and a session linked to a     *)
(* desktop that the power batch holds is one the batch is about to stop,   *)
(* has strayed, or started late under a power-on.                          *)

Held4Request == {"stop", "submit", "operate", "answer"}
Quiet == {"submit", "operate", "answer"}

LateStart(t) == Owner[t] \in worker.changed /\ job[active].action = "poweron"
Blocked ==
  /\ worker.at \in Midway => Owner[worker.target] \in accounts
  /\ worker.at # "idle" => \A t \in worker.todo : Owner[t] \in accounts
  /\ worker.changed \subseteq accounts
Placed ==
  /\ worker.at \in Held4Request =>
       /\ hold[worker.target] = HoldFor(job[active].action)
       /\ Owner[worker.target] \in worker.changed
  /\ worker.at \in Quiet =>
       (Linked(worker.target) => Strayed(worker.target) \/ job[active].action = "poweron")
Resting ==
  \A t \in Target :
    HeldByPower(t) /\ Linked(t) =>
      \/ worker.at = "stop" /\ worker.target = t
      \/ Strayed(t) \/ LateStart(t) \/ Owner[t] \in owed
HInv == Blocked /\ Placed /\ Resting

LEMMA HoldInit == Init => HInv
<1> SUFFICES ASSUME Init PROVE HInv
  OBVIOUS
<1>1. worker.at = "idle" /\ worker.changed = {}
  BY DEF Init, IdleWorker
<1>2. \A t \in Target : ~HeldByPower(t)
  BY DEF Init, HeldByPower, Held, NoHold
<1> QED
  BY <1>1, <1>2 DEF HInv, Blocked, Placed, Resting, Midway, Held4Request, Quiet

(* A step of the worker that leaves holds and sessions alone.              *)
LEMMA HoldFrame ==
  ASSUME HInv, UNCHANGED <<hold, session, owed>>, Blocked', Placed', worker.at # "stop",
         worker.changed = {} \/ /\ worker'.changed = worker.changed
                                /\ job'[active'].action = job[active].action
  PROVE  HInv'
BY DEF HInv, Resting, HeldByPower, Held, Linked, Strayed, LateStart

(* A step of the others that links nothing to a desktop the batch holds.   *)
LEMMA HoldOthers ==
  ASSUME TInv, HInv, UNCHANGED <<job, active, accounts, worker>>,
         \A t \in Target : HeldByPower(t)' => HeldByPower(t),
         worker.at \in Held4Request => hold'[worker.target] = hold[worker.target],
         \A t \in Target : Linked(t)' =>
           \/ Linked(t) /\ (Strayed(t) => Strayed(t)') /\ (Owner[t] \in owed => Owner[t] \in owed')
           \/ Strayed(t)' \/ ~Held(t)
  PROVE  HInv'
<1>1. Blocked'
  BY DEF HInv, Blocked
<1>2. Placed'
  <2>1. worker.at \in Midway => worker.target \in Target /\ active # NoJob
    BY DEF TInv, Worked, Midway
  <2>2. worker.at \in Quiet /\ ~Held(worker.target) => job[active].action = "poweron"
    <3>1. worker.at \in Quiet => job[active].action \in {"poweron", "shutdown", "reboot"}
      BY <2>1, ConstantsAssumption DEF TInv, Worked, Quiet, Midway
    <3>2. HoldFor("shutdown").until = "forever" /\ HoldFor("reboot").until = "future"
      BY DEF HoldFor, ShutdownHold, RebootHold
    <3> QED
      BY <3>1, <3>2 DEF HInv, Placed, Quiet, Held4Request, Held
  <2> QED
    BY <2>1, <2>2 DEF HInv, Placed, Held4Request, Quiet, Midway
<1>3. Resting'
  BY DEF HInv, Resting, HeldByPower, LateStart
<1> QED
  BY <1>1, <1>2, <1>3 DEF HInv

THEOREM HoldStep == TInv /\ SInv /\ HInv /\ [Next]_vars => HInv'
<1> SUFFICES ASSUME TInv, SInv, HInv, [Next]_vars PROVE HInv'
  OBVIOUS
<1>0. /\ worker \in WorkerRecord /\ worker.todo \subseteq Target
      /\ worker.changed \subseteq Account
      /\ worker.at # "idle" => active \in Job
      /\ worker.at = "idle" => worker.changed = {}
      /\ worker.at \in Midway => worker.target \in Target /\ Owner[worker.target] \in Account
      /\ session \in [Account -> Sessions] /\ hold \in [Target -> Hold]
      /\ active \in Job \cup {NoJob}
  BY WorkerFields, ConstantsAssumption DEF TInv, TypeOK, Worked, SInv, HInv, Blocked
<1>1. CASE StartPowerBatch
  <2>1. PICK j \in Job, act \in Action, targets \in SUBSET Target : Enlist(j, act, targets)
    BY <1>1 DEF StartPowerBatch
  <2>2. /\ worker'.at = "item" /\ worker'.todo = targets /\ UNCHANGED <<hold, session, owed>>
        /\ worker'.changed = {}
        /\ accounts' = {Owner[t] : t \in targets} /\ worker.at = "idle"
    BY <1>1, <2>1 DEF Enlist, IdleWorker, StartPowerBatch, TInv, Worked
  <2>3. Blocked' /\ Placed'
    BY <2>2 DEF Blocked, Placed, Midway, Held4Request, Quiet
  <2> QED
    BY <1>0, <2>2, <2>3, HoldFrame
<1>2. CASE NextItem
  <2>1. UNCHANGED <<hold, session, accounts, owed, job, active>> /\ worker.at = "item"
    BY <1>2 DEF NextItem
  <2>2. /\ worker'.at \in {"finish", "close", "verdict"}
        /\ worker'.todo \subseteq worker.todo
        /\ worker'.changed = worker.changed
        /\ worker'.at = "verdict" => worker'.target \in worker.todo
    <3>1. CASE Goto("finish") \/ Goto("close")
      BY <1>0, <3>1, GotoWork DEF SameWork
    <3>2. CASE \E t \in worker.todo : Take(t)
      BY <1>0, <3>2 DEF Take, WorkerRecord
    <3> QED
      BY <1>2, <3>1, <3>2 DEF NextItem
  <2>3. Blocked'
    <3>1. \A t \in worker.todo : Owner[t] \in accounts
      BY <2>1 DEF HInv, Blocked
    <3>2. accounts' = accounts /\ worker.changed \subseteq accounts
      BY <2>1 DEF HInv, Blocked
    <3>3. worker'.at = "verdict" \/ worker'.at \notin Midway
      BY <2>2 DEF Midway
    <3> QED
      BY <2>2, <3>1, <3>2, <3>3 DEF Blocked
  <2>4. Placed'
    BY <2>2 DEF Placed, Held4Request, Quiet
  <2> QED
    BY <2>1, <2>2, <2>3, <2>4, HoldFrame
<1>3. CASE Verdict \/ Snapshot
  <2>1. /\ UNCHANGED <<hold, session, accounts, owed, job, active>>
        /\ worker.at \in {"verdict", "snapshot"}
    BY <1>3 DEF Verdict, Snapshot
  <2>2. /\ SameWork /\ worker'.at \in {"item", "snapshot", "hold"}
        /\ worker'.changed = worker.changed
    BY <1>0, <1>3 DEF Verdict, Snapshot, Skip, SameWork, WorkerRecord
  <2>3. Blocked' /\ Placed'
    BY <2>1, <2>2 DEF HInv, Blocked, Placed, Midway, Held4Request, Quiet, SameWork
  <2> QED
    BY <2>1, <2>2, <2>3, HoldFrame
<1>4. CASE PlaceHold
  <2>1. /\ UNCHANGED <<session, accounts, job, active, owed>> /\ worker.at = "hold"
        /\ worker.target \in Target /\ Owner[worker.target] \in accounts
    BY <1>0, <1>4 DEF PlaceHold, Midway, HInv, Blocked
  <2>2. CASE Skip(worker.listed) /\ UNCHANGED hold
    <3>1. SameWork /\ worker'.at = "item" /\ worker'.changed = worker.changed
      BY <1>0, <2>2 DEF Skip, SameWork, WorkerRecord
    <3>2. Blocked' /\ Placed'
      BY <2>1, <3>1 DEF HInv, Blocked, Placed, Midway, Held4Request, Quiet, SameWork
    <3> QED
      BY <2>1, <2>2, <3>1, <3>2, HoldFrame
  <2>3. CASE /\ hold' = [hold EXCEPT ![worker.target] = HoldFor(job[active].action)]
             /\ worker' = [worker EXCEPT !.at = "stop", !.changed = @ \cup {Owner[worker.target]}]
    <3>1. /\ SameWork /\ worker'.at = "stop"
          /\ worker'.changed = worker.changed \cup {Owner[worker.target]}
      BY <1>0, <2>3 DEF SameWork, WorkerRecord
    <3>2. hold'[worker.target] = HoldFor(job[active].action)
          /\ \A t \in Target : t # worker.target => hold'[t] = hold[t]
      BY <1>0, <2>1, <2>3
    <3>3. Blocked' /\ Placed'
      BY <2>1, <3>1, <3>2 DEF HInv, Blocked, Placed, Midway, Held4Request, Quiet, SameWork
    <3>4. Resting'
      BY <2>1, <3>1, <3>2
         DEF HInv, Resting, HeldByPower, Held, Linked, Strayed, LateStart, SameWork
    <3> QED
      BY <3>3, <3>4 DEF HInv
  <2> QED
    BY <1>4, <2>2, <2>3 DEF PlaceHold
<1>5. CASE StopSessions
  <2>1. /\ SameWork /\ worker'.at = "submit" /\ worker.at = "stop" /\ worker.target \in Target
        /\ worker'.changed = worker.changed
        /\ UNCHANGED <<hold, job, active, accounts, owed>> /\ Reset({Owner[worker.target]})
    BY <1>0, <1>5, GotoWork DEF StopSessions, Midway
  <2>2. \A t \in Target : Linked(t)' =>
          Linked(t) /\ Owner[t] # Owner[worker.target] /\ (Strayed(t) => Strayed(t)')
    BY <1>0, <2>1, ResetSeen DEF SInv
  <2>3. Blocked' /\ Placed'
    BY <2>1, <2>2 DEF HInv, Blocked, Placed, Midway, Held4Request, Quiet, SameWork
  <2>4. Resting'
    BY <2>1, <2>2 DEF HInv, Resting, HeldByPower, Held, LateStart
  <2> QED
    BY <2>3, <2>4 DEF HInv
<1>6. CASE Submit \/ Operate
  <2>1. /\ SameWork /\ worker.at \in {"submit", "operate"}
        /\ worker'.at \in {"operate", "answer", "close"} /\ worker'.changed = worker.changed
        /\ UNCHANGED <<hold, session, job, active, accounts, owed>>
    BY <1>0, <1>6, GotoWork DEF Submit, Operate
  <2>2. Blocked' /\ Placed'
    BY <2>1 DEF HInv, Blocked, Placed, Midway, Held4Request, Quiet, SameWork, Linked, Strayed
  <2> QED
    BY <2>1, <2>2, HoldFrame
<1>7. CASE Answer
  <2>1. /\ worker.at = "answer" /\ worker.target \in Target
        /\ UNCHANGED <<session, accounts, owed, job, active>>
    BY <1>0, <1>7 DEF Answer, Midway
  <2>2. SameWork /\ worker'.at = "record" /\ worker'.changed = worker.changed
    BY <1>0, <1>7 DEF Answer, WorkerRecord, SameWork
  <2>3. \A t \in Target : t # worker.target => hold'[t] = hold[t]
    BY <1>0, <1>7 DEF Answer
  <2>4. Blocked' /\ Placed'
    BY <2>1, <2>2 DEF HInv, Blocked, Placed, Midway, Held4Request, Quiet, SameWork
  <2>5. Linked(worker.target) => Strayed(worker.target) \/ LateStart(worker.target)
    BY <2>1 DEF HInv, Placed, Quiet, Held4Request, LateStart
  <2>6. Resting'
    BY <2>1, <2>2, <2>3, <2>5
       DEF HInv, Resting, HeldByPower, Held, Linked, Strayed, LateStart
  <2> QED
    BY <2>4, <2>6 DEF HInv
<1>8. CASE Record \/ Wait \/ Finish \/ CloseJob
  <2>1. /\ SameWork /\ worker.at \in {"record", "wait", "finish", "close"}
        /\ worker'.at \in {"wait", "item", "release", "close"}
        /\ worker'.at = "wait" => worker.at = "record"
        /\ worker'.changed = worker.changed
        /\ UNCHANGED <<hold, session, accounts, owed, active>>
    BY <1>0, <1>8, GotoWork, LeaveWork DEF Record, Wait, Finish, CloseJob
  <2>2. Blocked' /\ Placed'
    BY <2>1 DEF HInv, Blocked, Placed, Midway, Held4Request, Quiet, SameWork
  <2>3. job'[active'].action = job[active].action
    <3>1. \/ UNCHANGED job
          \/ \E status \in {"finished", "interrupted"} : job' = [job EXCEPT ![active].status = status]
      <4>1. CASE Record \/ Wait
        BY <4>1 DEF Record, Wait
      <4>2. CASE Finish
        BY <4>2 DEF Finish
      <4>3. CASE CloseJob
        BY <4>3 DEF CloseJob
      <4> QED
        BY <1>8, <4>1, <4>2, <4>3
    <3> QED
      BY <1>0, <2>1, <3>1, StatusKept
  <2> QED
    BY <2>1, <2>2, <2>3, HoldFrame
<1>9. CASE Release
  <2>1. /\ worker.at = "release" /\ worker'.at = "idle" /\ worker'.changed = {}
        /\ UNCHANGED <<hold, session>> /\ owed' = owed \cup worker.changed
    BY <1>9 DEF Release, IdleWorker
  <2>2. Blocked' /\ Placed'
    BY <2>1 DEF Blocked, Placed, Midway, Held4Request, Quiet
  <2>3. Resting'
    BY <2>1 DEF HInv, Resting, HeldByPower, Held, Linked, Strayed, LateStart
  <2> QED
    BY <2>2, <2>3 DEF HInv
<1>10. CASE ResetChanged
  <2>1. PICK a \in owed : Reset({a}) /\ owed' = owed \ {a}
    BY <1>10 DEF ResetChanged
  <2>2. UNCHANGED <<job, active, accounts, worker, hold>>
    BY <1>10 DEF ResetChanged
  <2>3. \A t \in Target : Linked(t)' =>
          Linked(t) /\ Owner[t] \notin {a} /\ (Strayed(t) => Strayed(t)')
    BY <1>0, <2>1, ResetSeen DEF SInv
  <2> QED
    BY <2>1, <2>2, <2>3, HoldOthers DEF HeldByPower, Held
<1>11. CASE ExpiryNext
  <2>1. UNCHANGED <<job, active, accounts, worker, owed>>
    BY <1>11 DEF ExpiryNext, ExpiryTick, ExpirySelect, ExpiryDelete, ExpiryReset
  <2>2. \A t \in Target : Linked(t)' => Linked(t) /\ (Strayed(t) => Strayed(t)')
    <3>1. CASE UNCHANGED session
      BY <3>1 DEF Linked, Strayed
    <3>2. ASSUME NEW ids, Reset(ids)
          PROVE  \A t \in Target : Linked(t)' => Linked(t) /\ (Strayed(t) => Strayed(t)')
      BY <1>0, <3>2, ResetSeen DEF SInv
    <3> QED
      BY <1>11, <3>1, <3>2 DEF ExpiryNext, ExpiryTick, ExpirySelect, ExpiryDelete, ExpiryReset
  <2>3. \A t \in Target : hold'[t] = hold[t] \/ (hold[t].until = "past" /\ hold'[t] = NoHold)
    BY <1>0, <1>11 DEF ExpiryNext, ExpiryTick, ExpirySelect, ExpiryDelete, ExpiryReset, Past
  <2>4. \A t \in Target : HeldByPower(t)' => HeldByPower(t)
    BY <2>3 DEF HeldByPower, Held, NoHold
  <2>5. worker.at \in Held4Request => hold'[worker.target] = hold[worker.target]
    <3>1. \A action : HoldFor(action).until # "past"
      BY DEF HoldFor, ShutdownHold, RebootHold, NoHold
    <3> QED
      BY <1>0, <2>3, <3>1 DEF HInv, Placed, Held4Request, Midway
  <2> QED
    BY <2>1, <2>2, <2>4, <2>5, HoldOthers
<1>12. ASSUME NEW t \in Target, OpenBrowser(t) \/ ResumeBrowser(t) \/ ResumeDesktop(t)
       PROVE  HInv'
  <2>1. /\ worker.at = "idle" /\ UNCHANGED <<job, active, accounts, worker, owed>>
        /\ Reset({Owner[t]})
    BY <1>12 DEF OpenBrowser, ResumeBrowser, ResumeDesktop, TInv, Worked, Others
  <2>2. \A u \in Target : Linked(u)' => Linked(u) /\ (Strayed(u) => Strayed(u)')
    BY <1>0, <2>1, ResetSeen DEF SInv
  <2>3. \A u \in Target : HeldByPower(u)' => HeldByPower(u)
    BY <1>0, <1>12
       DEF OpenBrowser, ResumeBrowser, ResumeDesktop, HeldByPower, Held, BrowserHold, NoHold
  <2> QED
    BY <2>1, <2>2, <2>3, HoldOthers DEF Held4Request
<1>13. ASSUME NEW t \in Target, RenewBrowser(t)
       PROVE  HInv'
  <2>1. /\ UNCHANGED <<job, active, accounts, worker, session, owed>>
        /\ hold[t].reason = "browser" /\ hold'[t].reason = "browser"
        /\ \A u \in Target : u # t => hold'[u] = hold[u]
    BY <1>0, <1>13 DEF RenewBrowser, Others, Hold
  <2>2. worker.at \in Held4Request => hold'[worker.target] = hold[worker.target]
    <3>1. \A action : HoldFor(action).reason # "browser"
      BY DEF HoldFor, ShutdownHold, RebootHold, NoHold
    <3> QED
      BY <1>0, <2>1, <3>1 DEF HInv, Placed, Held4Request, Midway
  <2>3. \A u \in Target : HeldByPower(u)' => HeldByPower(u)
    BY <2>1 DEF HeldByPower, Held
  <2> QED
    BY <2>1, <2>2, <2>3, HoldOthers DEF Linked, Strayed
<1>14. CASE HoldLapses
  <2>1. UNCHANGED <<job, active, accounts, session, owed>>
        /\ (worker' = worker \/ worker' = [worker EXCEPT !.prev = Lapsed(@)])
    BY <1>14 DEF HoldLapses
  <2>2. SameWork /\ worker'.at = worker.at /\ worker'.changed = worker.changed
    BY <1>0, <2>1 DEF WorkerRecord, SameWork
  <2>3. \A u \in Target : hold'[u] = hold[u] \/ (~InFlight(u) /\ hold'[u] = Lapsed(hold[u]) /\ hold[u].until = "future")
    BY <1>0, <1>14 DEF HoldLapses
  <2>4. Blocked'
    BY <2>1, <2>2 DEF HInv, Blocked, SameWork
  <2>5. Placed'
    BY <1>0, <2>1, <2>2, <2>3
       DEF HInv, Placed, Held4Request, Quiet, Midway, InFlight, SameWork, Linked, Strayed
  <2>6. \A u \in Target : HeldByPower(u)' => HeldByPower(u)
    <3> SUFFICES ASSUME NEW u \in Target, HeldByPower(u)' PROVE HeldByPower(u)
      OBVIOUS
    <3>1. hold[u].until = "future" /\ hold[u] \in Hold => Lapsed(hold[u]).until = "past"
      BY DEF Lapsed, Hold
    <3> QED
      BY <1>0, <2>3, <3>1 DEF HeldByPower, Held
  <2>7. Resting'
    BY <2>1, <2>2, <2>6 DEF HInv, Resting, Linked, Strayed, LateStart, SameWork
  <2> QED
    BY <2>4, <2>5, <2>7 DEF HInv
<1>15. ASSUME NEW a \in Account, KeepaliveStep(a)
       PROVE  HInv'
  <2>1. UNCHANGED <<job, active, accounts, worker, hold, owed>>
    BY <1>15 DEF KeepaliveStep, Others
  <2>2. \A t \in Target : Linked(t)' =>
          \/ Linked(t) /\ (Strayed(t) => Strayed(t)')
          \/ Strayed(t)' \/ ~Held(t)
    BY <1>0, <1>15, KeepaliveSeen DEF SInv
  <2> QED
    BY <2>1, <2>2, HoldOthers DEF HeldByPower, Held
<1>16. CASE Close_Cancel \/ Close_Return \/ Crash
  <2>1. \A t \in Target : ~Linked(t)'
    BY <1>16, EmptySaw, ConstantsAssumption DEF Close_Cancel, Close_Return, Crash, Gone, Linked
  <2>2. CASE Close_Cancel
    BY <2>1, <2>2 DEF Close_Cancel, HInv, Blocked, Placed, Resting, Held4Request, Quiet, Midway, TInv, Worked
  <2>3. CASE worker' = IdleWorker
    BY <2>1, <2>3 DEF IdleWorker, HInv, Blocked, Placed, Resting, Midway, Held4Request, Quiet
  <2> QED
    BY <1>16, <2>2, <2>3 DEF Close_Return, Crash, Gone
<1>17. CASE Restart
  <2>1. worker.at = "idle" /\ UNCHANGED <<hold, session, worker, accounts, active, owed>>
    BY <1>17 DEF Restart, TInv, Worked
  <2> QED
    BY <1>0, <2>1 DEF HInv, Blocked, Placed, Resting, HeldByPower, Held, Linked, Strayed, LateStart,
       Midway, Held4Request, Quiet
<1>18. CASE Close_Closing \/ UNCHANGED vars
  <2>1. UNCHANGED <<hold, session, worker, accounts, active, owed, job>>
    BY <1>18 DEF Close_Closing, vars
  <2> QED
    BY <2>1, HoldOthers DEF HeldByPower, Held, Linked, Strayed
<1> QED
  BY <1>1, <1>2, <1>3, <1>4, <1>5, <1>6, <1>7, <1>8, <1>9, <1>10, <1>11, <1>12, <1>13, <1>14,
     <1>15, <1>16, <1>17, <1>18 DEF Next, WorkerNext

(* A power request meets no session that would start its desktop again,    *)
(* neither while it is out nor as long as its hold lasts, but one lost     *)
(* from m.clients or one that a power-on's batch met half started.         *)
THEOREM PowerIsRespected == Spec => []PowerComesFirst
<1>1. TInv /\ SInv /\ HInv => PowerComesFirst
  <2> SUFFICES ASSUME TInv, SInv, HInv PROVE PowerComesFirst
    OBVIOUS
  <2>1. \A t \in Target : Owner[t] \in accounts => DecidedBefore(t)
    BY DEF SInv, Saw, DecidedBefore, TInv, TypeOK
  <2>2. RequestHasItsHold
    BY <2>1 DEF TInv, Worked, HInv, Blocked, Placed, Held4Request, Quiet, Midway, RequestHasItsHold
  <2>3. PowerHoldsAreRespected
    BY <2>1 DEF HInv, Blocked, Resting, LateStart, PowerHoldsAreRespected, ToBeReset
  <2> QED
    BY <2>2, <2>3 DEF PowerComesFirst
<1> QED
  BY <1>1, TypeInit, TypeStep, SeenInit, SeenStep, HoldInit, HoldStep, PTL DEF Spec
-----------------------------------------------------------------------------
(* Layer 5: what a refusal puts back.  A hold that can lapse is one that   *)
(* is allowed to, and so is the one the worker has read.                   *)

MayLapse(h) == h.until \in {"future", "past"} => h.reason \notin {"none", "shutdown"}
Timed == MayLapse(worker.prev) /\ \A t \in Target : MayLapse(hold[t])
RInv == Timed /\ RefusalRestoresHold

LEMMA TimedHolds ==
  /\ MayLapse(NoHold) /\ MayLapse(BrowserHold) /\ MayLapse(CheckHold)
  /\ \A action : MayLapse(HoldFor(action))
BY DEF MayLapse, NoHold, BrowserHold, CheckHold, HoldFor, ShutdownHold, RebootHold

LEMMA LapsedHold ==
  ASSUME NEW h \in Hold
  PROVE  /\ Lapsed(h).reason = h.reason
         /\ MayLapse(h) => MayLapse(Lapsed(h))
         /\ h.until = "future" => Lapsed(h) = [h EXCEPT !.until = "past"]
                                  /\ h = [Lapsed(h) EXCEPT !.until = "future"]
         /\ \A u \in {"past", "future"} :
              [Lapsed(h) EXCEPT !.until = u] = [h EXCEPT !.until = u]
BY DEF Lapsed, Hold, MayLapse

LEMMA RefusalInit == Init => RInv
<1> SUFFICES ASSUME Init PROVE RInv
  OBVIOUS
<1>1. worker.at = "idle" /\ worker.prev = NoHold
  BY DEF Init, IdleWorker
<1>2. Timed
  BY <1>1, TimedHolds DEF Init, Timed
<1> QED
  BY <1>1, <1>2 DEF RInv, RefusalRestoresHold

(* Elsewhere than after an answer there is nothing to restore.             *)
LEMMA RefusalFrame ==
  ASSUME worker'.at # "record", MayLapse(worker.prev)',
         \A t \in Target : MayLapse(hold[t])'
  PROVE  RInv'
BY DEF RInv, Timed, RefusalRestoresHold

THEOREM RefusalStep == TInv /\ RInv /\ [Next]_vars => RInv'
<1> SUFFICES ASSUME TInv, RInv, [Next]_vars PROVE RInv'
  OBVIOUS
<1>0. /\ worker \in WorkerRecord /\ worker.prev \in Hold
      /\ worker.at \in Midway => worker.target \in Target
      /\ hold \in [Target -> Hold]
      /\ MayLapse(worker.prev) /\ \A t \in Target : MayLapse(hold[t])
  BY WorkerFields DEF TInv, TypeOK, Worked, RInv, Timed
<1>1. CASE StartPowerBatch \/ Release \/ Close_Return \/ Crash
  <2>1. worker'.prev = NoHold /\ worker'.at # "record" /\ hold' = hold
    <3>1. IdleWorker.prev = NoHold /\ IdleWorker.at = "idle"
      BY DEF IdleWorker
    <3>2. CASE StartPowerBatch
      <4>1. PICK targets : worker' = [IdleWorker EXCEPT !.at = "item", !.todo = targets]
        BY <3>2 DEF StartPowerBatch, Enlist
      <4> QED
        BY <3>2, <4>1 DEF StartPowerBatch, IdleWorker
    <3>3. CASE Release \/ Close_Return \/ Crash
      BY <3>1, <3>3 DEF Release, Close_Return, Crash, Gone
    <3> QED
      BY <1>1, <3>2, <3>3
  <2> QED
    BY <1>0, <2>1, TimedHolds, RefusalFrame DEF MayLapse
<1>2. CASE \/ NextItem \/ Verdict \/ Snapshot \/ StopSessions \/ Submit
           \/ Operate \/ Record \/ Wait \/ Finish \/ CloseJob
  <2>1. hold' = hold
    BY <1>2 DEF NextItem, Verdict, Snapshot, StopSessions, Submit, Operate,
                Record, Wait, Finish, CloseJob
  <2>2. worker'.at # "record" /\ MayLapse(worker'.prev)
    <3>1. CASE NextItem
      BY <1>0, <3>1, TimedHolds DEF NextItem, Goto, Take, WorkerRecord
    <3>2. CASE Verdict
      BY <1>0, <3>2, TimedHolds DEF Verdict, Skip, WorkerRecord
    <3>3. CASE Snapshot
      BY <1>0, <3>3, TimedHolds DEF Snapshot, Skip, WorkerRecord, Midway
    <3>4. CASE StopSessions \/ Submit \/ Operate \/ Wait \/ Finish \/ CloseJob
      BY <1>0, <3>4 DEF StopSessions, Submit, Operate, Wait, Finish, CloseJob,
                        Goto, WorkerRecord
    <3>5. CASE Record
      BY <1>0, <3>5, TimedHolds DEF Record, Leave, WorkerRecord
    <3> QED
      BY <1>2, <3>1, <3>2, <3>3, <3>4, <3>5
  <2> QED
    BY <1>0, <2>1, <2>2, RefusalFrame DEF MayLapse
<1>3. CASE PlaceHold
  <2>1. worker'.at # "record" /\ MayLapse(worker'.prev)
    BY <1>0, <1>3, TimedHolds DEF PlaceHold, Skip, WorkerRecord
  <2>2. \A t \in Target : hold'[t] = hold[t] \/ \E action : hold'[t] = HoldFor(action)
    BY <1>0, <1>3 DEF PlaceHold
  <2>3. \A t \in Target : MayLapse(hold'[t])
    BY <1>0, <2>2, TimedHolds
  <2> QED
    BY <2>1, <2>3, RefusalFrame DEF MayLapse
<1>4. CASE Answer
  <2>1. /\ worker.at = "answer" /\ worker.target \in Target
        /\ worker'.prev = worker.prev /\ worker'.target = worker.target
    BY <1>0, <1>4 DEF Answer, Midway, WorkerRecord
  <2>2. \A t \in Target : MayLapse(hold'[t])
    <3>1. \A t \in Target : hold'[t] \in {hold[t], worker.prev, CheckHold}
      BY <1>0, <1>4 DEF Answer, Adjusted
    <3> QED
      BY <1>0, <3>1, TimedHolds
  <2>3. worker'.outcome = "refused" => hold'[worker.target] = worker.prev
    <3>1. PICK outcome \in {"accepted", "refused", "uncertain"} :
            \/ /\ hold' = [hold EXCEPT ![worker.target] = Adjusted(outcome)]
               /\ worker' = [worker EXCEPT !.at = "record", !.outcome = outcome]
            \/ worker' = [worker EXCEPT !.at = "record",
                 !.outcome = IF outcome = "refused" THEN "unrestored" ELSE outcome]
               /\ outcome # "accepted"
      BY <1>4 DEF Answer
    <3> QED
      BY <1>0, <2>1, <3>1 DEF Adjusted, WorkerRecord
  <2> QED
    BY <1>0, <2>1, <2>2, <2>3 DEF RInv, Timed, RefusalRestoresHold, MayLapse
<1>5. ASSUME NEW t \in Target, OpenBrowser(t) \/ ResumeBrowser(t) \/ ResumeDesktop(t)
      PROVE  RInv'
  <2>1. worker.at = "idle" /\ UNCHANGED worker
    BY <1>5 DEF OpenBrowser, ResumeBrowser, ResumeDesktop, TInv, Worked, Others
  <2>2. \A u \in Target : hold'[u] \in {hold[u], NoHold, BrowserHold}
    BY <1>0, <1>5 DEF OpenBrowser, ResumeBrowser, ResumeDesktop
  <2>3. \A u \in Target : MayLapse(hold'[u])
    BY <1>0, <2>2, TimedHolds
  <2> QED
    BY <1>0, <2>1, <2>3, RefusalFrame DEF MayLapse
<1>6. ASSUME NEW t \in Target, RenewBrowser(t)
      PROVE  RInv'
  <2>1. /\ UNCHANGED worker /\ hold[t].reason = "browser"
        /\ hold'[t] = [hold[t] EXCEPT !.until = "future"]
        /\ \A u \in Target : u # t => hold'[u] = hold[u]
    BY <1>0, <1>6 DEF RenewBrowser, Others
  <2>2. hold'[t].reason = "browser"
    BY <1>0, <2>1 DEF Hold
  <2>3. \A u \in Target : MayLapse(hold'[u])
    BY <1>0, <2>1, <2>2 DEF MayLapse
  <2>4. RefusalRestoresHold'
    <3> SUFFICES ASSUME worker.at = "record", worker.outcome = "refused", worker.target = t
                 PROVE  /\ worker.prev.reason \notin {"none", "shutdown"}
                        /\ hold'[t] = [worker.prev EXCEPT !.until = "future"]
      BY <1>0, <2>1 DEF RInv, RefusalRestoresHold, Midway
    <3>1. \/ hold[t] = worker.prev
          \/ /\ worker.prev.reason \notin {"none", "shutdown"}
             /\ hold[t] \in {NoHold, [worker.prev EXCEPT !.until = "past"],
                             [worker.prev EXCEPT !.until = "future"]}
      BY DEF RInv, RefusalRestoresHold
    <3>2. hold[t] # NoHold
      BY <2>1 DEF NoHold
    <3> QED
      BY <1>0, <2>1, <3>1, <3>2 DEF Hold
  <2> QED
    BY <1>0, <2>1, <2>3, <2>4 DEF RInv, Timed, MayLapse
<1>7. CASE HoldLapses
  <2>1. CASE /\ worker' = worker
             /\ \A u \in Target :
                  hold'[u] = hold[u] \/ (hold[u].until = "future" /\ hold'[u] = Lapsed(hold[u]))
    <3>1. ASSUME NEW u \in Target
          PROVE  MayLapse(hold'[u])
      <4>1. hold[u] \in Hold /\ MayLapse(hold[u])
        BY <1>0
      <4>2. MayLapse(Lapsed(hold[u]))
        BY <4>1, LapsedHold
      <4> QED
        BY <2>1, <4>1, <4>2
    <3>2. RefusalRestoresHold'
      <4> SUFFICES ASSUME worker.at = "record", worker.outcome = "refused",
                          hold[worker.target].until = "future",
                          hold'[worker.target] = Lapsed(hold[worker.target])
                   PROVE  /\ worker.prev.reason \notin {"none", "shutdown"}
                          /\ hold'[worker.target] = [worker.prev EXCEPT !.until = "past"]
        BY <1>0, <2>1 DEF RInv, RefusalRestoresHold, Midway
      <4>1. hold'[worker.target] = [hold[worker.target] EXCEPT !.until = "past"]
        BY <1>0, LapsedHold DEF Midway
      <4>2. \/ hold[worker.target] = worker.prev
            \/ /\ worker.prev.reason \notin {"none", "shutdown"}
               /\ hold[worker.target] = [worker.prev EXCEPT !.until = "future"]
        BY <1>0 DEF RInv, RefusalRestoresHold, NoHold, Hold
      <4> QED
        BY <1>0, <4>1, <4>2 DEF MayLapse, Hold
    <3> QED
      BY <1>0, <2>1, <3>1, <3>2 DEF RInv, Timed, MayLapse
  <2>2. CASE /\ worker.prev.until = "future" /\ hold' = hold
             /\ worker' = [worker EXCEPT !.prev = Lapsed(@)]
    <3>1. /\ worker'.prev = Lapsed(worker.prev) /\ worker'.at = worker.at
          /\ worker'.target = worker.target /\ worker'.outcome = worker.outcome
      BY <1>0, <2>2 DEF WorkerRecord
    <3>2. MayLapse(worker'.prev)
      BY <1>0, <3>1, LapsedHold
    <3>3. worker.prev.reason \notin {"none", "shutdown"} /\ worker'.prev.reason = worker.prev.reason
      BY <1>0, <2>2, <3>1, LapsedHold DEF MayLapse
    <3>4. RefusalRestoresHold'
      <4> SUFFICES ASSUME worker.at = "record", worker.outcome = "refused"
                   PROVE  hold[worker.target] \in
                            {NoHold, [Lapsed(worker.prev) EXCEPT !.until = "past"],
                             [Lapsed(worker.prev) EXCEPT !.until = "future"]}
        BY <2>2, <3>1, <3>3 DEF RefusalRestoresHold
      <4>1. \/ hold[worker.target] = worker.prev
            \/ hold[worker.target] \in {NoHold, [worker.prev EXCEPT !.until = "past"],
                                        [worker.prev EXCEPT !.until = "future"]}
        BY DEF RInv, RefusalRestoresHold
      <4> QED
        BY <1>0, <2>2, <4>1, LapsedHold
    <3> QED
      BY <1>0, <2>2, <3>2, <3>4 DEF RInv, Timed, MayLapse
  <2>3. QED
    BY <1>0, <1>7, <2>1, <2>2 DEF HoldLapses
<1>8. CASE ExpiryDelete
  <2>1. /\ worker' = worker
        /\ \A u \in Target : hold'[u] = hold[u] \/ (hold[u].until = "past" /\ hold'[u] = NoHold)
    BY <1>0, <1>8 DEF ExpiryDelete, Past
  <2>2. \A u \in Target : MayLapse(hold'[u])
    BY <1>0, <2>1, TimedHolds
  <2>3. RefusalRestoresHold'
    <3> SUFFICES ASSUME worker.at = "record", worker.outcome = "refused",
                        hold[worker.target].until = "past", hold'[worker.target] = NoHold
                 PROVE  worker.prev.reason \notin {"none", "shutdown"}
      BY <1>0, <2>1 DEF RInv, RefusalRestoresHold, Midway
    <3> QED
      BY <1>0 DEF RInv, RefusalRestoresHold, MayLapse
  <2> QED
    BY <1>0, <2>1, <2>2, <2>3 DEF RInv, Timed, MayLapse
<1>9. CASE \/ ResetChanged \/ ExpiryTick \/ ExpirySelect \/ ExpiryReset
           \/ Close_Cancel \/ Close_Closing \/ Restart \/ UNCHANGED vars
           \/ \E a \in Account : KeepaliveStep(a)
  <2>1. UNCHANGED <<worker, hold>>
    BY <1>9 DEF ResetChanged, ExpiryTick, ExpirySelect, ExpiryReset, Close_Cancel,
                Close_Closing, Restart, vars, KeepaliveStep, Others
  <2> QED
    BY <2>1 DEF RInv, Timed, MayLapse, RefusalRestoresHold
<1> QED
  BY <1>1, <1>2, <1>3, <1>4, <1>5, <1>6, <1>7, <1>8, <1>9 DEF Next, WorkerNext, ExpiryNext

(* A refused request leaves the hold it found, whatever the clock, the     *)
(* expiry and the heartbeat of a page have done to it meanwhile.           *)
THEOREM RefusalsRestore == Spec => []RefusalRestoresHold
<1>1. RInv => RefusalRestoresHold
  BY DEF RInv
<1> QED
  BY <1>1, TypeInit, TypeStep, RefusalInit, RefusalStep, PTL DEF Spec
-----------------------------------------------------------------------------
(* Layer 6: who is responsible for an open item, as long as the store has  *)
(* not failed.  An item is open while it is on the worker's list, while it *)
(* is the worker's current one, or while the batch is being closed.        *)

InHand(t) ==
  \/ worker.at # "release" /\ t \in worker.todo
  \/ worker.at \in Before \cup During /\ t = worker.target
  \/ worker.at = "close"
Tracked ==
  /\ \A j \in Job : job[j].status = "running" => active = j /\ worker.at # "release"
  /\ \A j \in Job, t \in Target : item[j][t] \in Open => active = j /\ InHand(t)
  /\ worker.at = "finish" => worker.todo = {}
OInv == Alive /\ faults = 0 => Tracked

LEMMA TrackedInit == Init => OInv
<1> SUFFICES ASSUME Init PROVE Tracked
  BY DEF OInv
<1>1. worker.at = "idle"
  BY IdleWorkerType DEF Init
<1> QED
  BY <1>1 DEF Init, Tracked, FreeJob, Open

(* A step after which the worker has what it had in hand, and perhaps      *)
(* closes the batch.                                                       *)
LEMMA TrackedFrame ==
  ASSUME TInv, Tracked, UNCHANGED <<job, item, active>>,
         worker'.todo = worker.todo, worker'.target = worker.target,
         worker.at \in Before \cup During => worker'.at \in Before \cup During,
         worker'.at # "release", worker.at = "close" => worker'.at = "close",
         worker'.at = "finish" => worker.todo = {}
  PROVE  Tracked'
BY DEF Tracked, InHand

(* A step that records an outcome of the current item and goes on.         *)
LEMMA TrackedRecord ==
  ASSUME TInv, Tracked, UNCHANGED <<job, active>>, NEW status \in Final,
         active \in Job, worker.target \in Target, SetPowerItem(status),
         worker'.todo = worker.todo, worker.at \in Before \cup During,
         worker'.at \in {"item", "wait"}
  PROVE  Tracked'
<1>1. /\ item'[active][worker.target] = status
      /\ \A j \in Job, t \in Target :
           j # active \/ t # worker.target => item'[j][t] = item[j][t]
  BY DEF SetPowerItem, TInv, TypeOK
<1>2. \A j \in Job, t \in Target :
        item'[j][t] \in Open => active = j /\ t \in worker.todo
  BY <1>1 DEF Tracked, InHand, Final, Open, Before, During
<1> QED
  BY <1>2 DEF Tracked, InHand

(* And one that keeps the current item open.                               *)
LEMMA TrackedSubmit ==
  ASSUME TInv, Tracked, UNCHANGED <<job, active>>, NEW status,
         active \in Job, worker.target \in Target, SetPowerItem(status),
         worker'.todo = worker.todo, worker'.target = worker.target,
         worker.at \in Before \cup During, worker'.at \in Before \cup During
  PROVE  Tracked'
<1>1. \A j \in Job, t \in Target :
        j # active \/ t # worker.target => item'[j][t] = item[j][t]
  BY DEF SetPowerItem, TInv, TypeOK
<1>2. \A j \in Job, t \in Target :
        item'[j][t] \in Open => active = j /\ (t \in worker.todo \/ t = worker.target)
  BY <1>1 DEF Tracked, InHand, Before, During
<1> QED
  BY <1>2 DEF Tracked, InHand, Before, During

LEMMA ClosedIsNotOpen ==
  ASSUME NEW s \in ItemStatus
  PROVE  Closed(s) \notin Open
BY DEF ItemStatus, Closed, Open, Final

LEMMA FaultsOnlyGrow ==
  ASSUME TInv, Fine \/ Fault
  PROVE  faults' = 0 => faults = 0 /\ Fine
BY ConstantsAssumption DEF TInv, TypeOK, Fine, Fault

THEOREM TrackedStep == TInv /\ LInv /\ OInv /\ [Next]_vars => OInv'
<1> SUFFICES ASSUME TInv, LInv, OInv, [Next]_vars, Alive', faults' = 0
             PROVE  Tracked'
  BY DEF OInv
<1>0. /\ worker \in WorkerRecord /\ worker.todo \subseteq Target
      /\ worker.at # "idle" => active \in Job
      /\ worker.at \in Midway => worker.target \in Target
      /\ Alive /\ faults = 0 => Tracked
      /\ phase = "down" => worker.at = "idle"
      /\ worker.at = "idle" <=> active = NoJob
  BY WorkerFields DEF TInv, TypeOK, Worked, OInv
<1>1. CASE StartPowerBatch
  <2>1. PICK j \in Job, act \in Action, targets \in SUBSET Target : Enlist(j, act, targets)
    BY <1>1 DEF StartPowerBatch
  <2>2. Tracked /\ active = NoJob
    BY <1>0, <1>1 DEF StartPowerBatch, Alive
  <2>3. /\ worker'.at = "item" /\ worker'.todo = targets /\ active' = j
        /\ \A k \in Job : k # j => job'[k] = job[k] /\ item'[k] = item[k]
        /\ \A t \in Target : item'[j][t] = IF t \in targets THEN "queued" ELSE "none"
    BY <2>1 DEF Enlist, TInv, TypeOK, IdleWorker
  <2> QED
    BY <2>2, <2>3, ConstantsAssumption DEF Tracked, InHand, Open
<1>2. CASE NextItem
  <2>1. Fine /\ Tracked /\ worker.at = "item" /\ UNCHANGED <<job, active, phase>>
    <3>1. (Fine \/ Fault) /\ UNCHANGED <<job, active, phase>> /\ worker.at = "item"
      BY <1>2 DEF NextItem
    <3> QED
      BY <1>0, <3>1, FaultsOnlyGrow DEF Alive
  <2>2. CASE \/ Goto("finish") /\ worker.todo = {} /\ UNCHANGED item
             \/ Goto("close") /\ UNCHANGED item
    <3>1. SameWork /\ worker'.at \in {"finish", "close"} /\ (worker'.at = "finish" => worker.todo = {})
      BY <1>0, <2>2, GotoWork
    <3> QED
      BY <2>1, <2>2, <3>1, TrackedFrame DEF SameWork, Before, During
  <2>3. ASSUME NEW t \in worker.todo, Take(t) PROVE Tracked'
    <3>1. /\ worker'.at = "verdict" /\ worker'.target = t /\ worker'.todo = worker.todo \ {t}
          /\ t \in Target /\ active \in Job
      BY <1>0, <2>1, <2>3 DEF Take, WorkerRecord
    <3>2. \A k \in Job, u \in Target : k # active \/ u # t => item'[k][u] = item[k][u]
      BY <2>3, <3>1 DEF Take, TInv, TypeOK
    <3>3. \A k \in Job, u \in Target :
            item'[k][u] \in Open => active = k /\ (u \in worker'.todo \/ u = t)
      BY <2>1, <3>1, <3>2 DEF Tracked, InHand, Before, During
    <3> QED
      BY <2>1, <3>1, <3>3 DEF Tracked, InHand, Before
  <2> QED
    BY <1>2, <2>1, <2>2, <2>3 DEF NextItem, Fine, Fault
<1>3. CASE Verdict \/ Snapshot \/ PlaceHold
  <2>1. /\ worker.at \in {"verdict", "snapshot", "hold"} /\ UNCHANGED <<job, active, phase>>
        /\ active \in Job /\ worker.target \in Target
    BY <1>0, <1>3 DEF Verdict, Snapshot, PlaceHold, Midway
  <2>2. \/ \E l : Skip(l)
        \/ /\ UNCHANGED <<item, faults>> /\ SameWork
           /\ worker'.at \in {"snapshot", "hold", "stop"}
    <3>1. CASE Verdict
      <4>1. PICK l : \/ Skip(l)
                     \/ /\ worker' = [worker EXCEPT !.at = "snapshot", !.listed = l]
                        /\ UNCHANGED <<item, faults>>
        BY <3>1, Zenon DEF Verdict
      <4> QED
        BY <1>0, <4>1 DEF WorkerRecord, SameWork
    <3>2. CASE Snapshot \/ PlaceHold
      BY <1>0, <3>2 DEF Snapshot, PlaceHold, WorkerRecord, SameWork
    <3> QED
      BY <1>3, <3>1, <3>2
  <2>3. CASE \E l : Skip(l)
    <3>1. PICK l : Skip(l)
      BY <2>3
    <3>2. worker'.at = "item" /\ SameWork
      BY <1>0, <3>1 DEF Skip, WorkerRecord, SameWork
    <3>3. Tracked /\ SetPowerItem("failed")
      <4>1. (SetPowerItem("failed") /\ Fine) \/ Fault
        BY <3>1 DEF Skip
      <4>2. SetPowerItem("failed") /\ faults = 0
        BY <4>1, FaultsOnlyGrow, ConstantsAssumption DEF Fault, Fine, TInv, TypeOK
      <4> QED
        BY <1>0, <2>1, <4>2 DEF Alive
    <3> QED
      BY <2>1, <3>2, <3>3, TrackedRecord DEF SameWork, Final, Before
  <2>4. CASE /\ UNCHANGED <<item, faults>> /\ SameWork
             /\ worker'.at \in {"snapshot", "hold", "stop"}
    BY <1>0, <2>1, <2>4, TrackedFrame DEF SameWork, Before, Alive
  <2> QED
    BY <2>2, <2>3, <2>4
<1>4. CASE StopSessions \/ Operate \/ Wait
  <2>1. /\ UNCHANGED <<job, active, phase, item, faults>> /\ SameWork
        /\ \/ worker.at \in {"stop", "operate"} /\ worker'.at \in {"submit", "answer"}
           \/ worker.at = "wait" /\ worker'.at \in {"item", "close"}
    BY <1>0, <1>4, GotoWork DEF StopSessions, Operate, Wait
  <2> QED
    BY <1>0, <2>1, TrackedFrame DEF SameWork, Before, During, Alive
<1>5. CASE Submit
  <2>1. /\ worker.at = "submit" /\ UNCHANGED <<job, active, phase>>
        /\ active \in Job /\ worker.target \in Target /\ (Fine \/ Fault)
    BY <1>0, <1>5 DEF Submit, Midway
  <2>2. Fine /\ Tracked
    BY <1>0, <2>1, FaultsOnlyGrow DEF Alive
  <2>3. SetPowerItem("submitting") /\ Goto("operate")
    BY <1>5, <2>2, FaultsOnlyGrow DEF Submit, Fine, Fault
  <2>4. SameWork /\ worker'.at = "operate"
    BY <1>0, <2>3, GotoWork
  <2> QED
    BY <2>1, <2>2, <2>3, <2>4, TrackedSubmit DEF SameWork, Before, During
<1>6. CASE Answer
  <2>1. /\ worker.at = "answer" /\ UNCHANGED <<job, active, item, phase>> /\ (Fine \/ Fault)
        /\ SameWork /\ worker'.at = "record"
    BY <1>0, <1>6 DEF Answer, WorkerRecord, SameWork
  <2> QED
    BY <1>0, <2>1, FaultsOnlyGrow, TrackedFrame DEF SameWork, Before, During, Alive
<1>7. CASE Record
  <2>1. /\ worker.at = "record" /\ UNCHANGED <<job, active, phase>>
        /\ active \in Job /\ worker.target \in Target /\ (Fine \/ Fault)
    BY <1>0, <1>7 DEF Record, Midway
  <2>2. Fine /\ Tracked
    BY <1>0, <2>1, FaultsOnlyGrow DEF Alive
  <2>3. SetPowerItem(StatusOf(worker.outcome)) /\ Leave("wait")
    BY <1>7, <2>2 DEF Record, Fine, Fault
  <2>4. SameWork /\ worker'.at = "wait"
    BY <1>0, <2>3, LeaveWork
  <2>5. StatusOf(worker.outcome) \in Final
    BY StatusTypes DEF Final
  <2> QED
    BY <2>1, <2>2, <2>3, <2>4, <2>5, TrackedRecord DEF SameWork, During
<1>8. CASE Finish
  <2>1. /\ worker.at = "finish" /\ UNCHANGED <<item, active, phase>> /\ (Fine \/ Fault)
        /\ active \in Job
    BY <1>0, <1>8 DEF Finish
  <2>2. Fine /\ Tracked
    BY <1>0, <2>1, FaultsOnlyGrow DEF Alive
  <2>3. job' = [job EXCEPT ![active].status = "finished"] /\ Goto("release")
    BY <1>8, <2>2 DEF Finish, Fine, Fault
  <2>4. worker'.at = "release"
    BY <1>0, <2>3, GotoWork
  <2>5. /\ job'[active].status = "finished"
        /\ \A j \in Job : j # active => job'[j] = job[j]
    BY <2>1, <2>3 DEF TInv, TypeOK, JobRecord
  <2>6. \A j \in Job, t \in Target : item[j][t] \notin Open
    BY <2>1, <2>2 DEF Tracked, InHand, Before, During
  <2> QED
    BY <2>1, <2>2, <2>4, <2>5, <2>6 DEF Tracked
<1>9. CASE CloseJob
  <2>1. PICK lost \in SUBSET {"queue", "submit", "job"} :
          /\ faults' = faults + Cardinality(lost)
          /\ item' = [item EXCEPT ![active] =
               Close(@, (IF "queue" \in lost THEN {"queued", "validating"} ELSE {})
                        \cup (IF "submit" \in lost THEN {"submitting"} ELSE {}))]
          /\ IF "job" \in lost THEN UNCHANGED job
             ELSE job' = [job EXCEPT ![active].status = "interrupted"]
    BY <1>9, Zenon DEF CloseJob
  <2>2. lost = {} /\ faults = 0
    <3>2. IsFiniteSet(lost) /\ Cardinality(lost) \in Nat
      BY Statements, FS_Subset, FS_CardinalityType
    <3>3. faults \in Nat
      BY ConstantsAssumption DEF TInv, TypeOK
    <3>4. Cardinality(lost) = 0 /\ faults = 0
      BY <2>1, <3>2, <3>3
    <3> QED
      BY <3>2, <3>4, FS_EmptySet
  <2>3. Tracked /\ active \in Job /\ UNCHANGED <<active, phase>> /\ worker'.at = "release"
    BY <1>0, <1>9, <2>2, GotoWork DEF CloseJob, Alive
  <2>4. item' = [item EXCEPT ![active] = Close(@, {})]
        /\ job' = [job EXCEPT ![active].status = "interrupted"]
    BY <2>1, <2>2
  <2>5. /\ \A t \in Target : item'[active][t] = Closed(item[active][t])
        /\ \A j \in Job : j # active => item'[j] = item[j] /\ job'[j] = job[j]
        /\ job'[active].status = "interrupted"
    BY <2>3, <2>4 DEF Close, TInv, TypeOK, JobRecord
  <2>6. \A t \in Target : item'[active][t] \notin Open
    BY <2>3, <2>5, ClosedIsNotOpen DEF TInv, TypeOK
  <2> QED
    BY <2>3, <2>5, <2>6 DEF Tracked
<1>10. CASE Release
  <2>1. /\ worker.at = "release" /\ UNCHANGED <<job, item, phase, faults>>
        /\ worker'.at = "idle"
    BY <1>10, IdleWorkerType DEF Release
  <2>2. Tracked
    BY <1>0, <2>1 DEF Alive
  <2>3. /\ \A j \in Job : job[j].status # "running"
        /\ \A j \in Job, t \in Target : item[j][t] \notin Open
    BY <2>1, <2>2 DEF Tracked, InHand, Before, During
  <2> QED
    BY <2>1, <2>3 DEF Tracked
<1>11. CASE Close_Return \/ Crash
  BY <1>11 DEF Close_Return, Crash, Gone, Alive
<1>12. CASE Restart
  <2>1. phase = "down" /\ worker.at = "idle" /\ UNCHANGED worker
    BY <1>0, <1>12 DEF Restart
  <2>2. /\ item' = [j \in Job |-> Close(item[j], {})]
        /\ job' = [j \in Job |-> IF job[j].status = "running"
                                 THEN [job[j] EXCEPT !.status = "interrupted"]
                                 ELSE job[j]]
    BY <1>12, ConstantsAssumption DEF Restart, Fault, TInv, TypeOK
  <2>3. \A j \in Job : job'[j].status # "running"
    BY <2>2 DEF TInv, TypeOK, JobRecord
  <2>4. \A j \in Job, t \in Target : item'[j][t] \notin Open
    <3>1. \A j \in Job, t \in Target : item'[j][t] = Closed(item[j][t]) /\ item[j][t] \in ItemStatus
      BY <2>2 DEF Close, TInv, TypeOK
    <3> QED
      BY <3>1, ClosedIsNotOpen
  <2> QED
    BY <2>1, <2>3, <2>4 DEF Tracked
<1>13. CASE \/ ResetChanged \/ HoldLapses \/ ExpiryNext \/ Close_Cancel \/ Close_Closing
            \/ UNCHANGED vars
            \/ \E t \in Target : OpenBrowser(t) \/ RenewBrowser(t) \/ ResumeBrowser(t) \/ ResumeDesktop(t)
            \/ \E a \in Account : KeepaliveStep(a)
  <2>1. UNCHANGED <<item, active, job>>
    BY <1>13 DEF ResetChanged, HoldLapses, ExpiryNext, ExpiryTick, ExpirySelect, ExpiryDelete,
                 ExpiryReset, Close_Cancel, Close_Closing, vars, OpenBrowser, RenewBrowser,
                 ResumeBrowser, ResumeDesktop, KeepaliveStep, Others
  <2>2. worker' = worker \/ worker' = [worker EXCEPT !.prev = Lapsed(@)]
    BY <1>13 DEF ResetChanged, HoldLapses, ExpiryNext, ExpiryTick, ExpirySelect, ExpiryDelete,
                 ExpiryReset, Close_Cancel, Close_Closing, vars, OpenBrowser, RenewBrowser,
                 ResumeBrowser, ResumeDesktop, KeepaliveStep, Others
  <2>3. SameWork /\ worker'.at = worker.at
    BY <1>0, <2>2 DEF WorkerRecord, SameWork
  <2>4. Alive /\ (UNCHANGED faults \/ Fault)
    BY <1>13 DEF ResetChanged, HoldLapses, ExpiryNext, ExpiryTick, ExpirySelect, ExpiryDelete,
                 ExpiryReset, Close_Cancel, Close_Closing, vars, OpenBrowser, RenewBrowser,
                 ResumeBrowser, ResumeDesktop, KeepaliveStep, Others, Fine, Alive
  <2>5. Tracked
    BY <1>0, <2>4, FaultsOnlyGrow DEF Fine
  <2> QED
    BY <2>1, <2>3, <2>5 DEF Tracked, InHand, SameWork
<1> QED
  BY <1>1, <1>2, <1>3, <1>4, <1>5, <1>6, <1>7, <1>8, <1>9, <1>10, <1>11, <1>12, <1>13
     DEF Next, WorkerNext

(* While the store does not fail, nothing is left open that no batch would *)
(* close.                                                                  *)
THEOREM NothingIsLeftOpen == Spec => []OpenItemsAreTracked
<1>1. OInv => OpenItemsAreTracked
  BY DEF OInv, Tracked, InHand, OpenItemsAreTracked
<1> QED
  BY <1>1, TypeInit, TypeStep, LedgerInit, LedgerStep, TrackedInit, TrackedStep, PTL DEF Spec
-----------------------------------------------------------------------------
(* Layer 7: the ledger.  A batch that is not over has its job running and  *)
(* its waiting items on the worker's list, and no item is out but the one  *)
(* the worker has sent.                                                    *)

Over == {"idle", "release"}
Turn ==
  worker.at \notin Over =>
    /\ job[active].status = "running"
    /\ \A t \in Target : item[active][t] = "queued" => t \in worker.todo
    /\ worker.at = "finish" => worker.todo = {}
    /\ worker.at # "close" => \A t \in Target :
         item[active][t] = "submitting" => worker.at \in During /\ t = worker.target

Follows == Turn' /\ [Ledger!Next]_(Ledger!vars)

LEMMA TurnInit == Init => Turn /\ Ledger!Init
BY IdleWorkerType DEF Init, Turn, Over, Ledger!Init, FreeJob, Alive

(* A step the ledger does not see.                                         *)
LEMMA TurnFrame ==
  ASSUME Turn, UNCHANGED <<job, item, sent, active>>, Alive' = Alive, SameWork,
         worker'.at \in Over \/ worker.at \notin Over,
         worker.at = "close" => worker'.at \in {"close", "release"},
         worker.at \in During => worker'.at \in During \cup {"close"},
         worker'.at = "finish" => worker.todo = {}
  PROVE  Follows
<1>1. Turn'
  BY DEF Turn, SameWork, Over, During
<1>2. UNCHANGED Ledger!vars
  BY DEF Ledger!vars
<1> QED
  BY <1>1, <1>2 DEF Follows

(* A step that gives the current item a new status.                        *)
LEMMA TurnRecord ==
  ASSUME TInv, Turn, NEW t \in Target, NEW status, active \in Job,
         item' = [item EXCEPT ![active][t] = status],
         UNCHANGED <<job, active>>, worker.at \notin Over,
         worker.at \notin {"close", "finish"}, worker'.at \notin {"finish", "close"},
         worker'.at \notin Over, status # "queued",
         worker.todo \ {t} \subseteq worker'.todo,
         \A u \in Target : item'[active][u] = "submitting" =>
            worker'.at \in During /\ u = worker'.target
  PROVE  Turn'
<1>1. /\ item'[active][t] = status
      /\ \A u \in Target : u # t => item'[active][u] = item[active][u]
  BY DEF TInv, TypeOK
<1> QED
  BY <1>1 DEF Turn

LEMMA RowStep ==
  ASSUME TInv, NEW t \in Target, NEW from, NEW to, active \in Job, active # NoJob,
         item[active][t] = from, item' = [item EXCEPT ![active][t] = to],
         UNCHANGED <<job, sent, active, phase>>
  PROVE  Ledger!Row(t, from, to)
BY DEF Ledger!Row, Alive

LEMMA SkipFollows ==
  ASSUME TInv, LInv, Turn, worker.at \in Before, NEW l, Skip(l),
         UNCHANGED <<job, active, sent, phase>>
  PROVE  Follows
<1>0. /\ active \in Job /\ active # NoJob /\ worker.target \in Target
      /\ worker \in WorkerRecord
  BY ConstantsAssumption DEF TInv, Worked, TypeOK, Midway, Before
<1>1. worker'.at = "item" /\ SameWork
  BY <1>0 DEF Skip, WorkerRecord, SameWork
<1>2. CASE UNCHANGED item
  BY <1>1, <1>2, TurnFrame DEF Before, During, Over, Alive
<1>3. CASE SetPowerItem("failed")
  <2>1. item' = [item EXCEPT ![active][worker.target] = "failed"]
    BY <1>3 DEF SetPowerItem
  <2>2. item[active][worker.target] = "validating"
    BY DEF LInv, Current
  <2>3. Ledger!Reject(worker.target)
    BY <1>0, <2>1, <2>2, RowStep DEF Ledger!Reject
  <2>4. \A u \in Target : item'[active][u] # "submitting"
    BY <1>0, <2>1 DEF Turn, Before, During, Over, TInv, TypeOK
  <2>5. Turn'
    BY <1>0, <1>1, <2>1, <2>4, TurnRecord DEF Before, Over, SameWork
  <2> QED
    BY <1>0, <2>3, <2>5 DEF Follows, Ledger!Next
<1> QED
  BY <1>2, <1>3 DEF Skip

LEMMA ClosedAlike ==
  ASSUME NEW s \in ItemStatus
  PROVE  /\ s \notin Open => Closed(s) = s
         /\ s \in Open => Closed(s) = Ledger!Closed(s)
         /\ Closed(s) \notin Open
BY DEF ItemStatus, Open, Final, Closed, Ledger!Closed

THEOREM LedgerFollows ==
  TInv /\ LInv /\ Turn /\ [Next]_vars => Follows
<1> SUFFICES ASSUME TInv, LInv, Turn, [Next]_vars PROVE Follows
  OBVIOUS
<1>0. /\ worker \in WorkerRecord /\ worker.todo \subseteq Target
      /\ worker.at # "idle" => active \in Job /\ active # NoJob /\ Alive
      /\ worker.at \in Midway => worker.target \in Target
  BY WorkerFields, ConstantsAssumption DEF TInv, TypeOK, Worked, Alive
<1>1. CASE StartPowerBatch
  <2>1. PICK j \in Job, act \in Action, targets \in SUBSET Target : Enlist(j, act, targets)
    BY <1>1 DEF StartPowerBatch
  <2>2. /\ worker'.at = "item" /\ worker'.todo = targets /\ active' = j
        /\ UNCHANGED <<sent, phase>> /\ Alive /\ active = NoJob
    BY <1>1, <2>1 DEF Enlist, IdleWorker, StartPowerBatch, Alive
  <2>3. /\ job'[j].status = "running"
        /\ \A t \in Target : item'[j][t] = IF t \in targets THEN "queued" ELSE "none"
    BY <2>1 DEF Enlist, TInv, TypeOK
  <2>4. Turn'
    BY <2>2, <2>3 DEF Turn, Over
  <2>5. Ledger!Start(j)
    <3>1. /\ job[j].status = "none"
          /\ job' = [job EXCEPT ![j] = [action |-> act, status |-> "running"]]
          /\ act \in Action
      BY <2>1 DEF Enlist, FreeJob
    <3>2. /\ targets \in (SUBSET Target) \ {{}}
          /\ item' = [item EXCEPT ![j] =
               [t \in Target |-> IF t \in targets THEN "queued" ELSE "none"]]
      BY <2>1 DEF Enlist
    <3>3. \E action \in Action :
            job' = [job EXCEPT ![j] = [action |-> action, status |-> "running"]]
      BY <3>1
    <3>4. \E some \in (SUBSET Target) \ {{}} :
            item' = [item EXCEPT ![j] =
               [t \in Target |-> IF t \in some THEN "queued" ELSE "none"]]
      BY <3>2
    <3> QED
      BY <2>2, <3>1, <3>3, <3>4 DEF Ledger!Start, Alive
  <2> QED
    BY <2>4, <2>5 DEF Follows, Ledger!Next
<1>2. CASE NextItem
  <2>0. worker.at = "item" /\ UNCHANGED <<job, active, sent, phase>>
    BY <1>2 DEF NextItem
  <2>1. CASE /\ (Goto("finish") /\ worker.todo = {}) \/ Goto("close")
             /\ UNCHANGED item
    <3>1. /\ SameWork /\ worker'.at \in {"finish", "close"}
          /\ worker'.at = "finish" => worker.todo = {}
      BY <1>0, <2>1, GotoWork
    <3> QED
      BY <2>0, <2>1, <3>1, TurnFrame DEF Over, During, Alive
  <2>2. ASSUME NEW t \in worker.todo, Take(t) PROVE Follows
    <3>1. /\ worker'.at = "verdict" /\ worker'.todo = worker.todo \ {t}
          /\ t \in Target /\ active \in Job /\ active # NoJob
          /\ item' = [item EXCEPT ![active][t] = "validating"]
      BY <1>0, <2>0, <2>2 DEF Take, WorkerRecord
    <3>2. item[active][t] = "queued"
      BY <2>0, <3>1 DEF LInv, TodoIsQueued
    <3>3. /\ \A u \in Target : item[active][u] # "submitting"
          /\ \A u \in Target : item'[active][u] # "submitting"
      BY <2>0, <3>1 DEF Turn, Over, During, TInv, TypeOK
    <3>4. Ledger!Validate(t)
      BY <2>0, <3>1, <3>2, <3>3, RowStep DEF Ledger!Validate
    <3>5. Turn'
      BY <2>0, <3>1, <3>3, TurnRecord DEF Over
    <3> QED
      BY <3>1, <3>4, <3>5 DEF Follows, Ledger!Next
  <2> QED
    BY <1>2, <2>1, <2>2 DEF NextItem
<1>3. CASE Verdict
  <2>1. worker.at \in Before /\ worker.at = "verdict" /\ UNCHANGED <<job, active, sent, phase>>
    BY <1>3 DEF Verdict, Before
  <2>2. PICK l : \/ Skip(l)
                 \/ /\ worker' = [worker EXCEPT !.at = "snapshot", !.listed = l]
                    /\ UNCHANGED <<item, faults>>
    BY <1>3, Zenon DEF Verdict
  <2>3. CASE Skip(l)
    BY <2>1, <2>3, SkipFollows
  <2>4. CASE /\ worker' = [worker EXCEPT !.at = "snapshot", !.listed = l]
             /\ UNCHANGED <<item, faults>>
    <3>1. SameWork /\ worker'.at = "snapshot"
      BY <1>0, <2>4 DEF WorkerRecord, SameWork
    <3> QED
      BY <2>1, <2>4, <3>1, TurnFrame DEF Over, During, Alive
  <2> QED
    BY <2>2, <2>3, <2>4
<1>4. CASE Snapshot \/ PlaceHold
  <2>1. worker.at \in {"snapshot", "hold"} /\ UNCHANGED <<job, active, sent, phase>>
    BY <1>4 DEF Snapshot, PlaceHold
  <2>2. CASE Skip(worker.listed)
    BY <2>1, <2>2, SkipFollows DEF Before
  <2>3. CASE UNCHANGED item /\ ~Skip(worker.listed)
    <3>1. SameWork /\ worker'.at \in {"hold", "stop"}
      BY <1>0, <1>4, <2>3 DEF Snapshot, PlaceHold, WorkerRecord, SameWork
    <3> QED
      BY <2>1, <2>3, <3>1, TurnFrame DEF Over, During, Alive
  <2> QED
    BY <1>4, <2>2, <2>3 DEF Snapshot, PlaceHold
<1>5. CASE StopSessions \/ Wait
  <2>1. /\ SameWork /\ worker'.at \in {"submit", "item", "close"}
        /\ worker.at \in {"stop", "wait"}
        /\ UNCHANGED <<job, item, sent, active, phase>>
    BY <1>0, <1>5, GotoWork DEF StopSessions, Wait
  <2> QED
    BY <2>1, TurnFrame DEF Over, During, Alive
<1>6. CASE Submit
  <2>1. /\ worker.at = "submit" /\ UNCHANGED <<job, active, sent, phase>>
        /\ active \in Job /\ active # NoJob /\ worker.target \in Target
    BY <1>0, <1>6 DEF Submit, Midway
  <2>2. CASE SetPowerItem("submitting") /\ Goto("operate")
    <3>1. SameWork /\ worker'.at = "operate"
      BY <1>0, <2>2, GotoWork
    <3>2. item' = [item EXCEPT ![active][worker.target] = "submitting"]
      BY <2>2 DEF SetPowerItem
    <3>3. item[active][worker.target] = "validating"
      BY <2>1 DEF LInv, Current, Before
    <3>4. Ledger!Submit(worker.target)
      BY <2>1, <3>2, <3>3, RowStep DEF Ledger!Submit
    <3>5. \A u \in Target : item'[active][u] = "submitting" => u = worker.target
      BY <2>1, <3>2 DEF Turn, Over, During, TInv, TypeOK
    <3>6. Turn'
      BY <2>1, <3>1, <3>2, <3>5, TurnRecord DEF Over, During, SameWork
    <3> QED
      BY <2>1, <3>4, <3>6 DEF Follows, Ledger!Next
  <2>3. CASE UNCHANGED item /\ Goto("close")
    <3>1. SameWork /\ worker'.at = "close"
      BY <1>0, <2>3, GotoWork
    <3> QED
      BY <2>1, <2>3, <3>1, TurnFrame DEF Over, During, Alive
  <2> QED
    BY <1>6, <2>2, <2>3 DEF Submit
<1>7. CASE Operate
  <2>1. /\ worker.at = "operate" /\ UNCHANGED <<job, active, item, phase>>
        /\ active \in Job /\ active # NoJob /\ worker.target \in Target
        /\ SameWork /\ worker'.at = "answer"
    BY <1>0, <1>7, GotoWork DEF Operate, Midway
  <2>2. CASE UNCHANGED sent
    BY <2>1, <2>2, TurnFrame DEF Over, During, Alive
  <2>3. CASE sent' = [sent EXCEPT ![active][worker.target] = @ + 1]
    <3>1. item[active][worker.target] = "submitting" /\ sent[active][worker.target] = 0
      BY <2>1 DEF LInv, Current, During
    <3>2. sent' = [sent EXCEPT ![active][worker.target] = 1]
      BY <2>1, <2>3, <3>1 DEF TInv, TypeOK
    <3>3. Ledger!Deliver(worker.target)
      BY <2>1, <3>1, <3>2 DEF Ledger!Deliver, Alive
    <3>4. Turn'
      BY <2>1 DEF Turn, Over, During, SameWork
    <3> QED
      BY <2>1, <3>3, <3>4 DEF Follows, Ledger!Next
  <2> QED
    BY <1>7, <2>2, <2>3 DEF Operate
<1>8. CASE Answer
  <2>1. worker.at = "answer" /\ UNCHANGED <<job, active, item, sent, phase>>
    BY <1>8 DEF Answer
  <2>2. PICK o : worker' = [worker EXCEPT !.at = "record", !.outcome = o]
    BY <1>8 DEF Answer
  <2>3. SameWork /\ worker'.at = "record"
    BY <1>0, <2>2 DEF WorkerRecord, SameWork
  <2> QED
    BY <2>1, <2>3, TurnFrame DEF Over, During, Alive
<1>9. CASE Record
  <2>1. /\ worker.at = "record" /\ UNCHANGED <<job, active, sent, phase>>
        /\ active \in Job /\ active # NoJob /\ worker.target \in Target
    BY <1>0, <1>9 DEF Record, Midway
  <2>2. CASE SetPowerItem(StatusOf(worker.outcome)) /\ Leave("wait")
    <3>1. SameWork /\ worker'.at = "wait"
      BY <1>0, <2>2, LeaveWork
    <3> DEFINE status == StatusOf(worker.outcome)
    <3>2. item' = [item EXCEPT ![active][worker.target] = status]
      BY <2>2 DEF SetPowerItem
    <3>3. /\ item[active][worker.target] = "submitting"
          /\ worker.outcome = "accepted" => sent[active][worker.target] = 1
      BY <2>1 DEF LInv, Current, During
    <3>4. /\ status \in {"accepted", "failed", "unknown"}
          /\ status = "accepted" => worker.outcome = "accepted"
      BY DEF StatusOf
    <3> HIDE DEF status
    <3>5. Ledger!Row(worker.target, "submitting", status)
      BY <2>1, <3>2, <3>3, RowStep
    <3>6. Ledger!Answer(worker.target)
      BY <3>3, <3>4, <3>5 DEF Ledger!Answer
    <3>7. \A u \in Target : item'[active][u] # "submitting"
      BY <2>1, <3>2, <3>4 DEF Turn, Over, During, TInv, TypeOK
    <3>8. Turn'
      BY <2>1, <3>1, <3>2, <3>4, <3>7, TurnRecord DEF Over, SameWork
    <3> QED
      BY <2>1, <3>6, <3>8 DEF Follows, Ledger!Next
  <2>3. CASE UNCHANGED item /\ Leave("close")
    <3>1. SameWork /\ worker'.at = "close"
      BY <1>0, <2>3, LeaveWork
    <3> QED
      BY <2>1, <2>3, <3>1, TurnFrame DEF Over, During, Alive
  <2> QED
    BY <1>9, <2>2, <2>3 DEF Record
<1>10. CASE Finish
  <2>1. /\ worker.at = "finish" /\ UNCHANGED <<item, active, sent, phase>>
        /\ active \in Job /\ active # NoJob
    BY <1>0, <1>10 DEF Finish
  <2>2. CASE UNCHANGED job /\ Goto("close")
    <3>1. SameWork /\ worker'.at = "close"
      BY <1>0, <2>2, GotoWork
    <3> QED
      BY <2>1, <2>2, <3>1, TurnFrame DEF Over, During, Alive
  <2>3. CASE job' = [job EXCEPT ![active].status = "finished"] /\ Goto("release")
    <3>1. worker'.at = "release"
      BY <1>0, <2>3, GotoWork
    <3>2. Ledger!Finish
      BY <2>1, <2>3 DEF Turn, Over, During, Ledger!Finish, Ledger!Busy, Ledger!Mark, Alive
    <3> QED
      BY <3>1, <3>2 DEF Follows, Ledger!Next, Turn, Over
  <2> QED
    BY <1>10, <2>2, <2>3 DEF Finish
<1>11. CASE CloseJob
  <2>1. /\ worker.at = "close" /\ worker'.at = "release" /\ UNCHANGED <<sent, active, phase>>
        /\ active \in Job /\ active # NoJob
    BY <1>0, <1>11, GotoWork DEF CloseJob
  <2>2. PICK lost \in SUBSET {"queue", "submit", "job"} :
          item' = [item EXCEPT ![active] =
            Close(@, (IF "queue" \in lost THEN {"queued", "validating"} ELSE {})
                     \cup (IF "submit" \in lost THEN {"submitting"} ELSE {}))]
    BY <1>11, Zenon DEF CloseJob
  <2> DEFINE open == (IF "queue" \in lost THEN {"queued", "validating"} ELSE {})
                     \cup (IF "submit" \in lost THEN {"submitting"} ELSE {})
  <2>3. open \in SUBSET {"queued", "validating", "submitting"}
    OBVIOUS
  <2>4. Close(item[active], open) = Ledger!Close(active, open)
    <3>1. \A t \in Target : item[active][t] \in ItemStatus
      BY <2>1 DEF TInv, TypeOK
    <3> HIDE DEF open
    <3> QED
      BY <3>1, ClosedAlike DEF Close, Ledger!Close, Open
  <2>5. item' = [item EXCEPT ![active] = Ledger!Close(active, open)]
    BY <2>1, <2>2, <2>4 DEF TInv, TypeOK
  <2>6. UNCHANGED job \/ job' = [job EXCEPT ![active].status = "interrupted"]
    BY <1>11, Zenon DEF CloseJob
  <2> HIDE DEF open
  <2>7. Ledger!Interrupt
    BY <2>1, <2>3, <2>5, <2>6 DEF Turn, Over, Ledger!Interrupt, Ledger!Busy, Ledger!Mark, Alive
  <2> QED
    BY <2>1, <2>7 DEF Follows, Ledger!Next, Turn, Over
<1>12. CASE Release
  <2>1. worker'.at = "idle" /\ active # NoJob
    BY <1>0, <1>12, IdleWorkerType DEF Release
  <2>2. Ledger!End
    BY <1>12, <2>1 DEF Release, Ledger!End, Alive
  <2> QED
    BY <2>1, <2>2 DEF Follows, Ledger!Next, Turn, Over
<1>13. CASE Close_Return \/ Crash
  <2>1. Gone /\ Alive
    BY <1>13 DEF Close_Return, Crash, Alive
  <2>2. worker'.at = "idle"
    BY <2>1, IdleWorkerType DEF Gone
  <2>3. Ledger!Die
    BY <2>1 DEF Gone, Ledger!Die, Alive
  <2> QED
    BY <2>2, <2>3 DEF Follows, Ledger!Next, Turn, Over
<1>14. CASE Restart
  <2>1. worker'.at = "idle" /\ ~Alive /\ Alive' /\ UNCHANGED <<sent, active>>
    BY <1>14 DEF Restart, Alive, TInv, Worked
  <2>2. CASE UNCHANGED <<item, job>>
    <3>1. Ledger!Recover
      BY <2>1, <2>2 DEF Ledger!Recover
    <3> QED
      BY <2>1, <3>1 DEF Follows, Ledger!Next, Turn, Over
  <2>3. CASE /\ item' = [j \in Job |-> Close(item[j], {})]
             /\ job' = [j \in Job |-> IF job[j].status = "running"
                                      THEN [job[j] EXCEPT !.status = "interrupted"]
                                      ELSE job[j]]
    <3>1. ASSUME NEW j \in Job PROVE Close(item[j], {}) = Ledger!Close(j, {})
      <4>1. \A t \in Target : item[j][t] \in ItemStatus
        BY DEF TInv, TypeOK
      <4> QED
        BY <4>1, ClosedAlike DEF Close, Ledger!Close, Open
    <3>2. item' = [j \in Job |-> Ledger!Close(j, {})]
      BY <2>3, <3>1
    <3>3. Ledger!Recover
      BY <2>1, <2>3, <3>2 DEF Ledger!Recover
    <3> QED
      BY <2>1, <3>3 DEF Follows, Ledger!Next, Turn, Over
  <2> QED
    BY <1>14, <2>2, <2>3 DEF Restart
<1>15. CASE \/ ResetChanged \/ HoldLapses \/ ExpiryNext \/ Close_Cancel \/ Close_Closing
            \/ UNCHANGED vars
            \/ \E t \in Target : OpenBrowser(t) \/ RenewBrowser(t) \/ ResumeBrowser(t) \/ ResumeDesktop(t)
            \/ \E a \in Account : KeepaliveStep(a)
  <2>1. UNCHANGED <<item, sent, active, job>> /\ Alive' = Alive
    BY <1>15 DEF ResetChanged, HoldLapses, ExpiryNext, ExpiryTick, ExpirySelect, ExpiryDelete,
                 ExpiryReset, Close_Cancel, Close_Closing, vars, OpenBrowser, RenewBrowser,
                 ResumeBrowser, ResumeDesktop, KeepaliveStep, Others, Alive
  <2>2. worker' = worker \/ worker' = [worker EXCEPT !.prev = Lapsed(@)]
    BY <1>15 DEF ResetChanged, HoldLapses, ExpiryNext, ExpiryTick, ExpirySelect, ExpiryDelete,
                 ExpiryReset, Close_Cancel, Close_Closing, vars, OpenBrowser, RenewBrowser,
                 ResumeBrowser, ResumeDesktop, KeepaliveStep, Others
  <2>3. SameWork /\ worker'.at = worker.at
    BY <1>0, <2>2 DEF WorkerRecord, SameWork
  <2>4. worker'.at = "finish" /\ worker.at \notin Over => worker.todo = {}
    BY <2>3 DEF Turn
  <2> QED
    BY <2>1, <2>3, <2>4, TurnFrame DEF Over
<1> QED
  BY <1>1, <1>2, <1>3, <1>4, <1>5, <1>6, <1>7, <1>8, <1>9, <1>10, <1>11, <1>12, <1>13,
     <1>14, <1>15
     DEF Next, WorkerNext

(* Whatever meets a batch - holds, sessions, failing statements, a crash - *)
(* what its history shows is a run of the ledger.                          *)
THEOREM BatchImplementsLedger == Spec => ImplementsLedger
  BY TypeInit, TypeStep, LedgerInit, LedgerStep, TurnInit, LedgerFollows, PTL
     DEF Spec, ImplementsLedger, Ledger!Spec, Follows
-----------------------------------------------------------------------------
(* Layer 8: a step of the clock, the expiry, a page or a restart.          *)

(* No automatic step lifts the hold of a shutdown.                         *)
THEOREM ShutdownsStay == Spec => ShutdownStays
<1>1. ASSUME TInv, AutomaticStep, NEW t \in Target, hold[t] = ShutdownHold
      PROVE  hold'[t] = ShutdownHold
  <2>1. hold \in [Target -> Hold] /\ hold[t].until = "forever" /\ hold[t].reason = "shutdown"
    BY <1>1 DEF TInv, TypeOK, ShutdownHold
  <2>2. CASE HoldLapses
    BY <1>1, <2>1, <2>2 DEF HoldLapses
  <2>3. CASE ExpiryNext
    BY <1>1, <2>1, <2>3 DEF ExpiryNext, ExpiryTick, ExpirySelect, ExpiryDelete, ExpiryReset, Past
  <2>4. CASE Crash \/ Restart
    BY <1>1, <2>4 DEF Crash, Gone, Restart
  <2>5. CASE \E u \in Target : RenewBrowser(u) \/ ResumeBrowser(u)
    BY <1>1, <2>1, <2>5 DEF RenewBrowser, ResumeBrowser
  <2> QED
    BY <1>1, <2>2, <2>3, <2>4, <2>5 DEF AutomaticStep
<1>2. TInv /\ [Next]_vars =>
        [AutomaticStep => \A t \in Target : hold[t] = ShutdownHold => hold'[t] = ShutdownHold]_vars
  BY <1>1
<1> QED
  BY <1>2, TypeInit, TypeStep, PTL DEF Spec, ShutdownStays
=============================================================================
