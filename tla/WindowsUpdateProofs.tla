------------------------- MODULE WindowsUpdateProofs -------------------------
(***************************************************************************)
(* The invariants of the update on Windows, for every number of versions,  *)
(* updates, failing steps and stops.                                       *)
(*                                                                         *)
(* Who holds the lock, which request is under way and what the transaction *)
(* says follow the step of the helper (Locks, Asked, Marked), whoever else *)
(* starts programs meanwhile.  What the properties say of the files and    *)
(* of the database needs a helper left alone at its work (patient): where  *)
(* the program is (Where), on what it runs (Fits), what is prepared and    *)
(* replaced (Prepares, Distinct, Replaces), that what a recovery would     *)
(* take up can be put back as it was (Restorable), and what starts before  *)
(* the decision (Returns).                                                 *)
(***************************************************************************)
EXTENDS WindowsUpdate, TLAPS

(* The invariant *)

Steps == HelperPC \ {"off", "read"}
InTx == {"replace", "start", "health", "commit", "undo", "undoMove", "undoDb",
         "restart", "recheck", "recommit"}
FirstSteps == {"finalize", "verify", "backup", "record", "replace", "start",
               "health", "commit", "unchanged"}
Early == {"read", "stop", "wait", "finalize", "verify", "backup", "record",
          "unchanged"}

(* The helper works on an open transaction; the program is about to hand  *)
(* over; the helper has started on a request; it has not touched anything  *)
(* yet; a recovery would take the transaction up, or the helper has it.    *)
Going ==
  helper.pc \in InTx \/ (helper.recovers /\ helper.pc \in {"stop", "wait"})
Handing == prog.web \in {"staged", "handed"}
Begun == helper.pc = "read" /\ ~helper.recovers
Preparing == helper.pc \in Early /\ ~helper.recovers
Reachable == Open /\ (Takeable(tx.req) \/ Going)

Whole(v) == \A f \in File : files[f] = v

(* What version v may start on.                                            *)
Sound(v) ==
  /\ v \in Version /\ Whole(v) /\ 0 < db.by /\ db.by <= v
  /\ tx # NoTransaction => db.rows[tx.req.id] # "none"

Locks ==
  /\ helper.pc \in Steps => helper.req \in Request /\ lock = Taken(helper.req)
  /\ lock.pid = "helper" => helper.pc \in Steps
  /\ lock.pid = "program" => Running
  /\ prog.web # "idle" => prog.at = "up"
  /\ prog.web \in {"locked", "staged"} =>
       lock = [pid |-> "program", token |-> 0]
  /\ prog.web = "handed" => lock = [pid |-> "program", token |-> request.id]

Asked ==
  /\ Handing => /\ request # NoRequest /\ request.from = prog.v
                /\ request.to > prog.v /\ db.rows[request.id] # "none"
  /\ Begun => /\ helper.req \in Request /\ helper.req.from < helper.req.to
              /\ db.rows[helper.req.id] # "none"
              /\ Handing => request.id # helper.req.id

Marked ==
  /\ helper.pc = "read" /\ helper.recovers => NeedsRecovery /\ prog.at # "up"
  /\ helper.pc \in FirstSteps => ~helper.recovers
  /\ Going => tx = [req |-> helper.req, done |-> "no"]
  /\ helper.pc \in {"publish", "clear"} =>
       tx.req = helper.req /\ tx.done # "no"
  /\ helper.pc \in Steps => helper.req.from < helper.req.to
  /\ tx # NoTransaction => tx.req.from < tx.req.to

(* Nobody writes a success that has not passed; nor does a copy of the     *)
(* database, put back, bring one.                                          *)
Truth ==
  /\ helper.pc = "commit" => helper.req.id \in passed
  /\ tx.done = "success" => tx.req.id \in passed
  /\ \A id \in Id : id \notin passed =>
       /\ result[id] # "success" /\ db.rows[id] # "success"
       /\ helper.held.rows[id] # "success"
       /\ \A v \in Version : saved[v].rows[id] # "success"

Where ==
  /\ helper.pc \in {"finalize", "verify", "backup", "record", "replace",
                    "start", "undo", "undoMove", "undoDb", "restart",
                    "unchanged"} => prog.at = "off"
  /\ helper.pc \in {"read", "stop", "wait"} =>
       /\ prog.at # "boot" /\ prog.web = "idle"
       /\ prog.at = "off" <=> prog.parent = "no"
  /\ Begun /\ prog.at # "off" => lock.pid = "program"
  /\ prog.at = "off" => prog.parent = "no"
  /\ helper.pc \in {"health", "commit", "recheck", "recommit"} =>
       prog.parent = "no" /\ (prog.at # "off" => service \/ prog.child)

Fits ==
  /\ Running => Sound(prog.v) /\ db.by = prog.v
  /\ prog.at = "boot" /\ ~NeedsRecovery => Sound(prog.v)
  /\ ~Open => Sound(files["exe"])

Prepares ==
  Preparing =>
    /\ Sound(helper.req.from) /\ db.rows[helper.req.id] # "none"
    /\ tx # NoTransaction => helper.req.id # tx.req.id
    /\ prog.parent # "no" => prog.parent = "update"
    /\ prog.parent = "no" => db = stopped
    /\ helper.pc \in {"verify", "backup", "record"} =>
         saved[helper.req.from] = stopped
    /\ helper.pc = "record" => app[helper.req.from] = files

Distinct == Handing /\ tx # NoTransaction => request.id # tx.req.id

Replaces ==
  /\ helper.pc \in {"replace", "start"} =>
       /\ 0 < db.by /\ db.by <= helper.req.from
       /\ db.rows[helper.req.id] # "none"
  /\ helper.pc = "replace" =>
       \A i \in 1..3 : i < helper.next => files[Forth[i]] = helper.req.to
  /\ helper.pc \in {"start", "health", "commit"} => Whole(helper.req.to)
  /\ helper.pc \in {"health", "commit"} => Sound(helper.req.to)
  /\ helper.pc = "undo" =>
       \A i \in 1..3 : i < helper.next => files[Back[i]] = helper.req.from
  /\ helper.pc \in {"undoMove", "undoDb"} => Whole(helper.req.from)
  /\ helper.pc \in {"restart", "recheck", "recommit"} => Sound(helper.req.from)
  /\ helper.pc = "restart" => db = stopped

Restorable ==
  Reachable =>
    /\ prog.parent # "update"
    /\ saved[tx.req.from] = stopped /\ 0 < stopped.by
    /\ stopped.by <= tx.req.from /\ stopped.rows[tx.req.id] # "none"
    /\ \A f \in File : app[tx.req.from][f] = tx.req.from

(* The old program that starts again has what the update found; nothing    *)
(* else is about to start under a transaction but the version on trial.    *)
Returns ==
  /\ helper.pc \in {"recheck", "recommit"} => db.writes >= stopped.writes
  /\ helper.pc \in {"commit", "recommit"} => prog.at # "boot"
  /\ prog.at = "boot" /\ Reachable /\ helper.pc \in {"fail", "release"} =>
       prog.v = tx.req.to

IInv ==
  /\ TypeOK /\ Locks /\ Asked /\ Marked /\ Truth
  /\ patient => /\ Where /\ Fits /\ Prepares /\ Distinct /\ Replaces
                /\ Restorable /\ Returns

(* The parts of TypeOK that are proved apart.                              *)
FilesTyped ==
  /\ files \in [File -> Version \cup {Gone}]
  /\ app \in [Version -> [File -> Version \cup {Gone}]]

NotesTyped ==
  /\ tx \in Transaction \cup {NoTransaction} /\ lock \in Lock
  /\ request \in Request \cup {NoRequest}
  /\ result \in [Id -> {"none", "success", "failed", "rolled_back"}]

HistoryTyped ==
  /\ service \in BOOLEAN /\ patient \in BOOLEAN /\ passed \subseteq Id
  /\ errors \in 0..MaxErrors /\ crashes \in 0..MaxCrashes
-----------------------------------------------------------------------------
(* Records and numbers *)

LEMMA Requests ==
  ASSUME NEW req \in Request
  PROVE  /\ req.id \in Id /\ req.id # 0 /\ req # NoRequest
         /\ req.from \in Version /\ req.to \in Version
  BY DEF Request, NoRequest, Id, Version

LEMMA Versions ==
  /\ Version \subseteq Nat /\ Id \subseteq Nat /\ 0 \notin Version
  /\ \A v \in Version : v > 0
  /\ Gone \notin Version /\ Nothing \notin Version /\ Nothing # Gone
  BY WindowsAssumption DEF Version, Id, Gone, Nothing

LEMMA Nobody ==
  /\ NoHelper.pc = "off" /\ NoHelper.recovers = FALSE
  /\ NoHelper.req = NoRequest /\ NoHelper.next = 1
  /\ NoHelper.away = Nothing /\ NoHelper.held = Missing
  /\ NoHelper \in Helper
  <1>1. Missing \in Content
    BY WindowsAssumption DEF Missing, Content, NoRows, Row, Id
  <1>2. QED
    BY <1>1 DEF NoHelper, Helper, HelperPC

LEMMA Ended ==
  ASSUME TypeOK
  PROVE  /\ Stopped.at = "off" /\ Stopped.v = prog.v /\ Stopped.parent = "no"
         /\ Stopped.child = FALSE /\ Stopped.busy = FALSE
         /\ Stopped.web = "idle" /\ Stopped \in Prog
  BY DEF TypeOK, Prog, Stopped

-----------------------------------------------------------------------------
(* What the steps with several outcomes do, field by field *)

LEMMA TakeRequestEffect ==
  ASSUME TypeOK, Asked, TakeRequest
  PROVE  /\ helper.pc = "read" /\ ~helper.recovers /\ helper.req \in Request
         /\ UNCHANGED <<files, db, saved, app, tx, prog, around, passed,
                        stopped>>
         /\ request' \in {request, NoRequest}
         /\ Handing => request' = request /\ request.id # helper.req.id
         /\ \/ /\ helper'.pc \in {"stop", "wait"} /\ ~helper'.recovers
               /\ helper'.req = helper.req /\ helper'.held = helper.held
               /\ lock # Free /\ lock.token = helper.req.id
               /\ lock' = Taken(helper.req) /\ result' = result
            \/ /\ helper' = NoHelper /\ lock' = lock
               /\ \A id \in Id : result'[id] \in {result[id], "failed"}
  <1>1. /\ helper.pc = "read" /\ ~helper.recovers /\ helper.req \in Request
        /\ UNCHANGED <<files, db, saved, app, tx, prog, around, passed,
                       stopped>>
        /\ helper \in Helper /\ DOMAIN result = Id
        /\ Handing => request.id # helper.req.id
    BY DEF TakeRequest, HelperOnly, Asked, Begun, TypeOK
  <1>2. request' \in {request, NoRequest} /\ (Handing => request' = request)
    BY <1>1 DEF TakeRequest
  <1>3. CASE /\ request = helper.req /\ Takeable(request)
             /\ lock' = Taken(request) /\ To(AfterTake) /\ UNCHANGED result
    BY <1>1, <1>2, <1>3 DEF Takeable, To, AfterTake, Helper
  <1>4. CASE /\ helper' = NoHelper /\ UNCHANGED lock
             /\ result' = IF request = helper.req
                          THEN [result EXCEPT ![request.id] = "failed"]
                          ELSE result
    BY <1>1, <1>2, <1>4
  <1>5. QED
    BY <1>3, <1>4 DEF TakeRequest

LEMMA TakeTransactionEffect ==
  ASSUME TypeOK, TakeTransaction
  PROVE  /\ helper.pc = "read" /\ helper.recovers
         /\ UNCHANGED <<files, db, saved, app, tx, request, result, prog,
                        around, passed, stopped>>
         /\ \/ /\ helper'.pc \in {"stop", "wait"} /\ helper'.recovers
               /\ helper'.req = tx.req /\ helper'.held = helper.held
               /\ tx # NoTransaction /\ tx.req \in Request
               /\ lock # Free /\ lock.token = tx.req.id
               /\ lock' = Taken(tx.req)
            \/ helper' = NoHelper /\ lock' = lock
  <1>1. /\ helper.pc = "read" /\ helper.recovers /\ helper \in Helper
        /\ UNCHANGED <<files, db, saved, app, tx, request, result, prog,
                       around, passed, stopped>>
        /\ tx # NoTransaction => tx.req \in Request
    BY DEF TakeTransaction, HelperOnly, TypeOK, Transaction
  <1>2. CASE /\ tx # NoTransaction /\ Takeable(tx.req)
             /\ lock' = Taken(tx.req)
             /\ helper' = [helper EXCEPT !.pc = AfterTake, !.req = tx.req]
    BY <1>1, <1>2 DEF Takeable, AfterTake, Helper
  <1>3. CASE helper' = NoHelper /\ UNCHANGED lock
    BY <1>1, <1>3
  <1>4. QED
    BY <1>2, <1>3 DEF TakeTransaction

LEMMA CrashEffect ==
  ASSUME TypeOK, Crash
  PROVE  /\ UNCHANGED <<files, db, saved, app, tx, request, result, around,
                        passed>>
         /\ lock' \in Lock /\ lock'.token = lock.token
         /\ lock'.pid \in {lock.pid, "dead"} /\ (lock' = Free <=> lock = Free)
         /\ \/ /\ prog.at # "off" /\ prog' = Stopped /\ helper' = helper
               /\ stopped' = IF prog.parent = "update" THEN db ELSE stopped
               /\ lock'.pid # "program" /\ (lock.pid # "program" => lock' = lock)
            \/ /\ helper.pc # "off" /\ helper' = NoHelper /\ prog' = prog
               /\ stopped' = stopped
               /\ lock'.pid # "helper" /\ (lock.pid # "helper" => lock' = lock)
            \/ /\ prog.at # "off" /\ prog' = Stopped /\ helper.pc # "off"
               /\ helper' = NoHelper /\ lock'.pid \notin {"program", "helper"}
               /\ stopped' = IF prog.parent = "update" THEN db ELSE stopped
  <1>1. lock \in Lock
    BY DEF TypeOK
  <1>2. ASSUME NEW process \in {"program", "helper"}
        PROVE  /\ Orphaned(process) \in Lock
               /\ Orphaned(process).token = lock.token
               /\ Orphaned(process).pid \in {lock.pid, "dead"}
               /\ Orphaned(process) = Free <=> lock = Free
               /\ Orphaned(process).pid # process
               /\ lock.pid # process => Orphaned(process) = lock
    BY <1>1, <1>2 DEF Lock, Free, Orphaned
  <1>0. UNCHANGED <<files, db, saved, app, tx, request, result, around, passed>>
    BY DEF Crash
  <1>4. CASE prog.at # "off" /\ End /\ UNCHANGED helper /\ lock' = Orphaned("program")
    BY <1>0, <1>2, <1>4 DEF End
  <1>5. CASE /\ helper.pc # "off" /\ helper' = NoHelper /\ lock' = Orphaned("helper")
             /\ UNCHANGED <<prog, stopped>>
    BY <1>0, <1>2, <1>5
  <1>6. CASE /\ prog.at # "off" /\ helper.pc # "off" /\ End
             /\ helper' = NoHelper
             /\ lock' = [lock EXCEPT !.pid = IF lock = Free THEN @ ELSE "dead"]
    <2>1. /\ lock' \in Lock /\ lock'.token = lock.token
          /\ lock'.pid \in {lock.pid, "dead"}
          /\ lock' = Free <=> lock = Free
          /\ lock'.pid \notin {"program", "helper"}
      <3>1. CASE lock = Free
        <4>1. lock' = lock
          BY <1>1, <1>6, <3>1 DEF Lock
        <4>2. QED
          BY <1>1, <3>1, <4>1 DEF Free
      <3>2. CASE lock # Free
        <4>1. lock' = [lock EXCEPT !.pid = "dead"]
          BY <1>6, <3>2
        <4>2. QED
          BY <1>1, <3>2, <4>1 DEF Lock, Free
      <3>3. QED
        BY <3>1, <3>2
    <2>2. /\ prog.at # "off" /\ prog' = Stopped /\ helper.pc # "off"
          /\ helper' = NoHelper
          /\ stopped' = IF prog.parent = "update" THEN db ELSE stopped
      BY <1>6 DEF End
    <2>3. QED
      BY <1>0, <2>1, <2>2
  <1>7. QED
    BY <1>4, <1>5, <1>6 DEF Crash

SameWork ==
  /\ helper'.req = helper.req /\ helper'.recovers = helper.recovers
  /\ helper'.away = helper.away

LEMMA HealthyEffect ==
  ASSUME TypeOK, Healthy
  PROVE  /\ prog.at = "up" /\ SameWork /\ helper'.held = helper.held
         /\ UNCHANGED <<disk, prog, around, stopped>>
         /\ \/ /\ helper.pc = "health" /\ helper'.pc = "commit"
               /\ prog.v = helper.req.to
               /\ passed' = passed \cup {helper.req.id}
            \/ /\ helper.pc = "recheck" /\ helper'.pc = "recommit"
               /\ prog.v = helper.req.from /\ passed' = passed
  <1>1. helper \in Helper
    BY DEF TypeOK
  <1>2. QED
    BY <1>1 DEF Healthy, At, To, Helper, SameWork

LEMMA HaltedProgram ==
  ASSUME TypeOK
  PROVE  /\ Halted \in {prog, Stopped}
         /\ service \/ prog.child => Halted = Stopped
  BY DEF Halted

LEMMA UnhealthyEffect ==
  ASSUME TypeOK, Unhealthy
  PROVE  /\ SameWork /\ helper'.held = helper.held /\ prog' = Halted
         /\ UNCHANGED <<disk, around, stopped, passed>>
         /\ \/ helper.pc = "health" /\ helper'.pc = "undo" /\ helper'.next = 1
            \/ helper.pc = "recheck" /\ helper'.pc = "fail"
  <1>1. helper \in Helper
    BY DEF TypeOK
  <1>2. UNCHANGED <<disk, around, stopped, passed>> /\ prog' = Halted
    BY DEF Unhealthy, HelperOnly
  <1>3. \/ At("health", "undo") \/ At("recheck", "fail")
    BY DEF Unhealthy
  <1>4. QED
    BY <1>1, <1>2, <1>3 DEF At, To, Helper, SameWork

LEMMA CommitFailsEffect ==
  ASSUME TypeOK, CommitFails
  PROVE  /\ SameWork /\ helper'.held = helper.held
         /\ UNCHANGED <<disk, around, stopped, passed>>
         /\ \/ /\ helper.pc = "commit" /\ helper'.pc = "undo"
               /\ helper'.next = 1 /\ prog' = Halted
            \/ helper.pc = "recommit" /\ helper'.pc = "fail" /\ prog' = prog
  <1>1. helper \in Helper
    BY DEF TypeOK
  <1>2. UNCHANGED <<disk, around, stopped, passed>>
    BY DEF CommitFails
  <1>3. \/ At("commit", "undo") /\ prog' = Halted
        \/ At("recommit", "fail") /\ UNCHANGED prog
    BY DEF CommitFails
  <1>4. QED
    BY <1>1, <1>2, <1>3 DEF At, To, Helper, SameWork

LEMMA GiveUpEffect ==
  ASSUME TypeOK, GiveUp
  PROVE  /\ SameWork
         /\ UNCHANGED <<files, saved, app, tx, lock, request, result, prog,
                        around, stopped, passed>>
         /\ \/ /\ helper.pc \in {"stop", "wait", "undoMove"} /\ db' = db
               /\ helper'.pc = "fail" /\ helper'.held = helper.held
            \/ /\ helper.pc = "undoDb" /\ db' = helper.held
               /\ helper'.pc = "fail" /\ helper'.held = Missing
            \/ /\ helper.pc \in {"publish", "clear"} /\ db' = db
               /\ helper'.pc = "release" /\ helper'.held = helper.held
  <1>1. helper \in Helper
    BY DEF TypeOK
  <1>2. UNCHANGED <<files, saved, app, tx, lock, request, result, prog,
                    around, stopped, passed>>
    BY DEF GiveUp, HelperOnly
  <1>3. \/ helper.pc \in {"stop", "wait", "undoMove"} /\ To("fail") /\ db' = db
        \/ /\ helper.pc = "undoDb" /\ db' = helper.held
           /\ helper' = [helper EXCEPT !.pc = "fail", !.held = Missing]
        \/ helper.pc \in {"publish", "clear"} /\ To("release") /\ db' = db
    BY DEF GiveUp
  <1>4. QED
    BY <1>1, <1>2, <1>3 DEF To, Helper, SameWork

LEMMA DbBackEffect ==
  ASSUME TypeOK, DbBack
  PROVE  /\ SameWork /\ helper.pc = "undoDb" /\ helper'.pc = "restart"
         /\ helper'.held = Missing /\ db' = saved[helper.req.from]
         /\ UNCHANGED <<files, saved, app, tx, lock, request, result, prog,
                        around, stopped, passed>>
  <1>1. helper \in Helper
    BY DEF TypeOK
  <1>2. QED
    BY <1>1 DEF DbBack, HelperOnly, history, Helper, SameWork, Restored

(* What a program that recovers reads and leaves.                          *)
LEMMA PublishedResults ==
  ASSUME TypeOK, NEW results \in {result, Published}
  PROVE  /\ DOMAIN results = Id
         /\ \A id \in Id :
              /\ results[id] \in {"none", "success", "failed", "rolled_back"}
              /\ results[id] = "success" =>
                   \/ result[id] = "success"
                   \/ tx.done = "success" /\ id = tx.req.id
  BY DEF TypeOK, Published, Transaction, NoTransaction, Request

LEMMA TickEffect ==
  ASSUME TypeOK, Tick
  PROVE  /\ prog.at = "up" /\ UNCHANGED <<files, saved, app, lock, request,
                                          helper, around, stopped, passed>>
         /\ prog' \in {prog, [prog EXCEPT !.busy = FALSE]}
         /\ result' = NoResults
         /\ \/ tx' = tx
            \/ tx' = NoTransaction /\ ~LockActive /\ tx.done # "no"
         /\ db' \in Content /\ db'.by = db.by /\ db'.writes = db.writes
         /\ \A id \in Id :
              /\ db.rows[id] # "none" => db'.rows[id] # "none"
              /\ db'.rows[id] = "success" =>
                   \/ db.rows[id] = "success" \/ result[id] = "success"
                   \/ tx.done = "success" /\ id = tx.req.id
  <1>1. /\ prog.at = "up" /\ UNCHANGED <<files, saved, app, lock, request,
                                         helper, around, stopped, passed>>
        /\ result' = NoResults
    BY DEF Tick, history
  <1>2. \/ tx' = tx
        \/ tx' = NoTransaction /\ ~LockActive /\ tx.done # "no"
    BY DEF Tick, Finalized
  <1>3. prog' \in {prog, [prog EXCEPT !.busy = FALSE]}
    BY DEF Tick
  <1> DEFINE results == IF LockActive THEN result ELSE Published
  <1>4. db' = [db EXCEPT !.rows = Recorded(db.rows, results)]
    BY DEF Tick
  <1>5. results \in {result, Published}
    OBVIOUS
  <1> HIDE DEF results
  <1>6. db \in Content /\ db.rows \in [Id -> Row]
    BY DEF TypeOK, Content
  <1>7. /\ Recorded(db.rows, results) \in [Id -> Row]
        /\ \A id \in Id : Recorded(db.rows, results)[id] =
             IF results[id] # "none" THEN results[id] ELSE db.rows[id]
    BY <1>5, <1>6, PublishedResults DEF Recorded, Row
  <1>8. /\ db' \in Content /\ db'.by = db.by /\ db'.writes = db.writes
        /\ db'.rows = Recorded(db.rows, results)
    BY <1>4, <1>6, <1>7 DEF Content
  <1>9. QED
    BY <1>1, <1>2, <1>3, <1>5, <1>7, <1>8, PublishedResults

LEMMA BootOpensEffect ==
  ASSUME TypeOK, BootOpens
  PROVE  /\ prog.at = "boot" /\ ~NeedsRecovery
         /\ UNCHANGED <<files, saved, app, lock, request, helper, around,
                        stopped, passed>>
         /\ prog' = [prog EXCEPT !.at = "up"] /\ result' = NoResults
         /\ \/ tx' = tx
            \/ tx' = NoTransaction /\ ~LockActive /\ tx.done # "no"
         /\ db' \in Content /\ db'.writes = db.writes
         /\ db'.by = IF db.by < prog.v THEN prog.v ELSE db.by
         /\ \A id \in Id :
              /\ db.rows[id] # "none" => db'.rows[id] # "none"
              /\ db'.rows[id] = "success" =>
                   \/ db.rows[id] = "success" \/ result[id] = "success"
                   \/ tx.done = "success" /\ id = tx.req.id
  <1>1. /\ prog.at = "boot" /\ ~NeedsRecovery
        /\ UNCHANGED <<files, saved, app, lock, request, helper, around,
                       stopped, passed>>
        /\ prog' = [prog EXCEPT !.at = "up"] /\ result' = NoResults
    BY DEF BootOpens, history
  <1>2. \/ tx' = tx
        \/ tx' = NoTransaction /\ ~LockActive /\ tx.done # "no"
    BY DEF BootOpens, Finalized
  <1> DEFINE results == IF LockActive THEN result ELSE Published
             rows == Interrupted(Recorded(db.rows, results))
             by == IF db.by < prog.v THEN prog.v ELSE db.by
  <1>3. db \in Content /\ db.rows \in [Id -> Row] /\ by \in 0..MaxVersion
    BY WindowsAssumption DEF TypeOK, Content, Prog, Version
  <1>4. db' = [[db EXCEPT !.by = by] EXCEPT !.rows = rows]
    <2>1. /\ db' = [Opened(db, prog.v) EXCEPT
                     !.rows = Interrupted(Recorded(@, results))]
          /\ Opened(db, prog.v) = [db EXCEPT !.by = by]
      BY DEF BootOpens, Opened
    <2>2. Opened(db, prog.v).rows = db.rows
      BY <1>3, <2>1 DEF Content
    <2>3. QED
      BY <2>1, <2>2
  <1>5. results \in {result, Published}
    OBVIOUS
  <1> HIDE DEF results
  <1>6. /\ rows \in [Id -> Row]
        /\ \A id \in Id : rows[id] \in
             {"failed", IF results[id] # "none" THEN results[id] ELSE db.rows[id]}
    BY <1>3, <1>5, PublishedResults DEF Recorded, Interrupted, Row
  <1> HIDE DEF rows, by
  <1>7. /\ db' \in Content /\ db'.by = by /\ db'.writes = db.writes
        /\ db'.rows = rows
    BY <1>3, <1>4, <1>6 DEF Content
  <1>8. by = IF db.by < prog.v THEN prog.v ELSE db.by
    BY DEF by
  <1>9. QED
    BY <1>1, <1>2, <1>5, <1>6, <1>7, <1>8, PublishedResults

LEMMA BootRecoversEffect ==
  ASSUME TypeOK, BootRecovers
  PROVE  /\ prog.at = "boot" /\ NeedsRecovery /\ prog' = Stopped
         /\ UNCHANGED <<disk, around, history>>
         /\ \/ /\ helper.pc = "off" /\ helper'.pc = "read"
               /\ helper'.recovers /\ helper'.req = NoRequest
               /\ helper'.held = Missing
            \/ helper' = helper
  BY DEF BootRecovers, LaunchRecovery, NoHelper

(* While the helper works nothing else holds the lock.                     *)
LEMMA HelperHolds ==
  ASSUME TypeOK, Locks, helper.pc \in Steps
  PROVE  /\ prog.web = "idle" /\ ~Handing /\ LockActive
         /\ lock = Taken(helper.req) /\ lock.pid = "helper" /\ lock # Free
         /\ lock.token = helper.req.id
         /\ helper.req \in Request /\ Takeable(helper.req)
  <1>1. helper.req \in Request /\ lock = Taken(helper.req)
    BY DEF Locks
  <1>2. lock.pid = "helper" /\ lock.token = helper.req.id /\ lock # Free
    BY <1>1 DEF Taken, Free
  <1>3. prog.web = "idle"
    BY <1>2 DEF Locks, TypeOK, Prog
  <1>4. QED
    BY <1>1, <1>2, <1>3 DEF Handing, LockActive, Takeable

(* A helper that has the transaction has marked it, and holds its lock.    *)
LEMMA Underway ==
  ASSUME TypeOK, Locks, Marked, Going
  PROVE  /\ helper.pc \in Steps /\ tx # NoTransaction /\ Open
         /\ tx.req = helper.req /\ tx.done = "no" /\ Reachable
         /\ helper.req.id \in Id
         /\ helper.req.from \in Version /\ helper.req.to \in Version
         /\ helper.req.from < helper.req.to
  <1>1. helper.pc \in Steps
    BY DEF Going, InTx, Steps, HelperPC
  <1>2. tx = [req |-> helper.req, done |-> "no"] /\ helper.req \in Request
    BY <1>1, HelperHolds DEF Marked
  <1>3. tx # NoTransaction
    BY <1>2, Requests DEF NoTransaction
  <1>4. QED
    BY <1>1, <1>2, <1>3, Requests DEF Open, Reachable, Marked

LEMMA TransactionIds ==
  ASSUME TypeOK, tx # NoTransaction
  PROVE  /\ tx.req \in Request /\ tx.req.id \in Id /\ tx.req.id # 0
         /\ tx.req.from \in Version
  BY Requests DEF TypeOK, Transaction

(* Steps that leave the files and the database as they are, or close the   *)
(* transaction of a decided update.                                        *)
LEMMA FitsKept ==
  ASSUME TypeOK, Fits, files' = files, db'.by = db.by,
         \/ tx' = tx
         \/ tx' = NoTransaction /\ tx.done # "no",
         \A id \in Id : db.rows[id] # "none" => db'.rows[id] # "none",
         Running' => Running /\ prog'.v = prog.v,
         prog'.at = "boot" => /\ prog.at = "boot" /\ prog'.v = prog.v
                              /\ NeedsRecovery => NeedsRecovery'
  PROVE  Fits'
  <1>1. ASSUME NEW v, Sound(v)
        PROVE  /\ v \in Version /\ \A f \in File : files'[f] = v
               /\ 0 < db'.by /\ db'.by <= v
               /\ tx' # NoTransaction => db'.rows[tx'.req.id] # "none"
    BY <1>1, TransactionIds DEF Sound, Whole
  <1>2. Running' => Sound(prog.v)' /\ db'.by = prog'.v
    BY <1>1 DEF Fits, Sound, Whole
  <1>3. prog'.at = "boot" /\ ~NeedsRecovery' => Sound(prog.v)'
    BY <1>1 DEF Fits, Sound, Whole
  <1>4. ~Open' => Sound(files["exe"])'
    <2>1. ~Open' => ~Open
      BY DEF Open, NoTransaction
    <2>2. QED
      BY <1>1, <2>1 DEF Fits, Sound, Whole
  <1>5. QED
    BY <1>2, <1>3, <1>4 DEF Fits, Sound, Whole

(* While the files or the database are replaced no program runs.           *)
LEMMA FitsMeanwhile ==
  ASSUME prog'.at = "off", Open'
  PROVE  Fits'
  BY DEF Fits, Running

LEMMA ReplacesNothing ==
  ASSUME helper'.pc \notin InTx
  PROVE  Replaces'
  BY DEF Replaces, InTx

LEMMA RestorableKept ==
  ASSUME Restorable, Reachable' => Reachable, UNCHANGED <<tx, app, stopped>>,
         saved' = saved,
         prog'.parent = "update" => prog.parent = "update"
  PROVE  Restorable'
  BY DEF Restorable

LEMMA Numbers ==
  /\ 1 \in 1..3 /\ 0 \in 0..MaxErrors /\ 0 \in 0..MaxCrashes
  /\ Missing \in Content
  <1>1. Missing \in Content
    BY WindowsAssumption DEF Missing, Content, NoRows, Row
  <1>2. QED
    BY <1>1, WindowsAssumption

(* The helper stays one wherever it goes.                                  *)
LEMMA Advanced ==
  ASSUME TypeOK, NEW pc \in HelperPC, To(pc)
  PROVE  helper' \in Helper
  <1>1. helper' = [helper EXCEPT !.pc = pc, !.next = 1] /\ helper \in Helper
    BY DEF TypeOK, To
  <1>2. 1 \in 1..3
    OBVIOUS
  <1>3. QED
    BY <1>1, <1>2 DEF Helper

LEMMA HistoryKept ==
  ASSUME TypeOK, UNCHANGED <<service, patient, crashes>>,
         errors' = errors \/ (errors < MaxErrors /\ errors' = errors + 1),
         passed' \subseteq Id
  PROVE  HistoryTyped'
  <1>1. errors' \in 0..MaxErrors
    BY WindowsAssumption DEF TypeOK
  <1>2. QED
    BY <1>1 DEF TypeOK, HistoryTyped
-----------------------------------------------------------------------------
(* One lemma for each part of the invariant *)

LEMMA FilesStep ==
  ASSUME IInv, Next
  PROVE  FilesTyped'
  <1>0. TypeOK /\ Locks /\ Asked /\ Marked
    BY DEF IInv
  <1>1. CASE BootRecovers
    BY <1>0, <1>1, BootRecoversEffect, Ended, Nobody
    DEF FilesTyped, TypeOK, File, disk
  <1>2. CASE BootOpens
    BY <1>0, <1>2, BootOpensEffect DEF FilesTyped, TypeOK, File, around
  <1>3. CASE Tick
    BY <1>0, <1>3, TickEffect DEF FilesTyped, TypeOK, File, around
  <1>4. CASE TakeRequest
    BY <1>0, <1>4, TakeRequestEffect, Requests, Versions, Nobody
    DEF FilesTyped, TypeOK, File, around
  <1>5. CASE TakeTransaction
    BY <1>0, <1>5, TakeTransactionEffect, Requests, Versions, Nobody
    DEF FilesTyped, TypeOK, File, around
  <1>6. CASE MoveIn
    <2>1. /\ helper.pc \in {"replace", "undo"} /\ app' = app
          /\ files' = [files EXCEPT ![Current] = Wanted]
      BY <1>6 DEF MoveIn, Replacing, Restoring
    <2>2. helper.req \in Request /\ helper.next \in {1, 2, 3}
      BY <1>0, <2>1, HelperHolds DEF Steps, HelperPC, TypeOK, Helper
    <2>3. Current \in File
      BY <2>2 DEF Current, Forth, Back, File
    <2>4. Wanted \in Version \cup {Gone}
      BY <1>0, <2>2, <2>3, Requests DEF Wanted, TypeOK
    <2>5. QED
      BY <1>0, <2>1, <2>4 DEF TypeOK, FilesTyped
  <1>7. CASE MoveFails
    <2>1. /\ app' = app /\ helper.pc \in {"replace", "undo"}
          /\ files' = IF helper.away = Nothing THEN files
                      ELSE [files EXCEPT ![Current] = helper.away]
      BY <1>7 DEF MoveFails, Replacing, Restoring
    <2>2. helper.away \in Version \cup {Gone, Nothing}
      BY <1>0 DEF TypeOK, Helper
    <2>3. QED
      BY <1>0, <2>1, <2>2 DEF TypeOK, FilesTyped
  <1>8. CASE DbBack
    BY <1>0, <1>8, DbBackEffect DEF FilesTyped, TypeOK, File, SameWork
  <1>9. CASE Healthy
    BY <1>0, <1>9, HealthyEffect
    DEF FilesTyped, TypeOK, File, SameWork, disk, around
  <1>10. CASE Unhealthy
    BY <1>0, <1>10, UnhealthyEffect, HaltedProgram, Ended
    DEF FilesTyped, TypeOK, File, SameWork, disk, around
  <1>11. CASE CommitFails
    BY <1>0, <1>11, CommitFailsEffect, HaltedProgram, Ended
    DEF FilesTyped, TypeOK, File, SameWork, disk, around
  <1>12. CASE GiveUp
    BY <1>0, <1>12, GiveUpEffect DEF FilesTyped, TypeOK, File, SameWork
  <1>13. CASE Crash
    BY <1>0, <1>13, CrashEffect, Nobody, Ended
    DEF FilesTyped, TypeOK, File, around
  <1>14. CASE Write \/ Begin \/ Stage \/ HandOff \/ Launch \/ FailInstall \/
              Exit
    BY <1>0, <1>14, Versions
    DEF Write, Begin, Stage, HandOff, Launch, FailInstall, Exit, around,
        ProgOnly, Running, LockActive, disk, history, Orphaned, Stopped, End,
        FilesTyped, TypeOK, File
  <1>15. CASE TickRecovers \/ StartProgram \/ StopService \/ Wait \/
              FinalizeBackup \/ Verify \/ BackUp
    BY <1>0, <1>15, Versions
    DEF TickRecovers, StartProgram, StopService, Wait, FinalizeBackup,
        Verify, BackUp, disk, NeedsRecovery, LaunchRecovery, Stopped,
        NoError, End, To, At, HelperOnly, AfterWait, FinalizedNow,
        FilesTyped, TypeOK, File
  <1>16. CASE Record \/ Untouched \/ MoveAway \/ DbAway \/ DbOpen \/
              StartAgain \/ StartFails
    BY <1>0, <1>16, Versions
    DEF Record, Untouched, MoveAway, DbAway, DbOpen, StartAgain, StartFails,
        history, RecordedNow, disk, Error, Forth, Back, Replacing, Restoring,
        Current, Running, Stopped, Started, AfterStart, NoError, FilesTyped,
        TypeOK, File
  <1>17. CASE StopFails \/ Commit \/ Publish \/ Clear \/ Fail \/ Release
    BY <1>0, <1>17, Versions
    DEF StopFails, Commit, Publish, Clear, Fail, Release, disk, around,
        CommitProven, Published, At, Finalized, Takeable, FilesTyped, TypeOK,
        File
  <1>18. QED
    BY <1>1, <1>2, <1>3, <1>4, <1>5, <1>6, <1>7, <1>8, <1>9, <1>10, <1>11,
       <1>12, <1>13, <1>14, <1>15, <1>16, <1>17
    DEF Next, Installation, Program, HelperSteps

LEMMA NotesStep ==
  ASSUME IInv, Next
  PROVE  NotesTyped'
  <1>0. TypeOK /\ Locks /\ Asked /\ Marked
    BY DEF IInv
  <1>1. CASE Stage
    <2>1. PICK id \in Id, v \in Version :
            request' = [id |-> id, from |-> prog.v, to |-> v]
      BY <1>1 DEF Stage
    <2>2. request' \in Request
      BY <1>0, <2>1 DEF Request, TypeOK, Prog
    <2>3. QED
      BY <1>0, <1>1, <2>2 DEF Stage, ProgOnly, TypeOK, NotesTyped
  <1>2. CASE HandOff
    <2>1. /\ lock' = [pid |-> "program", token |-> request.id]
          /\ UNCHANGED <<tx, request, result>> /\ Handing
      BY <1>2 DEF HandOff, ProgOnly, Handing
    <2>2. request \in Request
      BY <1>0, <2>1 DEF Asked, TypeOK
    <2>3. lock' \in Lock
      BY <2>1, <2>2, Requests DEF Lock
    <2>4. QED
      BY <1>0, <2>1, <2>3 DEF TypeOK, NotesTyped
  <1>3. CASE FailInstall
    <2>1. Free \in Lock
      BY DEF Free, Lock
    <2>2. QED
      BY <1>0, <1>3, <2>1 DEF FailInstall, ProgOnly, TypeOK, NotesTyped
  <1>4. CASE Exit
    <2>1. Free \in Lock /\ Orphaned("program") \in Lock
      BY <1>0 DEF Free, Orphaned, Lock, TypeOK
    <2>2. QED
      BY <1>0, <1>4, <2>1 DEF Exit, ProgOnly, TypeOK, NotesTyped
  <1>5. CASE BootRecovers
    BY <1>0, <1>5, BootRecoversEffect, Ended, Nobody
    DEF NotesTyped, TypeOK, Lock, Transaction, disk, history, around
  <1>6. CASE BootOpens
    <2>1. /\ UNCHANGED <<lock, request>> /\ result' = NoResults
          /\ tx' \in {tx, NoTransaction}
      BY <1>0, <1>6, BootOpensEffect
    <2>2. QED
      BY <1>0, <2>1 DEF NoResults, TypeOK, NotesTyped
  <1>7. CASE Tick
    <2>1. /\ UNCHANGED <<lock, request>> /\ result' = NoResults
          /\ tx' \in {tx, NoTransaction}
      BY <1>0, <1>7, TickEffect
    <2>2. QED
      BY <1>0, <2>1 DEF NoResults, TypeOK, NotesTyped
  <1>8. CASE TakeRequest
    <2>1. /\ tx' = tx /\ request' \in {request, NoRequest}
          /\ helper.req \in Request
          /\ lock' = lock \/ lock' = Taken(helper.req)
      BY <1>0, <1>8, TakeRequestEffect
    <2>2. Taken(helper.req) \in Lock
      BY <2>1, Requests DEF Taken, Lock
    <2>3. \/ result' = result
          \/ \E id \in Id : result' = [result EXCEPT ![id] = "failed"]
      BY <1>8, <2>1, Requests DEF TakeRequest
    <2>4. QED
      BY <1>0, <2>1, <2>2, <2>3 DEF TypeOK, NotesTyped
  <1>9. CASE TakeTransaction
    <2>1. /\ UNCHANGED <<tx, request, result>>
          /\ lock' = lock \/ (tx # NoTransaction /\ lock' = Taken(tx.req))
      BY <1>0, <1>9, TakeTransactionEffect
    <2>2. tx # NoTransaction => Taken(tx.req) \in Lock
      BY <1>0, TransactionIds DEF Taken, Lock
    <2>3. QED
      BY <1>0, <2>1, <2>2 DEF TypeOK, NotesTyped
  <1>10. CASE Record
    <2>1. /\ helper.pc = "record" /\ tx' = RecordedNow
          /\ UNCHANGED <<lock, request, result>>
      BY <1>10 DEF Record, At
    <2>2. tx' \in Transaction
      BY <1>0, <2>1, HelperHolds DEF RecordedNow, Transaction, Steps, HelperPC
    <2>3. QED
      BY <1>0, <2>1, <2>2 DEF TypeOK, NotesTyped
  <1>11. CASE DbBack
    BY <1>0, <1>11, DbBackEffect DEF NotesTyped, TypeOK, Lock, Transaction
  <1>12. CASE Healthy
    BY <1>0, <1>12, HealthyEffect
    DEF NotesTyped, TypeOK, Lock, Transaction, SameWork, disk, around
  <1>13. CASE Unhealthy
    BY <1>0, <1>13, UnhealthyEffect, HaltedProgram, Ended
    DEF NotesTyped, TypeOK, Lock, Transaction, SameWork, disk, around
  <1>14. CASE Commit
    <2>1. /\ helper.pc \in {"commit", "recommit"}
          /\ UNCHANGED <<lock, request, result>>
          /\ tx' \in {[tx EXCEPT !.done = "success"],
                      [tx EXCEPT !.done = "rolled_back"]}
      BY <1>14 DEF Commit, CommitProven
    <2>2. tx \in Transaction
      <3>1. Going
        BY <2>1 DEF Going, InTx
      <3>2. QED
        BY <1>0, <3>1, Underway DEF TypeOK
    <2>3. tx' \in Transaction
      BY <2>1, <2>2 DEF Transaction
    <2>4. QED
      BY <1>0, <2>1, <2>3 DEF TypeOK, NotesTyped
  <1>15. CASE CommitFails
    BY <1>0, <1>15, CommitFailsEffect, HaltedProgram, Ended
    DEF NotesTyped, TypeOK, Lock, Transaction, SameWork, disk, around
  <1>16. CASE Publish
    <2>1. /\ helper.pc = "publish" /\ UNCHANGED <<tx, lock, request>>
          /\ result' = Published
      BY <1>16 DEF Publish, At
    <2>2. helper.pc \in Steps /\ tx.req = helper.req /\ tx.done # "no"
      BY <1>0, <2>1 DEF Marked, Steps, HelperPC
    <2>3. /\ result' = [result EXCEPT ![tx.req.id] = tx.done]
          /\ tx.done \in {"success", "rolled_back"}
      BY <1>0, <2>1, <2>2 DEF Published, TypeOK, Transaction, NoTransaction
    <2>4. QED
      BY <1>0, <2>1, <2>3 DEF TypeOK, NotesTyped
  <1>17. CASE GiveUp
    BY <1>0, <1>17, GiveUpEffect DEF NotesTyped, TypeOK, Lock, Transaction
  <1>18. CASE Release
    <2>1. Free \in Lock
      BY DEF Free, Lock
    <2>2. QED
      BY <1>0, <1>18, <2>1 DEF Release, TypeOK, NotesTyped
  <1>19. CASE Crash
    BY <1>0, <1>19, CrashEffect, Nobody, Ended
    DEF NotesTyped, TypeOK, Lock, Transaction
  <1>20. CASE Write \/ Begin \/ Launch \/ TickRecovers \/ StartProgram \/
              StopService \/ Wait
    BY <1>0, <1>20, Versions
    DEF Write, Begin, Launch, TickRecovers, StartProgram, StopService, Wait,
        around, ProgOnly, Running, LockActive, disk, history, Unattended,
        NeedsRecovery, LaunchRecovery, Stopped, NoError, End, To, At,
        HelperOnly, AfterWait, NotesTyped, TypeOK, Lock, Transaction
  <1>21. CASE FinalizeBackup \/ Verify \/ BackUp \/ Untouched \/ MoveAway \/
              MoveIn \/ MoveFails
    BY <1>0, <1>21, Versions
    DEF FinalizeBackup, Verify, BackUp, Untouched, MoveAway, MoveIn,
        MoveFails, history, FinalizedNow, disk, Error, Forth, Back,
        Replacing, Restoring, Current, Wanted, AfterFiles, NotesTyped,
        TypeOK, Lock, Transaction
  <1>22. CASE DbAway \/ DbOpen \/ StartAgain \/ StartFails \/ StopFails \/
              Clear \/ Fail
    BY <1>0, <1>22, Versions
    DEF DbAway, DbOpen, StartAgain, StartFails, StopFails, Clear, Fail,
        history, around, Running, HelperOnly, disk, To, At, Stopped, Started,
        AfterStart, Error, NoError, Finalized, NotesTyped, TypeOK, Lock,
        Transaction
  <1>23. QED
    BY <1>1, <1>2, <1>3, <1>4, <1>5, <1>6, <1>7, <1>8, <1>9, <1>10, <1>11,
       <1>12, <1>13, <1>14, <1>15, <1>16, <1>17, <1>18, <1>19, <1>20,
       <1>21, <1>22
    DEF Next, Installation, Program, HelperSteps

LEMMA HistoryStep ==
  ASSUME IInv, Next
  PROVE  HistoryTyped'
  <1>0. TypeOK /\ Locks /\ Asked /\ Marked
    BY DEF IInv
  <1>1. CASE BootRecovers
    BY <1>0, <1>1, BootRecoversEffect, Ended, Nobody
    DEF HistoryTyped, TypeOK, disk, history, around
  <1>2. CASE BootOpens \/ Tick \/ TakeRequest \/ TakeTransaction \/ Untouched
             \/ MoveFails \/ DbBack \/ StartFails \/ Unhealthy \/ StopFails
             \/ CommitFails \/ GiveUp
    <2>1. /\ UNCHANGED <<service, patient, crashes, passed>>
          /\ \/ errors' = errors
             \/ errors < MaxErrors /\ errors' = errors + 1
      BY <1>2
      DEF BootOpens, Tick, TakeRequest, TakeTransaction, Untouched, MoveFails,
          DbBack, StartFails, Unhealthy, StopFails, CommitFails, GiveUp, Error,
          NoError, HelperOnly, history, around
    <2>2. QED
      BY <1>0, <2>1, HistoryKept DEF TypeOK
  <1>3. CASE Healthy
    <2>1. UNCHANGED <<service, patient, crashes, errors>>
      BY <1>3 DEF Healthy, around
    <2>2. helper.pc \in Steps /\ passed' \in {passed, passed \cup {helper.req.id}}
      BY <1>0, <1>3, HealthyEffect DEF Steps, HelperPC
    <2>3. passed' \subseteq Id
      BY <1>0, <2>2, HelperHolds, Requests DEF TypeOK
    <2>4. QED
      BY <1>0, <2>1, <2>3, HistoryKept
  <1>4. CASE Crash
    <2>1. /\ UNCHANGED <<service, patient, passed, errors>>
          /\ crashes < MaxCrashes /\ crashes' = crashes + 1
      BY <1>4 DEF Crash, around
    <2>2. crashes' \in 0..MaxCrashes
      BY <1>0, <2>1, WindowsAssumption DEF TypeOK
    <2>3. QED
      BY <1>0, <2>1, <2>2 DEF TypeOK, HistoryTyped
  <1>5. CASE Write \/ Begin \/ Stage \/ HandOff \/ Launch \/ FailInstall \/
             Exit
    BY <1>0, <1>5, Versions
    DEF Write, Begin, Stage, HandOff, Launch, FailInstall, Exit, around,
        ProgOnly, Running, LockActive, disk, history, Orphaned, Stopped, End,
        HistoryTyped, TypeOK
  <1>6. CASE TickRecovers \/ StartProgram \/ StopService \/ Wait \/
             FinalizeBackup \/ Verify \/ BackUp
    BY <1>0, <1>6, Versions
    DEF TickRecovers, StartProgram, StopService, Wait, FinalizeBackup,
        Verify, BackUp, disk, history, around, LockActive, Unattended,
        NeedsRecovery, LaunchRecovery, Stopped, NoError, End, To, At,
        HelperOnly, AfterWait, FinalizedNow, HistoryTyped, TypeOK
  <1>7. CASE Record \/ MoveAway \/ MoveIn \/ DbAway \/ DbOpen \/ StartAgain
             \/ Commit
    BY <1>0, <1>7, Versions
    DEF Record, MoveAway, MoveIn, DbAway, DbOpen, StartAgain, Commit,
        history, around, To, At, HelperOnly, RecordedNow, Forth, Back,
        Replacing, Restoring, Current, Wanted, AfterFiles, Running, disk,
        Stopped, Started, AfterStart, CommitProven, HistoryTyped, TypeOK
  <1>8. CASE Publish \/ Clear \/ Fail \/ Release
    BY <1>0, <1>8, Versions
    DEF Publish, Clear, Fail, Release, history, around, Published, To, At,
        HelperOnly, Finalized, Takeable, HistoryTyped, TypeOK
  <1>9. QED
    BY <1>1, <1>2, <1>3, <1>4, <1>5, <1>6, <1>7, <1>8
    DEF Next, Installation, Program, HelperSteps

LEMMA HelperStep ==
  ASSUME IInv, Next
  PROVE  helper' \in Helper
  <1>0. TypeOK /\ Locks /\ Asked
    BY DEF IInv
  <1>1. CASE Launch
    <2>1. /\ helper' = [NoHelper EXCEPT !.pc = "read", !.req = request]
          /\ request \in Request \cup {NoRequest}
      BY <1>0, <1>1 DEF Launch, TypeOK
    <2>2. QED
      BY <2>1, Nobody DEF Helper, HelperPC
  <1>2. CASE BootRecovers
    <2>1. \/ helper' = helper
          \/ helper' = [NoHelper EXCEPT !.pc = "read", !.recovers = TRUE]
      BY <1>2 DEF BootRecovers, LaunchRecovery
    <2>2. CASE helper' = [NoHelper EXCEPT !.pc = "read", !.recovers = TRUE]
      BY <2>2, Nobody DEF Helper, HelperPC
    <2>3. QED
      BY <1>0, <2>1, <2>2 DEF TypeOK
  <1>3. CASE BootOpens
    BY <1>0, <1>3, BootOpensEffect DEF TypeOK, HelperPC, around
  <1>4. CASE TickRecovers
    <2>1. \/ helper' = helper
          \/ helper' = [NoHelper EXCEPT !.pc = "read", !.recovers = TRUE]
      BY <1>4 DEF TickRecovers, LaunchRecovery
    <2>2. CASE helper' = [NoHelper EXCEPT !.pc = "read", !.recovers = TRUE]
      BY <2>2, Nobody DEF Helper, HelperPC
    <2>3. QED
      BY <1>0, <2>1, <2>2 DEF TypeOK
  <1>5. CASE Tick
    BY <1>0, <1>5, TickEffect DEF TypeOK, HelperPC, around
  <1>6. CASE TakeRequest
    <2>1. To(AfterTake) \/ helper' = NoHelper
      BY <1>6 DEF TakeRequest
    <2>2. AfterTake \in HelperPC
      BY DEF AfterTake, HelperPC
    <2>3. QED
      BY <1>0, <2>1, <2>2, Nobody, Advanced
  <1>7. CASE TakeTransaction
    <2>1. \/ /\ tx # NoTransaction
             /\ helper' = [helper EXCEPT !.pc = AfterTake, !.req = tx.req]
          \/ helper' = NoHelper
      BY <1>7 DEF TakeTransaction
    <2>2. AfterTake \in HelperPC
      BY DEF AfterTake, HelperPC
    <2>3. QED
      BY <1>0, <2>1, <2>2, Nobody, TransactionIds DEF TypeOK, Helper
  <1>8. CASE StopService \/ Wait \/ FinalizeBackup \/ Verify \/ BackUp \/
             Record \/ Untouched \/ DbOpen \/ StartAgain \/ StartFails \/
             Healthy \/ Unhealthy \/ StopFails \/ Commit \/ CommitFails \/
             Publish \/ Clear \/ Fail
    <2>1. \E pc \in HelperPC : To(pc)
      BY <1>8
      DEF StopService, Wait, FinalizeBackup, Verify, BackUp, Record, Untouched,
          DbOpen, StartAgain, StartFails, Healthy, Unhealthy, StopFails, Commit,
          CommitFails, Publish, Clear, Fail, At, AfterWait, AfterStart, HelperPC
    <2>2. QED
      BY <1>0, <2>1, Advanced
  <1>9. CASE MoveAway
    <2>1. /\ Replacing \/ Restoring
          /\ helper' = [helper EXCEPT !.away = files[Current]]
      BY <1>9 DEF MoveAway
    <2>2. files[Current] \in Version \cup {Gone, Nothing}
      <3>1. helper.next \in {1, 2, 3}
        BY <1>0 DEF TypeOK, Helper
      <3>2. Current \in File
        BY <3>1 DEF Current, Forth, Back, File
      <3>3. QED
        BY <1>0, <3>2 DEF TypeOK
    <2>3. QED
      BY <1>0, <2>1, <2>2 DEF TypeOK, Helper
  <1>10. CASE MoveIn
    <2>1. helper' = [helper EXCEPT !.away = Nothing,
                       !.next = IF helper.next = 3 THEN 1 ELSE helper.next + 1,
                       !.pc = IF helper.next = 3 THEN AfterFiles ELSE helper.pc]
      BY <1>10 DEF MoveIn
    <2>2. AfterFiles \in HelperPC
      BY DEF AfterFiles, HelperPC
    <2>3. /\ helper.next \in 1..3 /\ helper \in Helper
          /\ (IF helper.next = 3 THEN 1 ELSE helper.next + 1) \in 1..3
      BY <1>0 DEF TypeOK, Helper
    <2>4. (IF helper.next = 3 THEN AfterFiles ELSE helper.pc) \in HelperPC
      BY <2>2, <2>3 DEF Helper
    <2>5. QED
      BY <2>1, <2>3, <2>4 DEF Helper
  <1>11. CASE MoveFails
    <2>1. helper' = [helper EXCEPT !.away = Nothing, !.next = 1,
                       !.pc = IF Replacing THEN "undo" ELSE "fail"]
      BY <1>11 DEF MoveFails
    <2>2. (IF Replacing THEN "undo" ELSE "fail") \in HelperPC
      BY DEF HelperPC
    <2>3. QED
      BY <1>0, <2>1, <2>2, Numbers DEF TypeOK, Helper
  <1>12. CASE DbBack
    <2>1. helper' = [helper EXCEPT !.pc = "restart", !.held = Missing]
          /\ "restart" \in HelperPC
      BY <1>12 DEF DbBack, HelperPC
    <2>2. QED
      BY <1>0, <2>1, Numbers DEF TypeOK, Helper
  <1>13. CASE GiveUp
    <2>1. \/ \E pc \in HelperPC : To(pc)
          \/ helper' = [helper EXCEPT !.pc = "fail", !.held = Missing]
      BY <1>13 DEF GiveUp, HelperPC
    <2>2. "fail" \in HelperPC
      BY DEF HelperPC
    <2>3. QED
      BY <1>0, <2>1, <2>2, Advanced, Numbers DEF TypeOK, Helper
  <1>14. CASE Release
    BY <1>14, Nobody DEF Release
  <1>15. CASE Crash
    BY <1>0, <1>15, CrashEffect, Nobody, Ended DEF TypeOK, HelperPC, around
  <1>16. CASE Write \/ Begin \/ Stage \/ HandOff \/ FailInstall \/ Exit \/
              StartProgram
    BY <1>0, <1>16, Versions
    DEF Write, Begin, Stage, HandOff, FailInstall, Exit, StartProgram,
        around, ProgOnly, Running, LockActive, Orphaned, Stopped, End, disk,
        history, TypeOK, Helper, HelperPC
  <1>17. CASE DbAway
    BY <1>0, <1>17, Versions
    DEF DbAway, history, around, Running, HelperOnly, TypeOK, Helper,
        HelperPC
  <1>18. QED
    BY <1>1, <1>2, <1>3, <1>4, <1>5, <1>6, <1>7, <1>8, <1>9, <1>10, <1>11,
       <1>12, <1>13, <1>14, <1>15, <1>16, <1>17
    DEF Next, Installation, Program, HelperSteps

LEMMA ProgStep ==
  ASSUME IInv, Next
  PROVE  prog' \in Prog
  <1>0. TypeOK /\ Locks /\ Asked
    BY DEF IInv
  <1>1. CASE BootRecovers
    BY <1>0, <1>1, BootRecoversEffect, Ended, Nobody
    DEF disk, history, around
  <1>2. CASE BootOpens
    BY <1>0, <1>2, BootOpensEffect DEF TypeOK, Prog, around
  <1>3. CASE Tick
    BY <1>0, <1>3, TickEffect DEF TypeOK, Prog, around
  <1>4. CASE StartProgram
    <2>1. /\ prog' = [Stopped EXCEPT !.at = "boot", !.v = files["exe"]]
          /\ files["exe"] # Gone
      BY <1>4 DEF StartProgram
    <2>2. files["exe"] \in Version
      BY <1>0, <2>1 DEF TypeOK, File
    <2>3. QED
      BY <1>0, <2>1, <2>2, Ended DEF Prog
  <1>5. CASE TakeRequest
    BY <1>0, <1>5, TakeRequestEffect, Requests, Versions, Nobody
    DEF TypeOK, Prog, around
  <1>6. CASE TakeTransaction
    BY <1>0, <1>6, TakeTransactionEffect, Requests, Versions, Nobody
    DEF TypeOK, Prog, around
  <1>7. CASE DbBack
    BY <1>0, <1>7, DbBackEffect DEF TypeOK, Prog, SameWork, around
  <1>8. CASE StartAgain
    <2>1. prog' = Started /\ files["exe"] # Gone
      BY <1>8 DEF StartAgain
    <2>2. files["exe"] \in Version
      BY <1>0, <2>1 DEF TypeOK, File
    <2>3. CASE prog.at = "off"
      <3>1. prog' = [Stopped EXCEPT !.at = "boot", !.v = files["exe"],
                                    !.child = ~service]
        BY <2>1, <2>3 DEF Started
      <3>2. (~service) \in BOOLEAN
        OBVIOUS
      <3>3. QED
        BY <1>0, <2>2, <3>1, <3>2, Ended DEF Prog
    <2>4. CASE prog.at # "off"
      BY <1>0, <2>1, <2>4 DEF Started, TypeOK
    <2>5. QED
      BY <2>3, <2>4
  <1>9. CASE Healthy
    BY <1>0, <1>9, HealthyEffect DEF TypeOK, Prog, SameWork, disk, around
  <1>10. CASE Unhealthy
    BY <1>0, <1>10, UnhealthyEffect, HaltedProgram, Ended
    DEF TypeOK, Prog, SameWork, disk, around
  <1>11. CASE CommitFails
    BY <1>0, <1>11, CommitFailsEffect, HaltedProgram, Ended
    DEF TypeOK, Prog, SameWork, disk, around
  <1>12. CASE GiveUp
    BY <1>0, <1>12, GiveUpEffect DEF TypeOK, Prog, SameWork, around
  <1>13. CASE Crash
    BY <1>0, <1>13, CrashEffect, Nobody, Ended DEF TypeOK, Prog, around
  <1>14. CASE Write \/ Begin \/ Stage \/ HandOff \/ Launch \/ FailInstall \/
              Exit
    <2>1. CASE Write \/ Begin
      BY <1>0, <2>1, Versions
      DEF Write, Begin, around, ProgOnly, Running, LockActive, disk,
          history, Orphaned, Stopped, End, TypeOK, Prog
    <2>2. CASE Stage \/ HandOff
      BY <1>0, <2>2, Versions
      DEF Stage, HandOff, around, ProgOnly, Running, LockActive, disk,
          history, Orphaned, Stopped, End, TypeOK, Prog
    <2>3. CASE Launch \/ FailInstall
      BY <1>0, <2>3, Versions
      DEF Launch, FailInstall, around, ProgOnly, Running, LockActive, disk,
          history, Orphaned, Stopped, End, TypeOK, Prog
    <2>4. CASE Exit
      BY <1>0, <2>4, Versions
      DEF Exit, around, ProgOnly, Running, LockActive, disk, history,
          Orphaned, Stopped, End, TypeOK, Prog
    <2>5. QED
      BY <1>14, <2>1, <2>2, <2>3, <2>4
  <1>15. CASE TickRecovers \/ StopService \/ Wait \/ FinalizeBackup \/ Verify
              \/ BackUp \/ Record
    <2>1. CASE TickRecovers \/ StopService
      BY <1>0, <2>1, Versions
      DEF TickRecovers, StopService, disk, history, around, LockActive,
          Unattended, NeedsRecovery, LaunchRecovery, Stopped, NoError, End,
          To, At, HelperOnly, AfterWait, FinalizedNow, RecordedNow, TypeOK,
          Prog
    <2>2. CASE Wait \/ FinalizeBackup
      BY <1>0, <2>2, Versions
      DEF Wait, FinalizeBackup, disk, history, around, LockActive,
          Unattended, NeedsRecovery, LaunchRecovery, Stopped, NoError, End,
          To, At, HelperOnly, AfterWait, FinalizedNow, RecordedNow, TypeOK,
          Prog
    <2>3. CASE Verify \/ BackUp
      BY <1>0, <2>3, Versions
      DEF Verify, BackUp, disk, history, around, LockActive, Unattended,
          NeedsRecovery, LaunchRecovery, Stopped, NoError, End, To, At,
          HelperOnly, AfterWait, FinalizedNow, RecordedNow, TypeOK, Prog
    <2>4. CASE Record
      BY <1>0, <2>4, Versions
      DEF Record, disk, history, around, LockActive, Unattended,
          NeedsRecovery, LaunchRecovery, Stopped, NoError, End, To, At,
          HelperOnly, AfterWait, FinalizedNow, RecordedNow, TypeOK, Prog
    <2>5. QED
      BY <1>15, <2>1, <2>2, <2>3, <2>4
  <1>16. CASE Untouched \/ MoveAway \/ MoveIn \/ MoveFails \/ DbAway \/
              DbOpen \/ StartFails
    BY <1>0, <1>16, Versions
    DEF Untouched, MoveAway, MoveIn, MoveFails, DbAway, DbOpen, StartFails,
        disk, Forth, Back, HelperOnly, Replacing, Restoring, Current, Wanted,
        AfterFiles, Running, At, NoError, TypeOK, Prog
  <1>17. CASE StopFails \/ Commit \/ Publish \/ Clear \/ Fail \/ Release
    BY <1>0, <1>17, Versions
    DEF StopFails, Commit, Publish, Clear, Fail, Release, disk, around,
        CommitProven, Published, At, Finalized, Takeable, TypeOK, Prog
  <1>18. QED
    BY <1>1, <1>2, <1>3, <1>4, <1>5, <1>6, <1>7, <1>8, <1>9, <1>10, <1>11,
       <1>12, <1>13, <1>14, <1>15, <1>16, <1>17
    DEF Next, Installation, Program, HelperSteps

LEMMA ContentsStep ==
  ASSUME IInv, Next
  PROVE  db' \in Content /\ saved' \in [Version -> Content] /\ stopped' \in Content
  <1>0. TypeOK /\ Locks /\ Asked
    BY DEF IInv
  <1>1. CASE Write
    <2>1. /\ db' = [db EXCEPT !.writes = db.writes + 1] /\ db.writes < MaxWrites
          /\ UNCHANGED <<saved, stopped>>
      BY <1>1 DEF Write
    <2>2. db.writes + 1 \in 0..MaxWrites
      BY <1>0, <2>1, WindowsAssumption DEF TypeOK, Content
    <2>3. QED
      BY <1>0, <2>1, <2>2 DEF TypeOK, Content
  <1>2. CASE Stage
    <2>1. PICK id \in Id : db' = [db EXCEPT !.rows[id] = "open"]
      BY <1>2 DEF Stage
    <2>2. db' \in Content
      BY <1>0, <2>1 DEF TypeOK, Content, Row
    <2>3. QED
      BY <1>0, <1>2, <2>2 DEF Stage, TypeOK
  <1>3. CASE BootRecovers
    BY <1>0, <1>3, BootRecoversEffect, Ended, Nobody
    DEF TypeOK, Content, Row, disk, history, around
  <1>4. CASE BootOpens
    BY <1>0, <1>4, BootOpensEffect DEF TypeOK, Row, around
  <1>5. CASE Tick
    BY <1>0, <1>5, TickEffect DEF TypeOK, Row, around
  <1>6. CASE TakeRequest
    BY <1>0, <1>6, TakeRequestEffect, Requests, Versions, Nobody
    DEF TypeOK, Row, around
  <1>7. CASE TakeTransaction
    BY <1>0, <1>7, TakeTransactionEffect, Requests, Versions, Nobody
    DEF TypeOK, Row, around
  <1>8. CASE DbAway
    BY <1>0, <1>8, Numbers DEF DbAway, history, TypeOK
  <1>9. CASE DbBack
    <2>1. helper.pc \in Steps /\ db' = saved[helper.req.from]
          /\ UNCHANGED <<saved, stopped>>
      BY <1>0, <1>9, DbBackEffect DEF Steps, HelperPC
    <2>2. helper.req.from \in Version
      BY <1>0, <2>1, HelperHolds, Requests
    <2>3. QED
      BY <1>0, <2>1, <2>2 DEF TypeOK
  <1>10. CASE Healthy
    BY <1>0, <1>10, HealthyEffect
    DEF TypeOK, Content, Row, SameWork, disk, around
  <1>11. CASE Unhealthy
    BY <1>0, <1>11, UnhealthyEffect, HaltedProgram, Ended
    DEF TypeOK, Content, Row, SameWork, disk, around
  <1>12. CASE CommitFails
    BY <1>0, <1>12, CommitFailsEffect, HaltedProgram, Ended
    DEF TypeOK, Content, Row, SameWork, disk, around
  <1>13. CASE GiveUp
    <2>1. db' \in {db, helper.held} /\ UNCHANGED <<saved, stopped>>
      BY <1>0, <1>13, GiveUpEffect
    <2>2. QED
      BY <1>0, <2>1 DEF TypeOK, Helper
  <1>14. CASE Crash
    BY <1>0, <1>14, CrashEffect, Nobody, Ended DEF TypeOK, Row, around
  <1>15. CASE Begin \/ HandOff \/ Launch \/ FailInstall \/ Exit \/
              TickRecovers \/ StartProgram
    BY <1>0, <1>15, Versions
    DEF Begin, HandOff, Launch, FailInstall, Exit, TickRecovers,
        StartProgram, around, LockActive, ProgOnly, disk, history, Orphaned,
        Stopped, End, Unattended, NeedsRecovery, LaunchRecovery, TypeOK,
        Content, Row
  <1>16. CASE StopService \/ Wait \/ FinalizeBackup \/ Verify \/ BackUp \/
              Record \/ Untouched
    <2>1. CASE StopService \/ Wait
      BY <1>0, <2>1, Versions
      DEF StopService, Wait, around, Stopped, NoError, End, To, At,
          HelperOnly, disk, history, AfterWait, FinalizedNow, RecordedNow,
          Error, TypeOK, Content, Row
    <2>2. CASE FinalizeBackup \/ Verify
      BY <1>0, <2>2, Versions
      DEF FinalizeBackup, Verify, around, Stopped, NoError, End, To, At,
          HelperOnly, disk, history, AfterWait, FinalizedNow, RecordedNow,
          Error, TypeOK, Content, Row
    <2>3. CASE BackUp \/ Record
      BY <1>0, <2>3, Versions
      DEF BackUp, Record, around, Stopped, NoError, End, To, At, HelperOnly,
          disk, history, AfterWait, FinalizedNow, RecordedNow, Error,
          TypeOK, Content, Row
    <2>4. CASE Untouched
      BY <1>0, <2>4, Versions
      DEF Untouched, around, Stopped, NoError, End, To, At, HelperOnly,
          disk, history, AfterWait, FinalizedNow, RecordedNow, Error,
          TypeOK, Content, Row
    <2>5. QED
      BY <1>16, <2>1, <2>2, <2>3, <2>4
  <1>17. CASE MoveAway \/ MoveIn \/ MoveFails \/ DbOpen \/ StartAgain \/
              StartFails \/ StopFails
    BY <1>0, <1>17, Versions
    DEF MoveAway, MoveIn, MoveFails, DbOpen, StartAgain, StartFails,
        StopFails, history, Replacing, Restoring, Current, Wanted,
        AfterFiles, Error, disk, Running, To, At, Stopped, Started,
        AfterStart, NoError, TypeOK, Content, Row
  <1>18. CASE Commit \/ Publish \/ Clear \/ Fail \/ Release
    BY <1>0, <1>18, Versions
    DEF Commit, Publish, Clear, Fail, Release, history, around, To,
        Finalized, Takeable, TypeOK, Content, Row
  <1>19. QED
    BY <1>1, <1>2, <1>3, <1>4, <1>5, <1>6, <1>7, <1>8, <1>9, <1>10, <1>11,
       <1>12, <1>13, <1>14, <1>15, <1>16, <1>17, <1>18
    DEF Next, Installation, Program, HelperSteps

LEMMA LocksStep ==
  ASSUME IInv, Next
  PROVE  Locks'
  <1>0. TypeOK /\ Locks /\ Asked /\ Marked
    BY DEF IInv
  <1>1. CASE BootRecovers
    <2>1. lock' = lock /\ lock.pid \notin {"program", "helper"}
      BY <1>0, <1>1, BootRecoversEffect
      DEF disk, NeedsRecovery, Unattended, LockActive
    <2>2. helper'.pc \notin Steps
      <3>1. helper.pc \notin Steps
        BY <1>0, <2>1 DEF Locks, Taken
      <3>2. QED
        BY <1>0, <3>1, <1>1, BootRecoversEffect DEF Steps
    <2>3. prog'.web = "idle"
      BY <1>0, <1>1, BootRecoversEffect, Ended
    <2>4. QED
      BY <2>1, <2>2, <2>3 DEF Locks
  <1>2. CASE BootOpens
    BY <1>0, <1>2, BootOpensEffect
    DEF Locks, Lock, Prog, Helper, Running, HelperPC, TypeOK, around
  <1>3. CASE Tick
    BY <1>0, <1>3, TickEffect
    DEF Locks, Lock, Prog, Helper, Running, HelperPC, TypeOK, around
  <1>4. CASE TakeRequest
    <2>1. /\ prog' = prog /\ helper.pc = "read" /\ helper.req \in Request
          /\ helper.req.id # 0
          /\ Handing => request' = request /\ request.id # helper.req.id
      BY <1>0, <1>4, TakeRequestEffect, Requests
    <2>2. CASE /\ helper'.pc \in {"stop", "wait"} /\ helper'.req = helper.req
               /\ lock.token = helper.req.id /\ lock' = Taken(helper.req)
      <3>1. prog.web = "idle"
        BY <1>0, <2>1, <2>2 DEF Locks, Handing, TypeOK, Prog
      <3>2. lock'.pid = "helper"
        BY <2>2 DEF Taken
      <3>3. helper'.pc \in Steps
        BY <2>2 DEF Steps, HelperPC
      <3>4. QED
        BY <2>1, <2>2, <3>1, <3>2, <3>3 DEF Locks, Taken
    <2>3. CASE helper' = NoHelper /\ lock' = lock
      <3>1. helper.pc \notin Steps /\ helper'.pc \notin Steps
        BY <2>1, <2>3, Nobody DEF Steps
      <3>2. QED
        BY <1>0, <2>1, <2>3, <3>1 DEF Locks, Running, Handing
    <2>4. QED
      BY <1>0, <1>4, <2>2, <2>3, TakeRequestEffect
  <1>5. CASE TakeTransaction
    <2>1. /\ prog' = prog /\ helper.pc = "read" /\ request' = request
      BY <1>0, <1>5, TakeTransactionEffect
    <2>2. CASE /\ helper'.pc \in {"stop", "wait"} /\ helper'.req = tx.req
               /\ tx.req \in Request /\ lock' = Taken(tx.req)
               /\ helper.recovers
      <3>1. prog.web = "idle"
        BY <1>0, <2>1, <2>2 DEF Locks, Marked, NeedsRecovery
      <3>2. lock'.pid = "helper" /\ helper'.pc \in Steps
        BY <2>2 DEF Taken, Steps, HelperPC
      <3>3. QED
        BY <2>1, <2>2, <3>1, <3>2 DEF Locks, Taken
    <2>3. CASE helper' = NoHelper /\ lock' = lock
      <3>1. helper.pc \notin Steps /\ helper'.pc \notin Steps
        BY <2>1, <2>3, Nobody DEF Steps
      <3>2. QED
        BY <1>0, <2>1, <2>3, <3>1 DEF Locks, Running
    <2>4. QED
      BY <1>0, <1>5, <2>2, <2>3, TakeTransactionEffect
  <1>6. CASE DbBack
    BY <1>0, <1>6, DbBackEffect
    DEF Locks, Lock, Prog, Helper, Steps, Taken, NoHelper, NoRequest,
        Running, HelperPC, TypeOK, SameWork, around
  <1>7. CASE Healthy
    BY <1>0, <1>7, HealthyEffect
    DEF Locks, Lock, Prog, Helper, Steps, Taken, NoHelper, NoRequest,
        Running, HelperPC, TypeOK, SameWork, disk, around
  <1>8. CASE Unhealthy
    <2>1. /\ helper'.req = helper.req /\ helper.pc \in Steps
          /\ UNCHANGED <<lock, request>>
      BY <1>0, <1>8, UnhealthyEffect DEF SameWork, disk, Steps, HelperPC
    <2>2. prog' \in {prog, Stopped}
      BY <1>0, <1>8, UnhealthyEffect, HaltedProgram
    <2>3. lock.pid # "program"
      BY <1>0, <2>1 DEF Locks, Taken
    <2>4. lock = Taken(helper.req) /\ helper.req \in Request
      BY <1>0, <2>1 DEF Locks
    <2>5. prog'.web # "idle" => prog' = prog
      BY <1>0, <2>2, Ended
    <2>6. helper'.pc \in Steps
      BY <1>0, <1>8, UnhealthyEffect DEF Steps, HelperPC
    <2>7. QED
      BY <1>0, <2>1, <2>3, <2>4, <2>5, <2>6 DEF Locks, Taken
  <1>9. CASE CommitFails
    <2>1. /\ helper'.req = helper.req /\ helper.pc \in Steps
          /\ UNCHANGED <<lock, request>>
      BY <1>0, <1>9, CommitFailsEffect DEF SameWork, disk, Steps, HelperPC
    <2>2. prog' \in {prog, Stopped}
      BY <1>0, <1>9, CommitFailsEffect, HaltedProgram
    <2>3. lock.pid # "program"
      BY <1>0, <2>1 DEF Locks, Taken
    <2>4. lock = Taken(helper.req) /\ helper.req \in Request
      BY <1>0, <2>1 DEF Locks
    <2>5. prog'.web # "idle" => prog' = prog
      BY <1>0, <2>2, Ended
    <2>6. helper'.pc \in Steps
      BY <1>0, <1>9, CommitFailsEffect DEF Steps, HelperPC
    <2>7. QED
      BY <1>0, <2>1, <2>3, <2>4, <2>5, <2>6 DEF Locks, Taken
  <1>10. CASE GiveUp
    BY <1>0, <1>10, GiveUpEffect
    DEF Locks, Lock, Prog, Helper, Steps, Taken, NoHelper, NoRequest,
        Running, HelperPC, TypeOK, SameWork, around
  <1>11. CASE Crash
    <2>1. /\ request' = request /\ lock \in Lock
          /\ lock'.pid \in {lock.pid, "dead"}
      BY <1>0, <1>11, CrashEffect DEF TypeOK
    <2>2. CASE /\ prog' = Stopped /\ helper' = helper
               /\ lock'.pid # "program" /\ (lock.pid # "program" => lock' = lock)
      <3>1. prog'.web = "idle"
        BY <2>2, Ended DEF IInv
      <3>2. helper.pc \in Steps => lock' = lock
        BY <1>0, <2>2 DEF Locks, Taken
      <3>3. QED
        BY <1>0, <2>1, <2>2, <3>1, <3>2 DEF Locks, Taken
    <2>3. CASE /\ helper' = NoHelper /\ prog' = prog
               /\ lock'.pid # "helper" /\ (lock.pid # "helper" => lock' = lock)
      <3>1. helper'.pc \notin Steps
        BY <2>3, Nobody DEF Steps
      <3>2. lock.pid = "program" => lock' = lock
        BY <2>3
      <3>3. prog.web \in {"locked", "staged", "handed"} => lock' = lock
        BY <1>0, <3>2 DEF Locks
      <3>4. QED
        BY <1>0, <2>1, <2>3, <3>1, <3>3 DEF Locks, Running
    <2>4. CASE /\ prog' = Stopped /\ helper' = NoHelper
               /\ lock'.pid \notin {"program", "helper"}
      <3>1. prog'.web = "idle" /\ helper'.pc \notin Steps
        BY <2>4, Ended, Nobody DEF IInv, Steps
      <3>2. QED
        BY <2>4, <3>1 DEF Locks
    <2>5. QED
      BY <1>0, <1>11, <2>2, <2>3, <2>4, CrashEffect
  <1>12. CASE Write \/ Begin
    BY <1>0, <1>12, Versions
    DEF Write, Begin, around, ProgOnly, Running, LockActive, Locks, Lock,
        Prog, Helper, Steps, Taken, NoHelper, NoRequest, HelperPC, TypeOK
  <1>13. CASE Stage
    BY <1>0, <1>13, Versions
    DEF Stage, around, ProgOnly, Locks, Taken, NoHelper, NoRequest, Running,
        HelperPC, TypeOK
  <1>14. CASE HandOff
    BY <1>0, <1>14, Versions
    DEF HandOff, around, ProgOnly, Locks, Taken, NoHelper, NoRequest,
        Running, HelperPC, TypeOK
  <1>15. CASE Launch
    BY <1>0, <1>15, Versions
    DEF Launch, disk, history, around, Locks, Lock, Prog, Helper, Steps,
        Taken, NoHelper, NoRequest, Running, HelperPC, TypeOK
  <1>16. CASE FailInstall
    BY <1>0, <1>16, Versions
    DEF FailInstall, around, ProgOnly, Locks, Lock, Prog, Helper, Steps,
        Taken, Free, NoHelper, NoRequest, Running, HelperPC, TypeOK
  <1>17. CASE Exit
    BY <1>0, <1>17, Versions
    DEF Exit, around, Orphaned, Stopped, ProgOnly, End, Locks, Lock, Prog,
        Helper, Steps, Taken, Free, NoHelper, NoRequest, Running, HelperPC,
        TypeOK
  <1>18. CASE TickRecovers
    BY <1>0, <1>18, Versions
    DEF TickRecovers, disk, history, around, LockActive, Unattended,
        NeedsRecovery, LaunchRecovery, Locks, Lock, Prog, Helper, Steps,
        Taken, NoHelper, NoRequest, Running, HelperPC, TypeOK
  <1>19. CASE StartProgram
    BY <1>0, <1>19, Versions
    DEF StartProgram, disk, history, around, Stopped, Locks, Lock, Prog,
        NoRequest, Running, HelperPC, TypeOK
  <1>20. CASE StopService
    BY <1>0, <1>20, Versions
    DEF StopService, around, Stopped, NoError, End, To, At, HelperOnly,
        Locks, Lock, Prog, Helper, Steps, Taken, NoHelper, NoRequest,
        Running, HelperPC, TypeOK
  <1>21. CASE Wait
    BY <1>0, <1>21, Versions
    DEF Wait, disk, history, around, To, At, HelperOnly, AfterWait, Locks,
        Lock, Prog, Helper, Steps, Taken, NoHelper, NoRequest, Running,
        HelperPC, TypeOK
  <1>22. CASE FinalizeBackup \/ Verify \/ BackUp
    <2>1. CASE FinalizeBackup
      BY <1>0, <2>1, Versions
      DEF FinalizeBackup, history, around, To, At, HelperOnly, FinalizedNow,
          disk, Locks, Lock, Prog, Helper, Steps, Taken, NoHelper,
          NoRequest, Running, HelperPC, TypeOK
    <2>2. CASE Verify
      BY <1>0, <2>2, Versions
      DEF Verify, history, around, To, At, HelperOnly, FinalizedNow, disk,
          Locks, Lock, Prog, Helper, Steps, Taken, NoHelper, NoRequest,
          Running, HelperPC, TypeOK
    <2>3. CASE BackUp
      BY <1>0, <2>3, Versions
      DEF BackUp, history, around, To, At, HelperOnly, FinalizedNow, disk,
          Locks, Lock, Prog, Helper, Steps, Taken, NoHelper, NoRequest,
          Running, HelperPC, TypeOK
    <2>4. QED
      BY <1>22, <2>1, <2>2, <2>3
  <1>23. CASE Record \/ Untouched
    <2>1. CASE Record
      BY <1>0, <2>1, Versions
      DEF Record, history, around, To, At, HelperOnly, RecordedNow, disk,
          Error, Locks, Lock, Prog, Helper, Steps, Taken, NoHelper,
          NoRequest, Running, HelperPC, TypeOK
    <2>2. CASE Untouched
      BY <1>0, <2>2, Versions
      DEF Untouched, history, around, To, At, HelperOnly, RecordedNow, disk,
          Error, Locks, Lock, Prog, Helper, Steps, Taken, NoHelper,
          NoRequest, Running, HelperPC, TypeOK
    <2>3. QED
      BY <1>23, <2>1, <2>2
  <1>24. CASE MoveAway
    BY <1>0, <1>24, Versions
    DEF MoveAway, history, around, Forth, Current, Locks, Lock, Prog, Helper,
        Steps, Taken, NoHelper, NoRequest, Running, HelperPC, TypeOK
  <1>25. CASE MoveIn
    BY <1>0, <1>25, Versions
    DEF MoveIn, history, around, Forth, Back, HelperOnly, Replacing,
        Restoring, Current, Wanted, AfterFiles, Locks, Lock, Prog, Helper,
        Steps, Taken, NoHelper, NoRequest, Running, HelperPC, TypeOK
  <1>26. CASE MoveFails
    BY <1>0, <1>26, Versions
    DEF MoveFails, around, Forth, Back, Error, HelperOnly, Replacing,
        Restoring, Current, Locks, Lock, Prog, Helper, Steps, Taken,
        NoHelper, NoRequest, Running, HelperPC, TypeOK
  <1>27. CASE DbAway
    BY <1>0, <1>27, Versions
    DEF DbAway, history, around, Running, HelperOnly, Locks, Lock, Prog,
        Helper, Steps, Taken, NoHelper, NoRequest, HelperPC, TypeOK
  <1>28. CASE DbOpen
    BY <1>0, <1>28, Versions
    DEF DbOpen, disk, history, around, Running, To, At, HelperOnly, Locks,
        Lock, Prog, Helper, Steps, Taken, NoHelper, NoRequest, HelperPC,
        TypeOK
  <1>29. CASE StartAgain
    BY <1>0, <1>29, Versions
    DEF StartAgain, disk, history, around, Stopped, To, HelperOnly, Started,
        AfterStart, Locks, Lock, Prog, Helper, Steps, Taken, NoHelper,
        NoRequest, Running, HelperPC, TypeOK
  <1>30. CASE StartFails
    BY <1>0, <1>30, Versions
    DEF StartFails, disk, around, Error, NoError, To, HelperOnly, Locks,
        Lock, Prog, Helper, Steps, Taken, NoHelper, NoRequest, Running,
        HelperPC, TypeOK
  <1>31. CASE StopFails
    BY <1>0, <1>31, Versions
    DEF StopFails, disk, around, Error, To, HelperOnly, Locks, Lock, Prog,
        Helper, Steps, Taken, NoHelper, NoRequest, Running, HelperPC, TypeOK
  <1>32. CASE Commit
    BY <1>0, <1>32, Versions
    DEF Commit, history, around, To, HelperOnly, CommitProven, Locks, Lock,
        Prog, Helper, Steps, Taken, NoHelper, NoRequest, Running, HelperPC,
        TypeOK
  <1>33. CASE Publish
    BY <1>0, <1>33, Versions
    DEF Publish, history, around, Published, To, At, HelperOnly, Locks, Lock,
        Prog, Helper, Steps, Taken, NoHelper, NoRequest, Running, HelperPC,
        TypeOK
  <1>34. CASE Clear
    BY <1>0, <1>34, Versions
    DEF Clear, history, around, Finalized, To, At, HelperOnly, Locks, Lock,
        Prog, Helper, Steps, Taken, NoHelper, NoRequest, Running, HelperPC,
        TypeOK
  <1>35. CASE Fail
    BY <1>0, <1>35, Versions
    DEF Fail, history, around, To, At, HelperOnly, Locks, Lock, Prog, Helper,
        Steps, Taken, NoHelper, NoRequest, Running, HelperPC, TypeOK
  <1>36. CASE Release
    BY <1>0, <1>36, Versions
    DEF Release, history, around, HelperOnly, Takeable, Locks, Lock, Prog,
        Helper, Steps, Taken, Free, NoHelper, NoRequest, Running, HelperPC,
        TypeOK
  <1>37. QED
    BY <1>1, <1>2, <1>3, <1>4, <1>5, <1>6, <1>7, <1>8, <1>9, <1>10, <1>11,
       <1>12, <1>13, <1>14, <1>15, <1>16, <1>17, <1>18, <1>19, <1>20,
       <1>21, <1>22, <1>23, <1>24, <1>25, <1>26, <1>27, <1>28, <1>29,
       <1>30, <1>31, <1>32, <1>33, <1>34, <1>35, <1>36
    DEF Next, Installation, Program, HelperSteps

LEMMA AskedStep ==
  ASSUME IInv, Next
  PROVE  Asked'
  <1>0. TypeOK /\ Locks /\ Asked
    BY DEF IInv
  <1>1. CASE BootRecovers
    BY <1>0, <1>1, BootRecoversEffect, Ended, Nobody
    DEF Asked, Begun, Handing, Locks, Request, Content, TypeOK, disk,
        history, around
  <1>2. CASE BootOpens
    BY <1>0, <1>2, BootOpensEffect
    DEF Asked, Begun, Handing, Locks, Prog, Helper, NoRequest, Request,
        Content, TypeOK, around
  <1>3. CASE Tick
    BY <1>0, <1>3, TickEffect
    DEF Asked, Begun, Handing, Locks, Prog, Helper, NoRequest, Request,
        Content, TypeOK, around
  <1>4. CASE TakeRequest
    BY <1>0, <1>4, TakeRequestEffect, Requests, Versions, Nobody
    DEF Asked, Begun, Handing, Locks
  <1>5. CASE TakeTransaction
    BY <1>0, <1>5, TakeTransactionEffect, Requests, Versions, Nobody
    DEF Asked, Begun, Handing, Locks
  <1>6. CASE DbBack
    <2>1. helper'.pc # "read" /\ helper.pc \in Steps
      BY <1>0, <1>6, DbBackEffect DEF Steps, HelperPC
    <2>2. prog'.web = "idle"
      BY <1>0, <2>1, <1>6, HelperHolds, DbBackEffect
    <2>3. QED
      BY <2>1, <2>2 DEF Asked, Begun, Handing
  <1>7. CASE Healthy
    BY <1>0, <1>7, HealthyEffect
    DEF Asked, Begun, Handing, Locks, Content, TypeOK, SameWork, disk, around
  <1>8. CASE Unhealthy
    <2>1. helper'.pc # "read" /\ helper.pc \in Steps
      BY <1>0, <1>8, UnhealthyEffect DEF Steps, HelperPC
    <2>2. prog'.web = "idle"
      BY <1>0, <2>1, <1>8, HelperHolds, UnhealthyEffect, HaltedProgram, Ended
    <2>3. QED
      BY <2>1, <2>2 DEF Asked, Begun, Handing
  <1>9. CASE CommitFails
    <2>1. helper'.pc # "read" /\ helper.pc \in Steps
      BY <1>0, <1>9, CommitFailsEffect DEF Steps, HelperPC
    <2>2. prog'.web = "idle"
      BY <1>0, <2>1, <1>9, HelperHolds, CommitFailsEffect, HaltedProgram, Ended
    <2>3. QED
      BY <2>1, <2>2 DEF Asked, Begun, Handing
  <1>10. CASE GiveUp
    <2>1. helper'.pc # "read" /\ helper.pc \in Steps
      BY <1>0, <1>10, GiveUpEffect DEF Steps, HelperPC
    <2>2. prog'.web = "idle"
      BY <1>0, <2>1, <1>10, HelperHolds, GiveUpEffect
    <2>3. QED
      BY <2>1, <2>2 DEF Asked, Begun, Handing
  <1>11. CASE Crash
    <2>1. UNCHANGED <<request, db>>
      BY <1>0, <1>11, CrashEffect
    <2>2. /\ prog' = prog \/ prog'.web = "idle"
          /\ helper' = helper \/ helper'.pc = "off"
      BY <1>0, <1>11, CrashEffect, Ended, Nobody
    <2>3. QED
      BY <1>0, <2>1, <2>2 DEF Asked, Begun, Handing
  <1>12. CASE Write
    BY <1>0, <1>12, Versions
    DEF Write, around, ProgOnly, Running, Asked, Begun, Handing, Locks,
        Content, TypeOK
  <1>13. CASE Begin
    BY <1>0, <1>13, Versions
    DEF Begin, around, LockActive, ProgOnly, Asked, Begun, Handing, Locks,
        Content, TypeOK
  <1>14. CASE Stage
    BY <1>0, <1>14, Versions
    DEF Stage, around, ProgOnly, Asked, Begun, Handing, Locks, Prog, Helper,
        NoRequest, Request, Content, TypeOK
  <1>15. CASE HandOff
    BY <1>0, <1>15, Versions
    DEF HandOff, around, ProgOnly, Asked, Begun, Handing, Locks, Prog, TypeOK
  <1>16. CASE Launch
    BY <1>0, <1>16, Versions
    DEF Launch, disk, history, around, Asked, Begun, Handing, Locks, Request,
        Content, TypeOK
  <1>17. CASE FailInstall
    BY <1>0, <1>17, Versions
    DEF FailInstall, around, ProgOnly, Asked, Begun, Handing, Locks, Prog,
        Helper, NoRequest, Request, Content, TypeOK
  <1>18. CASE Exit
    BY <1>0, <1>18, Versions
    DEF Exit, around, Orphaned, Stopped, ProgOnly, End, Asked, Begun,
        Handing, Locks, Prog, Helper, NoRequest, Request, Content, TypeOK
  <1>19. CASE TickRecovers
    BY <1>0, <1>19, Versions
    DEF TickRecovers, disk, history, around, LockActive, Unattended,
        NeedsRecovery, LaunchRecovery, Asked, Begun, Handing, Locks, Prog,
        Helper, NoHelper, NoRequest, Request, Content, TypeOK
  <1>20. CASE StartProgram
    BY <1>0, <1>20, Versions
    DEF StartProgram, disk, history, around, Stopped, Asked, Begun, Handing,
        Request, Content, TypeOK
  <1>21. CASE StopService
    BY <1>0, <1>21, Versions
    DEF StopService, around, Stopped, NoError, End, To, At, HelperOnly,
        Asked, Begun, Handing, Locks, Prog, Helper, NoRequest, Request,
        Content, TypeOK
  <1>22. CASE Wait
    BY <1>0, <1>22, Versions
    DEF Wait, disk, history, around, To, At, HelperOnly, AfterWait, Asked,
        Begun, Handing, Locks, Prog, Helper, NoRequest, Request, Content,
        TypeOK
  <1>23. CASE FinalizeBackup \/ Verify \/ BackUp
    <2>1. CASE FinalizeBackup
      BY <1>0, <2>1, Versions
      DEF FinalizeBackup, history, around, To, At, HelperOnly, FinalizedNow,
          disk, Asked, Begun, Handing, Locks, Prog, Helper, NoRequest,
          Request, Content, TypeOK
    <2>2. CASE Verify
      BY <1>0, <2>2, Versions
      DEF Verify, history, around, To, At, HelperOnly, FinalizedNow, disk,
          Asked, Begun, Handing, Locks, Prog, Helper, NoRequest, Request,
          Content, TypeOK
    <2>3. CASE BackUp
      BY <1>0, <2>3, Versions
      DEF BackUp, history, around, To, At, HelperOnly, FinalizedNow, disk,
          Asked, Begun, Handing, Locks, Prog, Helper, NoRequest, Request,
          Content, TypeOK
    <2>4. QED
      BY <1>23, <2>1, <2>2, <2>3
  <1>24. CASE Record \/ Untouched
    <2>1. CASE Record
      BY <1>0, <2>1, Versions
      DEF Record, history, around, To, At, HelperOnly, RecordedNow, disk,
          Error, Asked, Begun, Handing, Locks, Prog, Helper, NoRequest,
          Request, Content, TypeOK
    <2>2. CASE Untouched
      BY <1>0, <2>2, Versions
      DEF Untouched, history, around, To, At, HelperOnly, RecordedNow, disk,
          Error, Asked, Begun, Handing, Locks, Prog, Helper, NoRequest,
          Request, Content, TypeOK
    <2>3. QED
      BY <1>24, <2>1, <2>2
  <1>25. CASE MoveAway
    BY <1>0, <1>25, Versions
    DEF MoveAway, history, around, Forth, Current, Asked, Begun, Handing,
        Locks, Prog, Helper, NoRequest, Request, Content, TypeOK
  <1>26. CASE MoveIn
    BY <1>0, <1>26, Versions
    DEF MoveIn, history, around, Forth, Current, Wanted, AfterFiles, Asked,
        Begun, Handing, Locks, Prog, Helper, NoRequest, Request, Content,
        TypeOK
  <1>27. CASE MoveFails
    BY <1>0, <1>27, Versions
    DEF MoveFails, around, Forth, Back, Current, Asked, Begun, Handing,
        Locks, Prog, Helper, NoRequest, Request, Content, TypeOK
  <1>28. CASE DbAway
    BY <1>0, <1>28, Versions
    DEF DbAway, history, around, Running, HelperOnly, Asked, Begun, Handing,
        Locks, Prog, Helper, NoRequest, Request, Content, TypeOK
  <1>29. CASE DbOpen
    BY <1>0, <1>29, Versions
    DEF DbOpen, disk, history, around, Running, To, At, HelperOnly, Asked,
        Begun, Handing, Locks, Prog, Helper, NoRequest, Request, Content,
        TypeOK
  <1>30. CASE StartAgain
    BY <1>0, <1>30, Versions
    DEF StartAgain, disk, history, around, Stopped, To, HelperOnly, Started,
        AfterStart, Asked, Begun, Handing, Locks, Prog, Helper, NoRequest,
        Request, Content, TypeOK
  <1>31. CASE StartFails
    BY <1>0, <1>31, Versions
    DEF StartFails, disk, around, Error, NoError, To, HelperOnly, Asked,
        Begun, Handing, Locks, Prog, Helper, NoRequest, Request, Content,
        TypeOK
  <1>32. CASE StopFails \/ Commit
    <2>1. CASE StopFails
      BY <1>0, <2>1, Versions
      DEF StopFails, disk, around, Error, To, HelperOnly, history,
          CommitProven, Asked, Begun, Handing, Locks, Prog, Helper,
          NoRequest, Request, Content, TypeOK
    <2>2. CASE Commit
      BY <1>0, <2>2, Versions
      DEF Commit, disk, around, Error, To, HelperOnly, history,
          CommitProven, Asked, Begun, Handing, Locks, Prog, Helper,
          NoRequest, Request, Content, TypeOK
    <2>3. QED
      BY <1>32, <2>1, <2>2
  <1>33. CASE Publish \/ Clear \/ Fail
    <2>1. CASE Publish
      BY <1>0, <2>1, Versions
      DEF Publish, history, around, Published, To, At, HelperOnly,
          Finalized, Asked, Begun, Handing, Locks, Prog, Helper, NoRequest,
          Request, Content, TypeOK
    <2>2. CASE Clear
      BY <1>0, <2>2, Versions
      DEF Clear, history, around, Published, To, At, HelperOnly, Finalized,
          Asked, Begun, Handing, Locks, Prog, Helper, NoRequest, Request,
          Content, TypeOK
    <2>3. CASE Fail
      BY <1>0, <2>3, Versions
      DEF Fail, history, around, Published, To, At, HelperOnly, Finalized,
          Asked, Begun, Handing, Locks, Prog, Helper, NoRequest, Request,
          Content, TypeOK
    <2>4. QED
      BY <1>33, <2>1, <2>2, <2>3
  <1>34. CASE Release
    BY <1>0, <1>34, Versions
    DEF Release, history, around, HelperOnly, Takeable, Asked, Begun,
        Handing, Locks, Prog, Helper, NoHelper, NoRequest, Request, Content,
        TypeOK
  <1>35. QED
    BY <1>1, <1>2, <1>3, <1>4, <1>5, <1>6, <1>7, <1>8, <1>9, <1>10, <1>11,
       <1>12, <1>13, <1>14, <1>15, <1>16, <1>17, <1>18, <1>19, <1>20,
       <1>21, <1>22, <1>23, <1>24, <1>25, <1>26, <1>27, <1>28, <1>29,
       <1>30, <1>31, <1>32, <1>33, <1>34
    DEF Next, Installation, Program, HelperSteps

LEMMA MarkedStep ==
  ASSUME IInv, Next
  PROVE  Marked'
  <1>0. TypeOK /\ Locks /\ Asked /\ Marked
    BY DEF IInv
  <1>1. CASE BootRecovers
    <2>1. /\ UNCHANGED <<tx, lock>> /\ prog' = Stopped /\ NeedsRecovery
          /\ \/ helper' = helper
             \/ helper'.pc = "read" /\ helper'.recovers
      BY <1>0, <1>1, BootRecoversEffect DEF disk
    <2>2. NeedsRecovery' /\ prog'.at # "up"
      BY <1>0, <2>1, Ended DEF NeedsRecovery, Unattended, LockActive
    <2>3. CASE helper' = helper
      BY <1>0, <2>1, <2>2, <2>3 DEF Marked, Going
    <2>4. CASE helper'.pc = "read"
      BY <1>0, <2>1, <2>2, <2>4
      DEF Marked, Going, FirstSteps, InTx, Steps, NoTransaction
    <2>5. QED
      BY <2>1, <2>3, <2>4
  <1>2. CASE BootOpens
    <2>1. /\ UNCHANGED <<lock, helper>>
          /\ \/ tx' = tx
             \/ tx' = NoTransaction /\ ~LockActive /\ tx.done # "no"
      BY <1>0, <1>2, BootOpensEffect
    <2>2. ~(helper.pc = "read" /\ helper.recovers)
      BY <1>0, <1>2, BootOpensEffect DEF Marked
    <2>3. CASE tx' = tx
      BY <1>0, <2>1, <2>2, <2>3 DEF Marked, Going
    <2>4. CASE tx' = NoTransaction /\ ~LockActive /\ tx.done # "no"
      <3>1. ~Going /\ helper.pc \notin {"publish", "clear"}
        <4>1. helper.pc \notin Steps
          BY <1>0, <2>4, HelperHolds
        <4>2. QED
          BY <1>0, <2>4, <4>1 DEF Marked, Steps, HelperPC
      <3>2. QED
        BY <1>0, <2>1, <2>2, <2>4, <3>1 DEF Marked, Going
    <2>5. QED
      BY <2>1, <2>3, <2>4
  <1>3. CASE Tick
    <2>1. /\ UNCHANGED <<lock, helper>>
          /\ \/ tx' = tx
             \/ tx' = NoTransaction /\ ~LockActive /\ tx.done # "no"
      BY <1>0, <1>3, TickEffect
    <2>2. ~(helper.pc = "read" /\ helper.recovers)
      BY <1>0, <1>3, TickEffect DEF Marked
    <2>3. CASE tx' = tx
      BY <1>0, <2>1, <2>2, <2>3 DEF Marked, Going
    <2>4. CASE tx' = NoTransaction /\ ~LockActive /\ tx.done # "no"
      <3>1. ~Going /\ helper.pc \notin {"publish", "clear"}
        <4>1. helper.pc \notin Steps
          BY <1>0, <2>4, HelperHolds
        <4>2. QED
          BY <1>0, <2>4, <4>1 DEF Marked, Steps, HelperPC
      <3>2. QED
        BY <1>0, <2>1, <2>2, <2>4, <3>1 DEF Marked, Going
    <2>5. QED
      BY <2>1, <2>3, <2>4
  <1>4. CASE TakeRequest
    BY <1>0, <1>4, TakeRequestEffect, Requests, Versions, Nobody
    DEF Marked, Going, InTx, FirstSteps, Begun, Locks, Asked, Prog, Helper,
        HelperPC, Steps, NoHelper, NoTransaction, NoRequest, NeedsRecovery,
        Unattended, LockActive, TypeOK, around
  <1>5. CASE TakeTransaction
    <2>1. tx' = tx /\ helper.pc = "read" /\ helper.recovers
      BY <1>0, <1>5, TakeTransactionEffect
    <2>2. CASE /\ helper'.pc \in {"stop", "wait"} /\ helper'.req = tx.req
               /\ helper'.recovers
      <3>1. tx # NoTransaction /\ tx.done = "no"
        BY <1>0, <2>1 DEF Marked, NeedsRecovery, Unattended
      <3>2. tx = [req |-> tx.req, done |-> "no"]
        BY <1>0, <3>1 DEF TypeOK, Transaction
      <3>3. QED
        BY <1>0, <2>1, <2>2, <3>1, <3>2
        DEF Marked, Going, FirstSteps, InTx, Steps, HelperPC
    <2>3. CASE helper' = NoHelper
      BY <1>0, <2>1, <2>3, Nobody DEF Marked, Going, FirstSteps, InTx, Steps
    <2>4. QED
      BY <1>0, <1>5, <2>2, <2>3, TakeTransactionEffect
  <1>6. CASE DbBack
    BY <1>0, <1>6, DbBackEffect
    DEF Marked, Going, InTx, FirstSteps, Helper, HelperPC, Steps, NoHelper,
        NoTransaction, NoRequest, NeedsRecovery, Unattended, LockActive,
        TypeOK, SameWork, around
  <1>7. CASE Healthy
    BY <1>0, <1>7, HealthyEffect
    DEF Marked, Going, InTx, FirstSteps, Helper, HelperPC, Steps, NoHelper,
        NoTransaction, NoRequest, NeedsRecovery, Unattended, LockActive,
        TypeOK, SameWork, disk, around
  <1>8. CASE Unhealthy
    BY <1>0, <1>8, UnhealthyEffect, HaltedProgram, Ended
    DEF Marked, Going, InTx, FirstSteps, Helper, HelperPC, Steps, NoHelper,
        NoTransaction, NoRequest, NeedsRecovery, Unattended, LockActive,
        TypeOK, SameWork, disk, around
  <1>9. CASE CommitFails
    BY <1>0, <1>9, CommitFailsEffect, HaltedProgram, Ended
    DEF Marked, Going, InTx, FirstSteps, Helper, HelperPC, Steps, NoHelper,
        NoTransaction, NoRequest, NeedsRecovery, Unattended, LockActive,
        TypeOK, SameWork, disk, around
  <1>10. CASE GiveUp
    BY <1>0, <1>10, GiveUpEffect
    DEF Marked, Going, InTx, FirstSteps, Helper, HelperPC, Steps, NoHelper,
        NoTransaction, NoRequest, NeedsRecovery, Unattended, LockActive,
        TypeOK, SameWork, around
  <1>11. CASE Crash
    <2>1. tx' = tx
      BY <1>0, <1>11, CrashEffect
    <2>2. CASE helper' = NoHelper
      BY <1>0, <2>1, <2>2, Nobody DEF Marked, Going, FirstSteps, InTx, Steps
    <2>3. CASE /\ helper' = helper /\ prog' = Stopped
               /\ lock'.pid # "program" /\ (lock.pid # "program" => lock' = lock)
      <3>1. helper.pc = "read" /\ helper.recovers =>
              NeedsRecovery' /\ prog'.at # "up"
        BY <1>0, <2>1, <2>3, Ended
        DEF Marked, NeedsRecovery, Unattended, LockActive
      <3>2. QED
        BY <1>0, <2>1, <2>3, <3>1 DEF Marked, Going
    <2>4. QED
      BY <1>0, <1>11, <2>2, <2>3, CrashEffect
  <1>12. CASE Write \/ Begin \/ Stage \/ HandOff
    BY <1>0, <1>12, Versions
    DEF Write, Begin, Stage, HandOff, around, ProgOnly, Running, LockActive,
        Marked, Going, InTx, FirstSteps, Begun, Locks, Asked, Prog, Helper,
        HelperPC, Steps, NoHelper, NoTransaction, NoRequest, NeedsRecovery,
        Unattended, TypeOK
  <1>13. CASE Launch
    BY <1>0, <1>13, Versions
    DEF Launch, disk, history, around, Marked, Going, InTx, FirstSteps,
        Helper, HelperPC, Steps, NoHelper, NoTransaction, NoRequest,
        NeedsRecovery, Unattended, LockActive, TypeOK
  <1>14. CASE FailInstall
    BY <1>0, <1>14, Versions
    DEF FailInstall, around, ProgOnly, Marked, Going, InTx, FirstSteps,
        Begun, HelperPC, Steps, NoHelper, NoTransaction, NoRequest,
        NeedsRecovery, Unattended, LockActive, TypeOK
  <1>15. CASE Exit
    BY <1>0, <1>15, Versions
    DEF Exit, around, Orphaned, Stopped, ProgOnly, End, Marked, Going, InTx,
        FirstSteps, Begun, Locks, Asked, Prog, Helper, HelperPC, Steps,
        NoHelper, NoTransaction, NoRequest, NeedsRecovery, Unattended,
        LockActive, TypeOK
  <1>16. CASE TickRecovers
    BY <1>0, <1>16, Versions
    DEF TickRecovers, disk, history, around, LockActive, Unattended,
        NeedsRecovery, LaunchRecovery, Marked, Going, InTx, FirstSteps,
        Begun, Locks, Asked, Prog, Helper, HelperPC, Steps, NoHelper,
        NoTransaction, NoRequest, TypeOK
  <1>17. CASE StartProgram
    BY <1>0, <1>17, Versions
    DEF StartProgram, disk, history, around, Stopped, Marked, Going, InTx,
        Prog, Helper, HelperPC, Steps, NoHelper, NoTransaction, NoRequest,
        NeedsRecovery, Unattended, LockActive, TypeOK
  <1>18. CASE StopService
    BY <1>0, <1>18, Versions
    DEF StopService, around, Stopped, NoError, End, To, At, HelperOnly,
        Marked, Going, InTx, FirstSteps, Begun, Locks, Asked, Prog, Helper,
        HelperPC, Steps, NoHelper, NoTransaction, NoRequest, NeedsRecovery,
        Unattended, LockActive, TypeOK
  <1>19. CASE Wait
    BY <1>0, <1>19, Versions
    DEF Wait, disk, history, around, To, At, HelperOnly, AfterWait, Marked,
        Going, InTx, FirstSteps, Begun, Locks, Asked, Prog, Helper, HelperPC,
        Steps, NoHelper, NoTransaction, NoRequest, NeedsRecovery, Unattended,
        LockActive, TypeOK
  <1>20. CASE FinalizeBackup
    BY <1>0, <1>20, Versions
    DEF FinalizeBackup, history, around, To, At, HelperOnly, FinalizedNow,
        Marked, Going, InTx, FirstSteps, Begun, Locks, Asked, Prog, Helper,
        HelperPC, Steps, NoHelper, NoTransaction, NoRequest, NeedsRecovery,
        Unattended, LockActive, TypeOK
  <1>21. CASE Verify
    BY <1>0, <1>21, Versions
    DEF Verify, disk, history, around, To, At, HelperOnly, Marked, Going,
        InTx, FirstSteps, Begun, Locks, Asked, Prog, Helper, HelperPC, Steps,
        NoHelper, NoTransaction, NoRequest, NeedsRecovery, Unattended,
        LockActive, TypeOK
  <1>22. CASE BackUp
    BY <1>0, <1>22, Versions
    DEF BackUp, history, around, To, At, HelperOnly, Marked, Going, InTx,
        FirstSteps, Begun, Locks, Asked, Prog, Helper, HelperPC, Steps,
        NoHelper, NoTransaction, NoRequest, NeedsRecovery, Unattended,
        LockActive, TypeOK
  <1>23. CASE Record
    BY <1>0, <1>23, Versions
    DEF Record, history, around, To, At, HelperOnly, RecordedNow, Marked,
        Going, InTx, FirstSteps, Begun, Locks, Asked, Prog, Helper, HelperPC,
        Steps, NoHelper, NoTransaction, NoRequest, NeedsRecovery, Unattended,
        LockActive, TypeOK
  <1>24. CASE Untouched
    BY <1>0, <1>24, Versions
    DEF Untouched, disk, around, Error, To, Marked, Going, InTx, FirstSteps,
        Begun, Locks, Asked, Prog, Helper, HelperPC, Steps, NoHelper,
        NoTransaction, NoRequest, NeedsRecovery, Unattended, LockActive,
        TypeOK
  <1>25. CASE MoveAway
    BY <1>0, <1>25, Versions
    DEF MoveAway, history, around, Forth, Current, Marked, Going, InTx,
        FirstSteps, Begun, Locks, Asked, Prog, Helper, HelperPC, Steps,
        NoHelper, NoTransaction, NoRequest, NeedsRecovery, Unattended,
        LockActive, TypeOK
  <1>26. CASE MoveIn
    BY <1>0, <1>26, Versions
    DEF MoveIn, history, around, Forth, Back, HelperOnly, Replacing,
        Restoring, Current, Wanted, AfterFiles, Marked, Going, InTx,
        FirstSteps, Begun, Locks, Asked, Prog, Helper, HelperPC, Steps,
        NoHelper, NoTransaction, NoRequest, NeedsRecovery, Unattended,
        LockActive, TypeOK
  <1>27. CASE MoveFails
    BY <1>0, <1>27, Versions
    DEF MoveFails, around, Forth, Back, Error, HelperOnly, Replacing,
        Restoring, Current, Marked, Going, InTx, FirstSteps, Begun, Locks,
        Asked, Prog, Helper, HelperPC, Steps, NoHelper, NoTransaction,
        NoRequest, NeedsRecovery, Unattended, LockActive, TypeOK
  <1>28. CASE DbAway
    BY <1>0, <1>28, Versions
    DEF DbAway, history, around, Running, HelperOnly, Marked, Going, InTx,
        FirstSteps, Begun, Locks, Asked, Prog, Helper, HelperPC, Steps,
        NoHelper, NoTransaction, NoRequest, NeedsRecovery, Unattended,
        LockActive, TypeOK
  <1>29. CASE DbOpen
    BY <1>0, <1>29, Versions
    DEF DbOpen, disk, history, around, Running, To, At, HelperOnly, Marked,
        Going, InTx, FirstSteps, Begun, Locks, Asked, Prog, Helper, HelperPC,
        Steps, NoHelper, NoTransaction, NoRequest, NeedsRecovery, Unattended,
        LockActive, TypeOK
  <1>30. CASE StartAgain
    BY <1>0, <1>30, Versions
    DEF StartAgain, disk, history, around, Stopped, To, HelperOnly, Started,
        AfterStart, Marked, Going, InTx, FirstSteps, Begun, Locks, Asked,
        Prog, Helper, HelperPC, Steps, NoHelper, NoTransaction, NoRequest,
        NeedsRecovery, Unattended, LockActive, TypeOK
  <1>31. CASE StartFails
    BY <1>0, <1>31, Versions
    DEF StartFails, disk, around, Error, NoError, To, HelperOnly, Marked,
        Going, InTx, FirstSteps, Begun, Locks, Asked, Prog, Helper, HelperPC,
        Steps, NoHelper, NoTransaction, NoRequest, NeedsRecovery, Unattended,
        LockActive, TypeOK
  <1>32. CASE StopFails
    BY <1>0, <1>32, Versions
    DEF StopFails, disk, around, Error, To, HelperOnly, Marked, Going, InTx,
        FirstSteps, Begun, Locks, Asked, Prog, Helper, HelperPC, Steps,
        NoHelper, NoTransaction, NoRequest, NeedsRecovery, Unattended,
        LockActive, TypeOK
  <1>33. CASE Commit
    BY <1>0, <1>33, Versions
    DEF Commit, history, around, To, HelperOnly, CommitProven, Marked, Going,
        InTx, FirstSteps, Begun, Locks, Asked, Prog, Helper, HelperPC, Steps,
        NoHelper, NoTransaction, NoRequest, NeedsRecovery, Unattended,
        LockActive, TypeOK
  <1>34. CASE Publish
    BY <1>0, <1>34, Versions
    DEF Publish, history, around, Published, To, At, HelperOnly, Marked,
        Going, InTx, FirstSteps, Begun, Locks, Asked, Prog, Helper, HelperPC,
        Steps, NoHelper, NoTransaction, NoRequest, NeedsRecovery, Unattended,
        LockActive, TypeOK
  <1>35. CASE Clear
    BY <1>0, <1>35, Versions
    DEF Clear, history, around, Finalized, To, At, HelperOnly, Marked, Going,
        InTx, FirstSteps, Begun, Locks, Asked, Prog, Helper, HelperPC, Steps,
        NoHelper, NoTransaction, NoRequest, NeedsRecovery, Unattended,
        LockActive, TypeOK
  <1>36. CASE Fail
    BY <1>0, <1>36, Versions
    DEF Fail, history, around, To, At, HelperOnly, Marked, Going, InTx,
        FirstSteps, Begun, Locks, Asked, Prog, Helper, HelperPC, Steps,
        NoHelper, NoTransaction, NoRequest, NeedsRecovery, Unattended,
        LockActive, TypeOK
  <1>37. CASE Release
    BY <1>0, <1>37, Versions
    DEF Release, history, around, HelperOnly, Takeable, Marked, Going, InTx,
        Prog, Helper, HelperPC, Steps, NoHelper, NoTransaction, NoRequest,
        NeedsRecovery, Unattended, LockActive, TypeOK
  <1>38. QED
    BY <1>1, <1>2, <1>3, <1>4, <1>5, <1>6, <1>7, <1>8, <1>9, <1>10, <1>11,
       <1>12, <1>13, <1>14, <1>15, <1>16, <1>17, <1>18, <1>19, <1>20,
       <1>21, <1>22, <1>23, <1>24, <1>25, <1>26, <1>27, <1>28, <1>29,
       <1>30, <1>31, <1>32, <1>33, <1>34, <1>35, <1>36, <1>37
    DEF Next, Installation, Program, HelperSteps

LEMMA TruthStep ==
  ASSUME IInv, Next
  PROVE  Truth'
  <1>0. TypeOK /\ Locks /\ Asked /\ Marked /\ Truth
    BY DEF IInv
  <1>1. CASE BootRecovers
    BY <1>0, <1>1, BootRecoversEffect, Ended, Nobody
    DEF Truth, Marked, Going, InTx, Missing, NoRows, Content, TypeOK, disk,
        history, around
  <1>2. CASE BootOpens
    <2>1. /\ UNCHANGED <<helper, saved, passed>> /\ result' = NoResults
          /\ tx' = tx \/ tx' = NoTransaction
      BY <1>0, <1>2, BootOpensEffect
    <2>2. tx'.done = "success" => tx' = tx
      BY <2>1 DEF NoTransaction
    <2>3. ASSUME NEW id \in Id, id \notin passed
          PROVE  db'.rows[id] # "success" /\ result'[id] # "success"
      <3>1. ~(tx.done = "success" /\ id = tx.req.id)
        BY <1>0, <2>3 DEF Truth
      <3>2. db.rows[id] # "success" /\ result[id] # "success"
        BY <1>0, <2>3 DEF Truth
      <3>3. db'.rows[id] # "success"
        BY <1>0, <1>2, <3>1, <3>2, BootOpensEffect
      <3>4. QED
        BY <2>1, <2>3, <3>3 DEF NoResults
    <2>4. QED
      BY <1>0, <2>1, <2>2, <2>3 DEF Truth
  <1>3. CASE Tick
    <2>1. /\ UNCHANGED <<helper, saved, passed>> /\ result' = NoResults
          /\ tx' = tx \/ tx' = NoTransaction
      BY <1>0, <1>3, TickEffect
    <2>2. tx'.done = "success" => tx' = tx
      BY <2>1 DEF NoTransaction
    <2>3. ASSUME NEW id \in Id, id \notin passed
          PROVE  db'.rows[id] # "success" /\ result'[id] # "success"
      <3>1. ~(tx.done = "success" /\ id = tx.req.id)
        BY <1>0, <2>3 DEF Truth
      <3>2. db.rows[id] # "success" /\ result[id] # "success"
        BY <1>0, <2>3 DEF Truth
      <3>3. db'.rows[id] # "success"
        BY <1>0, <1>3, <3>1, <3>2, TickEffect
      <3>4. QED
        BY <2>1, <2>3, <3>3 DEF NoResults
    <2>4. QED
      BY <1>0, <2>1, <2>2, <2>3 DEF Truth
  <1>4. CASE TakeRequest
    <2>1. /\ UNCHANGED <<db, saved, tx, passed>> /\ helper'.pc # "commit"
          /\ helper'.held \in {helper.held, Missing}
          /\ \A id \in Id : result'[id] \in {result[id], "failed"}
      BY <1>0, <1>4, TakeRequestEffect, Nobody
    <2>2. \A id \in Id : Missing.rows[id] # "success"
      BY DEF Missing, NoRows
    <2>3. QED
      BY <1>0, <2>1, <2>2 DEF Truth
  <1>5. CASE TakeTransaction
    <2>1. /\ UNCHANGED <<db, saved, tx, passed>> /\ helper'.pc # "commit"
          /\ helper'.held \in {helper.held, Missing}
          /\ \A id \in Id : result'[id] \in {result[id], "failed"}
      BY <1>0, <1>5, TakeTransactionEffect, Nobody
    <2>2. \A id \in Id : Missing.rows[id] # "success"
      BY DEF Missing, NoRows
    <2>3. QED
      BY <1>0, <2>1, <2>2 DEF Truth
  <1>6. CASE DbBack
    <2>1. /\ UNCHANGED <<saved, tx, passed, result>> /\ helper'.pc # "commit"
          /\ helper'.held = Missing /\ db' = saved[helper.req.from]
          /\ helper.pc \in Steps
      BY <1>0, <1>6, DbBackEffect DEF Steps, HelperPC
    <2>2. \A id \in Id : Missing.rows[id] # "success"
      BY DEF Missing, NoRows
    <2>3. helper.req.from \in Version
      BY <1>0, <2>1, HelperHolds, Requests
    <2>4. QED
      BY <1>0, <2>1, <2>2, <2>3 DEF Truth
  <1>7. CASE Healthy
    BY <1>0, <1>7, HealthyEffect
    DEF Truth, Marked, Going, InTx, NoRows, Content, TypeOK, SameWork, disk,
        around
  <1>8. CASE Unhealthy
    BY <1>0, <1>8, UnhealthyEffect, HaltedProgram, Ended
    DEF Truth, Marked, Going, InTx, disk, around
  <1>9. CASE CommitFails
    BY <1>0, <1>9, CommitFailsEffect, HaltedProgram, Ended
    DEF Truth, Marked, Going, InTx, disk, around
  <1>10. CASE GiveUp
    BY <1>0, <1>10, GiveUpEffect
    DEF Truth, Marked, Going, InTx, Locks, Helper, NoTransaction, Missing,
        NoRows, Content, TypeOK, SameWork, around
  <1>11. CASE Crash
    BY <1>0, <1>11, CrashEffect, Nobody, Ended
    DEF Truth, Marked, Going, InTx, Missing, NoRows, Content, TypeOK, around
  <1>12. CASE Write \/ Begin
    BY <1>0, <1>12, Versions
    DEF Write, Begin, around, ProgOnly, Running, LockActive, Truth, Marked,
        NoTransaction, Missing, NoRows, Content, TypeOK
  <1>13. CASE Stage
    BY <1>0, <1>13, Versions
    DEF Stage, around, ProgOnly, Truth, Content, TypeOK
  <1>14. CASE HandOff
    BY <1>0, <1>14, Versions
    DEF HandOff, around, ProgOnly, Truth, Content, TypeOK
  <1>15. CASE Launch
    BY <1>0, <1>15, Versions
    DEF Launch, disk, history, around, Truth, Marked, Going, InTx, Locks,
        Helper, NoHelper, NoTransaction, Missing, NoRows, Content, TypeOK
  <1>16. CASE FailInstall
    BY <1>0, <1>16, Versions
    DEF FailInstall, around, ProgOnly, Truth, Content, TypeOK
  <1>17. CASE Exit
    BY <1>0, <1>17, Versions
    DEF Exit, around, Orphaned, Stopped, ProgOnly, End, Truth, Marked,
        NoTransaction, Missing, NoRows, Content, TypeOK
  <1>18. CASE TickRecovers
    BY <1>0, <1>18, Versions
    DEF TickRecovers, disk, history, around, LockActive, Unattended,
        NeedsRecovery, LaunchRecovery, Truth, Marked, Going, InTx, Locks,
        Helper, NoHelper, NoTransaction, Missing, NoRows, Content, TypeOK
  <1>19. CASE StartProgram
    BY <1>0, <1>19, Versions
    DEF StartProgram, disk, history, around, Stopped, Truth, Marked, Going,
        Missing, NoRows, Content, TypeOK
  <1>20. CASE StopService
    BY <1>0, <1>20, Versions
    DEF StopService, around, Stopped, NoError, End, To, At, HelperOnly,
        Truth, Marked, Going, InTx, Locks, Helper, NoTransaction, Missing,
        NoRows, Content, TypeOK
  <1>21. CASE Wait
    BY <1>0, <1>21, Versions
    DEF Wait, disk, history, around, To, At, HelperOnly, AfterWait, Truth,
        Marked, Going, InTx, Locks, Helper, NoTransaction, Missing, NoRows,
        Content, TypeOK
  <1>22. CASE FinalizeBackup
    BY <1>0, <1>22, Versions
    DEF FinalizeBackup, history, around, To, At, HelperOnly, FinalizedNow,
        Truth, Helper, NoTransaction, Missing, NoRows, Content, TypeOK
  <1>23. CASE Verify
    BY <1>0, <1>23, Versions
    DEF Verify, disk, history, around, To, At, HelperOnly, Truth, Helper,
        NoTransaction, Missing, NoRows, Content, TypeOK
  <1>24. CASE BackUp
    BY <1>0, <1>24, Versions
    DEF BackUp, history, around, To, At, HelperOnly, Truth, Marked,
        NoTransaction, Missing, NoRows, Content, TypeOK
  <1>25. CASE Record
    BY <1>0, <1>25, Versions
    DEF Record, history, around, To, At, HelperOnly, RecordedNow, Truth,
        Helper, NoTransaction, Missing, NoRows, Content, TypeOK
  <1>26. CASE Untouched
    BY <1>0, <1>26, Versions
    DEF Untouched, disk, around, Error, To, Truth, Marked, Going, Missing,
        NoRows, Content, TypeOK
  <1>27. CASE MoveAway
    BY <1>0, <1>27, Versions
    DEF MoveAway, history, around, Forth, Current, Truth, Marked, Going,
        InTx, Locks, Helper, NoTransaction, Missing, NoRows, Content, TypeOK
  <1>28. CASE MoveIn
    BY <1>0, <1>28, Versions
    DEF MoveIn, history, around, Forth, Current, Wanted, AfterFiles, Truth,
        Marked, Going, InTx, Locks, Helper, NoTransaction, Missing, NoRows,
        Content, TypeOK
  <1>29. CASE MoveFails
    BY <1>0, <1>29, Versions
    DEF MoveFails, around, Forth, Back, Error, HelperOnly, Replacing,
        Restoring, Current, Truth, Marked, Going, InTx, Locks, Helper,
        NoTransaction, Missing, NoRows, Content, TypeOK
  <1>30. CASE DbAway
    BY <1>0, <1>30, Versions
    DEF DbAway, history, around, Running, HelperOnly, Truth, Marked, Going,
        Missing, NoRows, Content, TypeOK
  <1>31. CASE DbOpen
    BY <1>0, <1>31, Versions
    DEF DbOpen, disk, history, around, Running, To, At, HelperOnly, Truth,
        Marked, Going, InTx, Locks, Helper, NoTransaction, Missing, NoRows,
        Content, TypeOK
  <1>32. CASE StartAgain
    BY <1>0, <1>32, Versions
    DEF StartAgain, disk, history, around, Stopped, To, HelperOnly, Started,
        AfterStart, Truth, Marked, Going, InTx, Locks, Helper, NoTransaction,
        Missing, NoRows, Content, TypeOK
  <1>33. CASE StartFails
    BY <1>0, <1>33, Versions
    DEF StartFails, disk, around, Error, NoError, To, HelperOnly, Truth,
        Helper, NoTransaction, Missing, NoRows, Content, TypeOK
  <1>34. CASE StopFails
    BY <1>0, <1>34, Versions
    DEF StopFails, disk, around, Error, To, HelperOnly, Truth, Marked,
        NoTransaction, Missing, NoRows, Content, TypeOK
  <1>35. CASE Commit
    BY <1>0, <1>35, Versions
    DEF Commit, history, around, To, HelperOnly, CommitProven, Truth, Marked,
        Going, InTx, Locks, Helper, NoTransaction, Missing, NoRows, Content,
        TypeOK
  <1>36. CASE Publish
    BY <1>0, <1>36, Versions
    DEF Publish, history, around, Published, To, At, HelperOnly, Truth,
        Helper, NoTransaction, Missing, NoRows, Content, TypeOK
  <1>37. CASE Clear
    BY <1>0, <1>37, Versions
    DEF Clear, history, around, Finalized, To, At, HelperOnly, Truth, Helper,
        NoTransaction, Missing, NoRows, Content, TypeOK
  <1>38. CASE Fail
    BY <1>0, <1>38, Versions
    DEF Fail, history, around, To, At, HelperOnly, Truth, Marked,
        NoTransaction, Missing, NoRows, Content, TypeOK
  <1>39. CASE Release
    BY <1>0, <1>39, Versions
    DEF Release, history, around, HelperOnly, Takeable, Truth, Marked, Going,
        InTx, Locks, Helper, NoHelper, NoTransaction, Missing, NoRows,
        Content, TypeOK
  <1>40. QED
    BY <1>1, <1>2, <1>3, <1>4, <1>5, <1>6, <1>7, <1>8, <1>9, <1>10, <1>11,
       <1>12, <1>13, <1>14, <1>15, <1>16, <1>17, <1>18, <1>19, <1>20,
       <1>21, <1>22, <1>23, <1>24, <1>25, <1>26, <1>27, <1>28, <1>29,
       <1>30, <1>31, <1>32, <1>33, <1>34, <1>35, <1>36, <1>37, <1>38,
       <1>39
    DEF Next, Installation, Program, HelperSteps

LEMMA WhereStep ==
  ASSUME IInv, Next, patient
  PROVE  Where'
  <1>0. TypeOK /\ Locks /\ Asked /\ Marked /\ Where
    BY DEF IInv
  <1>1. CASE Begin
    <2>1. /\ helper' = helper /\ service' = service /\ prog.at = "up"
          /\ lock'.pid = "program" /\ ~LockActive
          /\ prog' = [prog EXCEPT !.web = "locked"]
      BY <1>1 DEF Begin, ProgOnly, around
    <2>2. /\ prog'.at = prog.at /\ prog'.parent = prog.parent
          /\ prog'.child = prog.child
      BY <1>0, <2>1 DEF TypeOK, Prog
    <2>3. helper.pc \notin {"read", "stop", "wait"}
      <3>1. helper.pc \notin Steps
        BY <1>0, <2>1, HelperHolds
      <3>2. helper.pc # "read"
        BY <1>0, <2>1 DEF Where, Begun, Marked, LockActive
      <3>3. QED
        BY <3>1, <3>2 DEF Steps, HelperPC
    <2>4. QED
      BY <1>0, <2>1, <2>2, <2>3 DEF Where, Begun
  <1>2. CASE BootRecovers
    BY <1>0, <1>2, BootRecoversEffect, Ended, Nobody
    DEF Where, Begun, LockActive, Locks
  <1>3. CASE BootOpens
    BY <1>0, <1>3, BootOpensEffect
    DEF Where, Begun, LockActive, Locks, Prog, Helper, NoHelper, Running,
        TypeOK, around
  <1>4. CASE Tick
    <2>1. /\ UNCHANGED <<helper, lock, service>> /\ prog.at = "up"
          /\ \/ prog' = prog \/ prog' = [prog EXCEPT !.busy = FALSE]
      BY <1>0, <1>4, TickEffect DEF around
    <2>2. /\ prog'.at = prog.at /\ prog'.web = prog.web
          /\ prog'.parent = prog.parent /\ prog'.child = prog.child
      BY <1>0, <2>1 DEF TypeOK, Prog
    <2>3. QED
      BY <1>0, <2>1, <2>2 DEF Where, Begun
  <1>5. CASE TakeRequest
    <2>1. prog' = prog /\ helper.pc = "read" /\ ~helper.recovers
      BY <1>0, <1>5, TakeRequestEffect
    <2>2. \/ helper'.pc \in {"stop", "wait"} \/ helper'.pc = "off"
      BY <1>0, <1>5, TakeRequestEffect, Nobody
    <2>3. QED
      BY <1>0, <2>1, <2>2 DEF Where, Begun
  <1>6. CASE TakeTransaction
    <2>1. prog' = prog /\ helper.pc = "read"
      BY <1>0, <1>6, TakeTransactionEffect
    <2>2. \/ helper'.pc \in {"stop", "wait"} \/ helper'.pc = "off"
      BY <1>0, <1>6, TakeTransactionEffect, Nobody
    <2>3. QED
      BY <1>0, <2>1, <2>2 DEF Where, Begun
  <1>7. CASE DbBack
    BY <1>0, <1>7, DbBackEffect DEF Where, Begun, LockActive, Locks
  <1>8. CASE Healthy
    BY <1>0, <1>8, HealthyEffect
    DEF Where, Begun, LockActive, Locks, TypeOK, SameWork, disk, around
  <1>9. CASE Unhealthy
    <2>1. /\ helper.pc \in {"health", "commit", "recheck", "recommit"}
          /\ helper'.pc \in {"undo", "fail"} /\ prog' \in {prog, Stopped}
          /\ helper'.pc = "undo" => prog' = Halted
      BY <1>0, <1>9, UnhealthyEffect, HaltedProgram
    <2>2. prog' = Halted => prog'.at = "off"
      BY <1>0, <2>1, Ended, HaltedProgram DEF Where
    <2>3. QED
      BY <1>0, <2>1, <2>2, Ended DEF Where, Begun
  <1>10. CASE CommitFails
    <2>1. /\ helper.pc \in {"health", "commit", "recheck", "recommit"}
          /\ helper'.pc \in {"undo", "fail"} /\ prog' \in {prog, Stopped}
          /\ helper'.pc = "undo" => prog' = Halted
      BY <1>0, <1>10, CommitFailsEffect, HaltedProgram
    <2>2. prog' = Halted => prog'.at = "off"
      BY <1>0, <2>1, Ended, HaltedProgram DEF Where
    <2>3. QED
      BY <1>0, <2>1, <2>2, Ended DEF Where, Begun
  <1>11. CASE GiveUp
    BY <1>0, <1>11, GiveUpEffect DEF Where, Begun, LockActive, Locks
  <1>12. CASE Crash
    <2>1. service' = service
      BY <1>0, <1>12, CrashEffect DEF around
    <2>2. CASE prog' = Stopped
      <3>1. helper' = helper \/ helper'.pc = "off"
        BY <1>0, <1>12, CrashEffect, Nobody
      <3>2. QED
        BY <1>0, <2>2, <3>1, Ended DEF Where, Begun
    <2>3. CASE prog' = prog /\ helper' = NoHelper
      BY <1>0, <2>3, Nobody DEF Where, Begun
    <2>4. QED
      BY <1>0, <1>12, <2>2, <2>3, CrashEffect
  <1>13. CASE Write \/ Stage
    <2>1. CASE Write
      BY <1>0, <2>1, Versions
      DEF Write, around, ProgOnly, Running, Where, Begun, LockActive, Locks,
          Prog, Helper, NoHelper, TypeOK
    <2>2. CASE Stage
      BY <1>0, <2>2, Versions
      DEF Stage, around, ProgOnly, Running, Where, Begun, LockActive, Locks,
          Prog, Helper, NoHelper, TypeOK
    <2>3. QED
      BY <1>13, <2>1, <2>2
  <1>14. CASE HandOff
    BY <1>0, <1>14, Versions DEF HandOff, around, ProgOnly, Where
  <1>15. CASE Launch
    BY <1>0, <1>15, Versions
    DEF Launch, disk, history, around, Where, Begun, LockActive, Locks,
        TypeOK
  <1>16. CASE FailInstall
    BY <1>0, <1>16, Versions
    DEF FailInstall, around, ProgOnly, Where, Begun, LockActive, Locks, Prog
  <1>17. CASE Exit
    BY <1>0, <1>17, Versions
    DEF Exit, around, Orphaned, Stopped, ProgOnly, End, Where, Begun,
        NoHelper, Running, TypeOK
  <1>18. CASE TickRecovers
    BY <1>0, <1>18, Versions
    DEF TickRecovers, disk, history, around, LockActive, Unattended,
        NeedsRecovery, LaunchRecovery, Where, Begun, Locks, Prog, Helper,
        NoHelper, Running, TypeOK
  <1>19. CASE StartProgram \/ StopService \/ Wait \/ FinalizeBackup \/ Verify
              \/ BackUp \/ Record
    <2>1. CASE StartProgram \/ StopService
      <3>1. CASE StartProgram
        BY <1>0, <3>1, Versions
        DEF StartProgram, disk, history, around, Stopped, Where, Begun,
            LockActive, Locks, Prog, Helper, Running, TypeOK
      <3>2. CASE StopService
        BY <1>0, <3>2, Versions
        DEF StopService, around, Stopped, NoError, End, To, At, HelperOnly,
            Where, Begun, LockActive, Locks, Prog, Helper, NoHelper, Running,
            TypeOK
      <3>3. QED
        BY <2>1, <3>1, <3>2
    <2>2. CASE Wait \/ FinalizeBackup
      BY <1>0, <2>2, Versions
      DEF Wait, FinalizeBackup, disk, history, around, Stopped, NoError,
          End, To, At, HelperOnly, AfterWait, FinalizedNow, RecordedNow,
          Where, Begun, LockActive, Locks, Prog, Helper, NoHelper, Running,
          TypeOK
    <2>3. CASE Verify \/ BackUp
      BY <1>0, <2>3, Versions
      DEF Verify, BackUp, disk, history, around, Stopped, NoError, End, To,
          At, HelperOnly, AfterWait, FinalizedNow, RecordedNow, Where,
          Begun, LockActive, Locks, Prog, Helper, NoHelper, Running, TypeOK
    <2>4. CASE Record
      BY <1>0, <2>4, Versions
      DEF Record, disk, history, around, Stopped, NoError, End, To, At,
          HelperOnly, AfterWait, FinalizedNow, RecordedNow, Where, Begun,
          LockActive, Locks, Prog, Helper, NoHelper, Running, TypeOK
    <2>5. QED
      BY <1>19, <2>1, <2>2, <2>3, <2>4
  <1>20. CASE Untouched \/ MoveAway \/ MoveIn \/ MoveFails
    BY <1>0, <1>20, Versions
    DEF Untouched, MoveAway, MoveIn, MoveFails, Replacing, Restoring,
        Current, Wanted, AfterFiles, Where, Begun, LockActive, Locks, Prog,
        Helper, NoHelper, Running, TypeOK
  <1>21. CASE DbAway \/ DbOpen
    BY <1>0, <1>21, Versions
    DEF DbAway, DbOpen, history, around, At, Where, Begun, LockActive, Locks,
        Prog, Helper, NoHelper, TypeOK
  <1>22. CASE StartAgain
    BY <1>0, <1>22, Versions
    DEF StartAgain, disk, history, around, Stopped, To, HelperOnly, Started,
        AfterStart, Where, Begun, LockActive, Locks, Prog, Helper, NoHelper,
        Running, TypeOK
  <1>23. CASE StartFails \/ StopFails
    <2>1. CASE StartFails
      BY <1>0, <2>1, Versions
      DEF StartFails, disk, around, Error, NoError, To, HelperOnly, Where,
          Begun, LockActive, Locks, Prog, Helper, NoHelper, Running, TypeOK
    <2>2. CASE StopFails
      BY <1>0, <2>2, Versions
      DEF StopFails, disk, around, Error, NoError, To, HelperOnly, Where,
          Begun, LockActive, Locks, Prog, Helper, NoHelper, Running, TypeOK
    <2>3. QED
      BY <1>23, <2>1, <2>2
  <1>24. CASE Commit
    BY <1>0, <1>24, Versions
    DEF Commit, history, around, To, HelperOnly, CommitProven, Where, Begun,
        NoHelper, Running, TypeOK
  <1>25. CASE Publish
    BY <1>0, <1>25, Versions
    DEF Publish, history, around, Published, To, At, HelperOnly, Where,
        Begun, LockActive, Locks, Prog, Helper, NoHelper, Running, TypeOK
  <1>26. CASE Clear \/ Fail
    <2>1. CASE Clear
      BY <1>0, <2>1, Versions
      DEF Clear, history, around, Finalized, To, At, HelperOnly, Where,
          Begun, LockActive, Locks, Prog, Helper, NoHelper, Running, TypeOK
    <2>2. CASE Fail
      BY <1>0, <2>2, Versions
      DEF Fail, history, around, Finalized, To, At, HelperOnly, Where,
          Begun, LockActive, Locks, Prog, Helper, NoHelper, Running, TypeOK
    <2>3. QED
      BY <1>26, <2>1, <2>2
  <1>27. CASE Release
    BY <1>0, <1>27, Versions
    DEF Release, history, around, HelperOnly, Takeable, Where, Begun,
        LockActive, Locks, Prog, Helper, NoHelper, Running, TypeOK
  <1>28. QED
    BY <1>1, <1>2, <1>3, <1>4, <1>5, <1>6, <1>7, <1>8, <1>9, <1>10, <1>11,
       <1>12, <1>13, <1>14, <1>15, <1>16, <1>17, <1>18, <1>19, <1>20,
       <1>21, <1>22, <1>23, <1>24, <1>25, <1>26, <1>27
    DEF Next, Installation, Program, HelperSteps

LEMMA FitsStep ==
  ASSUME IInv, Next, patient
  PROVE  Fits'
  <1>0. TypeOK /\ Locks /\ Asked /\ Marked /\ Where /\ Fits /\ Prepares /\ Replaces /\ Restorable
    BY DEF IInv
  <1>1. CASE FailInstall
    <2>1. /\ UNCHANGED <<files, tx>> /\ prog.at = "up"
          /\ prog' = [prog EXCEPT !.web = "idle", !.busy = FALSE]
          /\ db' = [db EXCEPT !.rows = [i \in Id |->
                      IF prog.web # "locked" /\ i = request.id THEN "failed"
                      ELSE db.rows[i]]]
      BY <1>1 DEF FailInstall, ProgOnly
    <2>2. prog'.at = "up" /\ prog'.v = prog.v /\ db'.by = db.by
      BY <1>0, <2>1 DEF TypeOK, Prog, Content
    <2>3. \A id \in Id : db.rows[id] # "none" => db'.rows[id] # "none"
      BY <1>0, <2>1 DEF TypeOK, Content
    <2>4. QED
      BY <1>0, <2>1, <2>2, <2>3, FitsKept DEF Running
  <1>2. CASE BootRecovers
    BY <1>0, <1>2, BootRecoversEffect, Ended, Nobody
    DEF Fits, Sound, Whole, Open, Helper, Running, TypeOK, disk, history,
        around
  <1>3. CASE BootOpens
    <2>1. /\ files' = files /\ prog.at = "boot" /\ ~NeedsRecovery
          /\ prog' = [prog EXCEPT !.at = "up"]
          /\ \/ tx' = tx
             \/ tx' = NoTransaction /\ ~LockActive /\ tx.done # "no"
          /\ db'.by = IF db.by < prog.v THEN prog.v ELSE db.by
          /\ \A id \in Id : db.rows[id] # "none" => db'.rows[id] # "none"
      BY <1>0, <1>3, BootOpensEffect
    <2>2. prog'.at = "up" /\ prog'.v = prog.v
      BY <1>0, <2>1 DEF TypeOK, Prog
    <2>3. Sound(prog.v)
      BY <1>0, <2>1 DEF Fits
    <2>4. db'.by = prog.v
      BY <1>0, <2>1, <2>3 DEF Sound, TypeOK, Content, Version
    <2>5. Sound(prog.v)'
      BY <1>0, <2>1, <2>2, <2>3, <2>4, Versions, TransactionIds DEF Sound, Whole
    <2>6. files'["exe"] = prog.v
      BY <2>1, <2>3 DEF Sound, Whole, File
    <2>7. QED
      BY <2>2, <2>4, <2>5, <2>6 DEF Fits, Running, Sound, Whole
  <1>4. CASE Tick
    <2>1. /\ files' = files /\ db'.by = db.by /\ prog.at = "up"
          /\ \/ tx' = tx
             \/ tx' = NoTransaction /\ tx.done # "no"
          /\ \A id \in Id : db.rows[id] # "none" => db'.rows[id] # "none"
          /\ prog' \in {prog, [prog EXCEPT !.busy = FALSE]}
      BY <1>0, <1>4, TickEffect
    <2>2. prog'.at = "up" /\ prog'.v = prog.v
      BY <1>0, <2>1 DEF TypeOK, Prog
    <2>3. QED
      BY <1>0, <2>1, <2>2, FitsKept DEF Running
  <1>5. CASE StartProgram
    <2>1. /\ UNCHANGED disk /\ helper.pc = "off" /\ prog.at = "off"
          /\ prog' = [Stopped EXCEPT !.at = "boot", !.v = files["exe"]]
      BY <1>5 DEF StartProgram
    <2>2. prog'.at = "boot" /\ prog'.v = files["exe"]
      BY <1>0, <2>1, Ended DEF Prog
    <2>3. ~LockActive
      BY <1>0, <2>1 DEF Locks, LockActive, Running, Steps
    <2>4. ~NeedsRecovery => Sound(files["exe"])
      BY <1>0, <2>3 DEF NeedsRecovery, Unattended, Fits, Open
    <2>5. UNCHANGED <<files, db, tx, lock>>
      BY <2>1 DEF disk
    <2>6. QED
      BY <1>0, <2>2, <2>4, <2>5
      DEF Fits, Sound, Whole, Open, Running, NeedsRecovery, Unattended, LockActive
  <1>6. CASE TakeRequest
    <2>1. UNCHANGED <<files, db, tx, prog>> /\ helper.pc = "read"
      BY <1>0, <1>6, TakeRequestEffect
    <2>2. QED
      BY <1>0, <2>1, FitsKept DEF Where, Running
  <1>7. CASE TakeTransaction
    <2>1. UNCHANGED <<files, db, tx, prog>> /\ helper.pc = "read"
      BY <1>0, <1>7, TakeTransactionEffect
    <2>2. QED
      BY <1>0, <2>1, FitsKept DEF Where, Running
  <1>8. CASE Record
    <2>1. helper.pc = "record" /\ prog' = prog /\ tx' = RecordedNow
      BY <1>8 DEF Record, At
    <2>2. prog.at = "off" /\ helper.req \in Request
      BY <1>0, <2>1, HelperHolds DEF Where, Steps, HelperPC
    <2>3. Open'
      BY <2>1, <2>2, Requests DEF Open, RecordedNow, NoTransaction
    <2>4. QED
      BY <2>1, <2>2, <2>3, FitsMeanwhile
  <1>9. CASE MoveAway
    <2>1. helper.pc \in {"replace", "undo"} /\ UNCHANGED <<tx, prog>>
      BY <1>9 DEF MoveAway, Replacing, Restoring
    <2>2. prog.at = "off" /\ Going
      BY <1>0, <2>1 DEF Where, Going, InTx
    <2>3. Open'
      BY <1>0, <2>1, <2>2, Underway DEF Open
    <2>4. QED
      BY <2>1, <2>2, <2>3, FitsMeanwhile
  <1>10. CASE MoveIn
    <2>1. helper.pc \in {"replace", "undo"} /\ UNCHANGED <<tx, prog>>
      BY <1>10 DEF MoveIn, Replacing, Restoring
    <2>2. prog.at = "off" /\ Going
      BY <1>0, <2>1 DEF Where, Going, InTx
    <2>3. Open'
      BY <1>0, <2>1, <2>2, Underway DEF Open
    <2>4. QED
      BY <2>1, <2>2, <2>3, FitsMeanwhile
  <1>11. CASE MoveFails
    <2>1. helper.pc \in {"replace", "undo"} /\ UNCHANGED <<tx, prog>>
      BY <1>11 DEF MoveFails, Replacing, Restoring
    <2>2. prog.at = "off" /\ Going
      BY <1>0, <2>1 DEF Where, Going, InTx
    <2>3. Open'
      BY <1>0, <2>1, <2>2, Underway DEF Open
    <2>4. QED
      BY <2>1, <2>2, <2>3, FitsMeanwhile
  <1>12. CASE DbAway
    <2>1. helper.pc = "undoMove" /\ UNCHANGED <<tx, prog>>
      BY <1>12 DEF DbAway
    <2>2. prog.at = "off" /\ Going
      BY <1>0, <2>1 DEF Where, Going, InTx
    <2>3. Open'
      BY <1>0, <2>1, <2>2, Underway DEF Open
    <2>4. QED
      BY <2>1, <2>2, <2>3, FitsMeanwhile
  <1>13. CASE DbBack
    <2>1. helper.pc = "undoDb" /\ UNCHANGED <<tx, prog>>
      BY <1>13 DEF DbBack
    <2>2. prog.at = "off" /\ Going
      BY <1>0, <2>1 DEF Where, Going, InTx
    <2>3. Open'
      BY <1>0, <2>1, <2>2, Underway DEF Open
    <2>4. QED
      BY <2>1, <2>2, <2>3, FitsMeanwhile
  <1>14. CASE StartAgain
    <2>1. /\ helper.pc \in {"start", "restart", "unchanged"} /\ UNCHANGED disk
          /\ prog' = Started
      BY <1>14 DEF StartAgain
    <2>2. UNCHANGED <<files, db, tx, lock>>
      BY <2>1 DEF disk
    <2>3. prog.at = "off" /\ helper.pc \in Steps
      BY <1>0, <2>1 DEF Where, Steps, HelperPC
    <2>4. prog'.at = "boot" /\ prog'.v = files["exe"]
      BY <1>0, <2>1, <2>3, Ended DEF Started, Prog
    <2>5. Sound(files["exe"])
      <3>1. CASE helper.pc = "start"
        <4>1. /\ Going /\ Whole(helper.req.to) /\ 0 < db.by
              /\ db.by <= helper.req.from /\ db.rows[helper.req.id] # "none"
          BY <1>0, <3>1 DEF Going, InTx, Replaces
        <4>2. files["exe"] = helper.req.to
          BY <4>1 DEF Whole, File
        <4>3. db.by \in Nat
          BY <1>0, Versions, WindowsAssumption DEF TypeOK, Content
        <4>4. db.by <= helper.req.to
          <5>1. /\ helper.req.from < helper.req.to
                /\ helper.req.from \in Version /\ helper.req.to \in Version
            BY <1>0, <4>1, Underway
          <5>2. helper.req.from \in Nat /\ helper.req.to \in Nat
            BY <5>1, Versions
          <5>3. QED
            BY <4>1, <4>3, <5>1, <5>2
        <4>5. QED
          BY <1>0, <4>1, <4>2, <4>4, Underway DEF Sound
      <3>2. CASE helper.pc \in {"restart", "unchanged"}
        <4>1. Sound(helper.req.from)
          BY <1>0, <3>2
          DEF Replaces, Prepares, Preparing, Early, Marked, FirstSteps
        <4>2. files["exe"] = helper.req.from
          BY <4>1 DEF Sound, Whole, File
        <4>3. QED
          BY <4>1, <4>2
      <3>3. QED
        BY <2>1, <3>1, <3>2
    <2>6. QED
      BY <2>2, <2>4, <2>5 DEF Fits, Sound, Whole, Running
  <1>15. CASE Healthy
    <2>1. UNCHANGED <<files, db, tx, lock>> /\ prog' \in {prog, Stopped}
      BY <1>0, <1>15, HealthyEffect DEF disk
    <2>2. QED
      BY <1>0, <2>1, Ended, FitsKept
      DEF Running, NeedsRecovery, Unattended, LockActive
  <1>16. CASE Unhealthy
    <2>1. UNCHANGED <<files, db, tx, lock>> /\ prog' \in {prog, Stopped}
      BY <1>0, <1>16, UnhealthyEffect, HaltedProgram DEF disk
    <2>2. QED
      BY <1>0, <2>1, Ended, FitsKept
      DEF Running, NeedsRecovery, Unattended, LockActive
  <1>17. CASE StopFails
    <2>1. UNCHANGED <<files, db, tx, lock, prog>>
      BY <1>17 DEF StopFails, disk
    <2>2. QED
      BY <1>0, <2>1, FitsKept DEF Running, NeedsRecovery, Unattended, LockActive
  <1>18. CASE Commit
    <2>1. /\ UNCHANGED <<files, db, lock, prog>>
          /\ helper.pc \in {"commit", "recommit"}
          /\ tx' \in {[tx EXCEPT !.done = "success"],
                      [tx EXCEPT !.done = "rolled_back"]}
      BY <1>18 DEF Commit, CommitProven
    <2>2. Going /\ helper.pc \in Steps
      BY <2>1 DEF Going, InTx, Steps, HelperPC
    <2>3. Sound(files["exe"])
      BY <1>0, <2>1 DEF Replaces, Sound, Whole, File
    <2>4. tx'.req = tx.req /\ tx # NoTransaction
      BY <1>0, <2>1, <2>2, Underway DEF TypeOK, Transaction
    <2>5. Sound(files["exe"])'
      BY <2>1, <2>3, <2>4 DEF Sound, Whole
    <2>6. prog.at = "boot" => Sound(prog.v)
      BY <1>0, <2>2, HelperHolds DEF Fits, NeedsRecovery, Unattended
    <2>7. QED
      BY <1>0, <2>1, <2>4, <2>5, <2>6 DEF Fits, Sound, Whole, Running
  <1>19. CASE CommitFails
    <2>1. UNCHANGED <<files, db, tx, lock>> /\ prog' \in {prog, Stopped}
      BY <1>0, <1>19, CommitFailsEffect, HaltedProgram DEF disk
    <2>2. QED
      BY <1>0, <2>1, Ended, FitsKept
      DEF Running, NeedsRecovery, Unattended, LockActive
  <1>20. CASE GiveUp
    <2>1. UNCHANGED <<files, tx, lock, prog>>
      BY <1>0, <1>20, GiveUpEffect
    <2>2. CASE db' = db
      BY <1>0, <2>1, <2>2, FitsKept
      DEF Running, NeedsRecovery, Unattended, LockActive
    <2>3. CASE helper.pc = "undoDb"
      <3>1. prog.at = "off" /\ Going
        BY <1>0, <2>3 DEF Where, Going, InTx
      <3>2. Open'
        BY <1>0, <2>1, <3>1, Underway DEF Open
      <3>3. QED
        BY <2>1, <3>1, <3>2, FitsMeanwhile
    <2>4. QED
      BY <1>0, <1>20, <2>2, <2>3, GiveUpEffect
  <1>21. CASE Fail
    <2>1. UNCHANGED <<files, db, tx, lock, prog>>
      BY <1>21 DEF Fail, disk
    <2>2. QED
      BY <1>0, <2>1, FitsKept DEF Running, NeedsRecovery, Unattended, LockActive
  <1>22. CASE Release
    <2>1. UNCHANGED <<files, db, tx, prog>> /\ helper.pc \in Steps
      BY <1>22 DEF Release, Steps, HelperPC
    <2>2. ~NeedsRecovery
      BY <1>0, <2>1, HelperHolds DEF NeedsRecovery, Unattended
    <2>3. QED
      BY <1>0, <2>1, <2>2, FitsKept DEF Running
  <1>23. CASE Crash
    <2>1. /\ UNCHANGED <<files, db, tx>> /\ prog' \in {prog, Stopped}
          /\ lock'.pid \in {lock.pid, "dead"}
      BY <1>0, <1>23, CrashEffect
    <2>2. prog' = Stopped => prog'.at = "off"
      BY <1>0, Ended
    <2>3. NeedsRecovery => NeedsRecovery'
      BY <2>1 DEF NeedsRecovery, Unattended, LockActive
    <2>4. QED
      BY <1>0, <2>1, <2>2, <2>3, FitsKept DEF Running
  <1>24. CASE Write
    BY <1>0, <1>24, Versions
    DEF Write, around, ProgOnly, Running, Fits, Sound, Whole, Open, Replaces,
        NeedsRecovery, Unattended, Prog, Helper, TypeOK
  <1>25. CASE Begin
    BY <1>0, <1>25, Versions
    DEF Begin, around, LockActive, ProgOnly, Fits, Sound, Whole, Open,
        Replaces, NeedsRecovery, Unattended, Prog, Helper, Running, TypeOK
  <1>26. CASE Stage
    BY <1>0, <1>26, Versions
    DEF Stage, around, ProgOnly, Fits, Sound, Whole, Open, Where,
        NeedsRecovery, Unattended, Prog, Helper, Running, TypeOK
  <1>27. CASE HandOff
    BY <1>0, <1>27, Versions
    DEF HandOff, around, ProgOnly, Fits, Sound, Whole, Open, Where,
        NeedsRecovery, Unattended, Prog, Helper, Running, TypeOK
  <1>28. CASE Launch
    BY <1>0, <1>28, Versions
    DEF Launch, disk, history, around, Fits, Sound, Whole, Open, Replaces,
        NeedsRecovery, Unattended, Prog, Helper, Running, TypeOK
  <1>29. CASE Exit
    BY <1>0, <1>29, Versions
    DEF Exit, around, Orphaned, Stopped, ProgOnly, End, Fits, Sound, Whole,
        Open, Where, Marked, Going, InTx, Replaces, NeedsRecovery,
        Unattended, Prog, Helper, Running, TypeOK
  <1>30. CASE TickRecovers
    BY <1>0, <1>30, Versions
    DEF TickRecovers, disk, history, around, Fits, Sound, Whole, Open, Where,
        Marked, Going, InTx, Replaces, Prog, Helper, Running, TypeOK
  <1>31. CASE StopService
    BY <1>0, <1>31, Versions
    DEF StopService, around, Stopped, NoError, End, To, At, HelperOnly, Fits,
        Sound, Whole, Open, Where, Marked, Going, InTx, Replaces,
        NeedsRecovery, Unattended, Prog, Helper, Running, TypeOK
  <1>32. CASE Wait
    BY <1>0, <1>32, Versions
    DEF Wait, disk, history, around, To, At, HelperOnly, AfterWait, Fits,
        Sound, Whole, Open, Where, Marked, Going, InTx, Replaces,
        NeedsRecovery, Unattended, Prog, Helper, Running, TypeOK
  <1>33. CASE FinalizeBackup
    BY <1>0, <1>33, Versions
    DEF FinalizeBackup, history, around, To, At, HelperOnly, FinalizedNow,
        Fits, Sound, Whole, Open, Where, Marked, Going, InTx, Replaces,
        NeedsRecovery, Unattended, Prog, Helper, Running, TypeOK
  <1>34. CASE Verify
    BY <1>0, <1>34, Versions
    DEF Verify, disk, history, around, To, At, HelperOnly, Fits, Sound,
        Whole, Open, Where, Marked, Going, InTx, Replaces, NeedsRecovery,
        Unattended, Prog, Helper, Running, TypeOK
  <1>35. CASE BackUp
    BY <1>0, <1>35, Versions
    DEF BackUp, history, around, To, At, HelperOnly, Fits, Sound, Whole,
        Open, Where, Marked, Going, InTx, Replaces, NeedsRecovery,
        Unattended, Prog, Helper, Running, TypeOK
  <1>36. CASE Untouched
    BY <1>0, <1>36, Versions
    DEF Untouched, disk, around, Error, To, Fits, Sound, Whole, Open, Where,
        Marked, Going, InTx, Replaces, NeedsRecovery, Unattended, Prog,
        Helper, Running, TypeOK
  <1>37. CASE DbOpen
    BY <1>0, <1>37, Versions
    DEF DbOpen, disk, history, around, Fits, Sound, Whole, Open, Where,
        Marked, Going, InTx, Replaces, NeedsRecovery, Unattended, Prog,
        Helper, TypeOK
  <1>38. CASE StartFails
    BY <1>0, <1>38, Versions
    DEF StartFails, disk, around, Error, NoError, To, HelperOnly, Fits,
        Sound, Whole, Open, Where, Marked, Going, InTx, Replaces,
        NeedsRecovery, Unattended, Prog, Helper, Running, TypeOK
  <1>39. CASE Publish
    BY <1>0, <1>39, Versions
    DEF Publish, history, around, Published, To, At, HelperOnly, Fits, Sound,
        Whole, Open, Where, Marked, Going, InTx, Replaces, NeedsRecovery,
        Unattended, Prog, Helper, Running, TypeOK
  <1>40. CASE Clear
    BY <1>0, <1>40, Versions
    DEF Clear, history, around, Finalized, To, At, HelperOnly, Fits, Sound,
        Whole, Open, Where, Marked, Going, InTx, Replaces, NeedsRecovery,
        Unattended, Prog, Helper, Running, TypeOK
  <1>41. QED
    BY <1>1, <1>2, <1>3, <1>4, <1>5, <1>6, <1>7, <1>8, <1>9, <1>10, <1>11,
       <1>12, <1>13, <1>14, <1>15, <1>16, <1>17, <1>18, <1>19, <1>20,
       <1>21, <1>22, <1>23, <1>24, <1>25, <1>26, <1>27, <1>28, <1>29,
       <1>30, <1>31, <1>32, <1>33, <1>34, <1>35, <1>36, <1>37, <1>38,
       <1>39, <1>40
    DEF Next, Installation, Program, HelperSteps

LEMMA PreparesStep ==
  ASSUME IInv, Next, patient
  PROVE  Prepares'
  <1>0. TypeOK /\ Locks /\ Asked /\ Marked /\ Where /\ Fits /\ Prepares /\ Distinct
    BY DEF IInv
  <1>1. CASE Launch
    <2>1. /\ UNCHANGED <<files, db, saved, app, tx, stopped>>
          /\ prog.at = "up" /\ prog.web = "handed" /\ Handing
          /\ helper'.pc = "read" /\ helper'.req = request
          /\ prog'.parent = "update"
      BY <1>0, <1>1 DEF Launch, NoHelper, disk, history, TypeOK, Prog, Handing
    <2>2. /\ Sound(prog.v) /\ request.from = prog.v
          /\ db.rows[request.id] # "none"
      BY <1>0, <2>1 DEF Fits, Running, Asked
    <2>3. tx # NoTransaction => request.id # tx.req.id
      BY <1>0, <2>1 DEF Distinct
    <2>4. QED
      BY <2>1, <2>2, <2>3 DEF Prepares, Sound, Whole
  <1>2. CASE BootRecovers
    BY <1>0, <1>2, BootRecoversEffect, Ended, Nobody
    DEF Prepares, Preparing, Early, Sound, Whole, Where, Begun, Asked, disk,
        history, around
  <1>3. CASE BootOpens
    BY <1>0, <1>3, BootOpensEffect
    DEF Prepares, Preparing, Early, Sound, Whole, Where, Begun, Asked, around
  <1>4. CASE Tick
    <2>1. /\ UNCHANGED <<files, saved, app, helper, stopped>>
          /\ tx' \in {tx, NoTransaction}
          /\ prog.at = "up" /\ prog'.parent = prog.parent /\ db'.by = db.by
          /\ \A id \in Id : db.rows[id] # "none" => db'.rows[id] # "none"
      BY <1>0, <1>4, TickEffect DEF TypeOK, Prog
    <2>2. tx # NoTransaction => tx.req.id \in Id
      BY <1>0, Requests DEF TypeOK, Transaction
    <2>3. CASE Preparing
      <3>1. helper.pc \in {"read", "stop", "wait"} /\ prog.parent # "no"
        BY <1>0, <2>1, <2>3 DEF Where, Preparing, Early
      <3>2. helper.req.id \in Id
        <4>1. helper.pc = "read" \/ helper.pc \in Steps
          BY <3>1 DEF Steps, HelperPC
        <4>2. QED
          BY <1>0, <2>3, <4>1, HelperHolds, Requests
          DEF Asked, Begun, Preparing
      <3>3. QED
        BY <1>0, <2>1, <2>2, <2>3, <3>1, <3>2
        DEF Prepares, Preparing, Sound, Whole
    <2>4. CASE ~Preparing
      BY <2>1, <2>4 DEF Prepares, Preparing
    <2>5. QED
      BY <2>3, <2>4
  <1>5. CASE TakeRequest
    <2>1. /\ UNCHANGED <<files, db, saved, app, tx, prog, stopped>>
          /\ helper.pc = "read" /\ ~helper.recovers
          /\ \/ helper'.pc \in {"stop", "wait"} /\ helper'.req = helper.req
             \/ helper'.pc = "off"
      BY <1>0, <1>5, TakeRequestEffect, Nobody
    <2>2. Preparing
      BY <2>1 DEF Preparing, Early
    <2>3. QED
      BY <1>0, <2>1, <2>2 DEF Prepares, Preparing, Early, Sound, Whole
  <1>6. CASE TakeTransaction
    BY <1>0, <1>6, TakeTransactionEffect, Requests, Versions, Nobody
    DEF Prepares, Preparing, Early, Sound, around
  <1>7. CASE DbBack
    BY <1>0, <1>7, DbBackEffect
    DEF Prepares, Preparing, Early, Sound, SameWork, around
  <1>8. CASE Healthy
    BY <1>0, <1>8, HealthyEffect
    DEF Prepares, Preparing, Early, Sound, SameWork, disk, around
  <1>9. CASE Unhealthy
    BY <1>0, <1>9, UnhealthyEffect, HaltedProgram, Ended
    DEF Prepares, Preparing, Early, Sound, SameWork, disk, around
  <1>10. CASE CommitFails
    BY <1>0, <1>10, CommitFailsEffect, HaltedProgram, Ended
    DEF Prepares, Preparing, Early, Sound, SameWork, disk, around
  <1>11. CASE GiveUp
    BY <1>0, <1>11, GiveUpEffect
    DEF Prepares, Preparing, Early, Sound, SameWork, around
  <1>12. CASE Crash
    <2>1. UNCHANGED <<files, db, saved, app, tx>>
      BY <1>0, <1>12, CrashEffect
    <2>2. CASE helper' = NoHelper
      BY <2>2, Nobody DEF Prepares, Preparing, Early
    <2>3. CASE /\ prog.at # "off" /\ prog' = Stopped /\ helper' = helper
               /\ stopped' = IF prog.parent = "update" THEN db ELSE stopped
      <3>1. prog'.parent = "no"
        BY <1>0, <2>3, Ended
      <3>2. Preparing => prog.parent = "update" /\ helper.pc \notin {"verify", "backup", "record"}
        BY <1>0, <2>3 DEF Prepares, Where, Preparing, Early
      <3>3. QED
        BY <1>0, <2>1, <2>3, <3>1, <3>2
        DEF Prepares, Preparing, Sound, Whole
    <2>4. QED
      BY <1>0, <1>12, <2>2, <2>3, CrashEffect
  <1>13. CASE Write
    BY <1>0, <1>13, Versions
    DEF Write, around, ProgOnly, Running, Prepares, Preparing, Early, Sound,
        Whole, Where, Begun, Asked, Prog, Helper, NoHelper, TypeOK
  <1>14. CASE Begin
    BY <1>0, <1>14, Versions
    DEF Begin, around, LockActive, ProgOnly, Prepares, Preparing, Early,
        Sound, Whole, Where, Begun, Asked, Prog, Helper, NoHelper, TypeOK
  <1>15. CASE Stage \/ HandOff
    BY <1>0, <1>15, Versions
    DEF Stage, HandOff, around, ProgOnly, Prepares, Preparing, Early, Sound,
        Whole, Where, Begun, Asked, Prog, Helper, NoHelper, TypeOK
  <1>16. CASE FailInstall
    BY <1>0, <1>16, Versions
    DEF FailInstall, around, ProgOnly, Prepares, Preparing, Early, Sound,
        Whole, Where, Begun, Asked, Prog, Helper, NoHelper, TypeOK
  <1>17. CASE Exit
    BY <1>0, <1>17, Versions
    DEF Exit, around, Orphaned, Stopped, ProgOnly, End, Prepares, Preparing,
        Early, Sound, Whole, Where, Begun, Asked, Prog, Helper, NoHelper,
        TypeOK
  <1>18. CASE TickRecovers
    BY <1>0, <1>18, Versions
    DEF TickRecovers, disk, history, around, LockActive, Unattended,
        NeedsRecovery, LaunchRecovery, Prepares, Preparing, Early, Sound,
        Whole, Where, Begun, Asked, Prog, Helper, NoHelper, TypeOK
  <1>19. CASE StartProgram
    BY <1>0, <1>19, Versions
    DEF StartProgram, disk, history, around, Stopped, Prepares, Preparing,
        Early, Asked, Prog, Helper, NoHelper, TypeOK
  <1>20. CASE StopService
    BY <1>0, <1>20, Versions
    DEF StopService, around, Stopped, NoError, End, To, At, HelperOnly,
        Prepares, Preparing, Early, Sound, Whole, Where, Begun, Asked, Prog,
        Helper, NoHelper, TypeOK
  <1>21. CASE Wait
    BY <1>0, <1>21, Versions
    DEF Wait, disk, history, around, To, At, HelperOnly, AfterWait, Prepares,
        Preparing, Early, Sound, Whole, Where, Begun, Asked, Prog, Helper,
        NoHelper, TypeOK
  <1>22. CASE FinalizeBackup
    BY <1>0, <1>22, Versions
    DEF FinalizeBackup, history, around, To, At, HelperOnly, FinalizedNow,
        Prepares, Preparing, Early, Sound, Whole, Where, Begun, Asked, Prog,
        Helper, NoHelper, TypeOK
  <1>23. CASE Verify
    BY <1>0, <1>23, Versions
    DEF Verify, disk, history, around, To, At, HelperOnly, Prepares,
        Preparing, Early, Sound, Whole, Where, Begun, Asked, Prog, Helper,
        NoHelper, TypeOK
  <1>24. CASE BackUp
    BY <1>0, <1>24, Versions
    DEF BackUp, history, around, To, At, HelperOnly, Prepares, Preparing,
        Early, Sound, Whole, Where, Begun, Asked, Prog, Helper, NoHelper,
        TypeOK
  <1>25. CASE Record
    BY <1>0, <1>25, Versions
    DEF Record, history, around, To, At, HelperOnly, RecordedNow, Prepares,
        Preparing, Early, Sound, Whole, Where, Begun, Asked, Prog, Helper,
        NoHelper, TypeOK
  <1>26. CASE Untouched
    BY <1>0, <1>26, Versions
    DEF Untouched, disk, around, Error, To, Prepares, Preparing, Early,
        Sound, Whole, Where, Begun, Asked, Prog, Helper, NoHelper, TypeOK
  <1>27. CASE MoveAway
    BY <1>0, <1>27, Versions
    DEF MoveAway, history, around, Forth, Back, HelperOnly, Replacing,
        Restoring, Current, Prepares, Preparing, Early, Sound, Whole, Where,
        Begun, Asked, Prog, Helper, NoHelper, TypeOK
  <1>28. CASE MoveIn
    BY <1>0, <1>28, Versions
    DEF MoveIn, history, around, Forth, Back, HelperOnly, Replacing,
        Restoring, Current, Wanted, AfterFiles, Prepares, Preparing, Early,
        Sound, Whole, Where, Begun, Asked, Prog, Helper, NoHelper, TypeOK
  <1>29. CASE MoveFails
    BY <1>0, <1>29, Versions
    DEF MoveFails, around, Forth, Back, Current, Prepares, Preparing, Early,
        Sound, Whole, Where, Begun, Asked, Prog, Helper, NoHelper, TypeOK
  <1>30. CASE DbAway \/ DbOpen
    BY <1>0, <1>30, Versions
    DEF DbAway, DbOpen, history, around, Running, HelperOnly, disk, To, At,
        Prepares, Preparing, Early, Sound, Whole, Where, Begun, Asked, Prog,
        Helper, NoHelper, TypeOK
  <1>31. CASE StartAgain
    BY <1>0, <1>31, Versions
    DEF StartAgain, disk, history, around, Stopped, To, HelperOnly, Started,
        AfterStart, Prepares, Preparing, Early, Sound, Whole, Where, Begun,
        Asked, Prog, Helper, NoHelper, TypeOK
  <1>32. CASE StartFails \/ StopFails
    <2>1. CASE StartFails
      BY <1>0, <2>1, Versions
      DEF StartFails, disk, around, Error, NoError, To, HelperOnly,
          Prepares, Preparing, Early, Sound, Whole, Where, Begun, Asked,
          Prog, Helper, NoHelper, TypeOK
    <2>2. CASE StopFails
      BY <1>0, <2>2, Versions
      DEF StopFails, disk, around, Error, NoError, To, HelperOnly, Prepares,
          Preparing, Early, Sound, Whole, Where, Begun, Asked, Prog, Helper,
          NoHelper, TypeOK
    <2>3. QED
      BY <1>32, <2>1, <2>2
  <1>33. CASE Commit \/ Publish
    <2>1. CASE Commit
      BY <1>0, <2>1, Versions
      DEF Commit, history, around, To, HelperOnly, CommitProven, Published,
          At, Prepares, Preparing, Early, Sound, Whole, Where, Begun, Asked,
          Prog, Helper, NoHelper, TypeOK
    <2>2. CASE Publish
      BY <1>0, <2>2, Versions
      DEF Publish, history, around, To, HelperOnly, CommitProven, Published,
          At, Prepares, Preparing, Early, Sound, Whole, Where, Begun, Asked,
          Prog, Helper, NoHelper, TypeOK
    <2>3. QED
      BY <1>33, <2>1, <2>2
  <1>34. CASE Clear \/ Fail
    BY <1>0, <1>34, Versions
    DEF Clear, Fail, history, around, Finalized, To, At, HelperOnly,
        Prepares, Preparing, Early, Sound, Whole, Where, Begun, Asked, Prog,
        Helper, NoHelper, TypeOK
  <1>35. CASE Release
    BY <1>0, <1>35, Versions
    DEF Release, history, around, HelperOnly, Takeable, Prepares, Preparing,
        Early, Asked, Prog, Helper, NoHelper, TypeOK
  <1>36. QED
    BY <1>1, <1>2, <1>3, <1>4, <1>5, <1>6, <1>7, <1>8, <1>9, <1>10, <1>11,
       <1>12, <1>13, <1>14, <1>15, <1>16, <1>17, <1>18, <1>19, <1>20,
       <1>21, <1>22, <1>23, <1>24, <1>25, <1>26, <1>27, <1>28, <1>29,
       <1>30, <1>31, <1>32, <1>33, <1>34, <1>35
    DEF Next, Installation, Program, HelperSteps

LEMMA DistinctStep ==
  ASSUME IInv, Next, patient
  PROVE  Distinct'
  <1>0. TypeOK /\ Locks /\ Asked /\ Marked /\ Where /\ Fits /\ Prepares /\ Distinct
    BY DEF IInv
  <1>1. CASE Stage
    <2>1. PICK id \in Id, v \in Version :
            /\ \A i \in Id : db.rows[i] = "none" <=> i >= id
            /\ request' = [id |-> id, from |-> prog.v, to |-> v]
      BY <1>1 DEF Stage
    <2>2. tx' = tx /\ prog.at = "up" /\ request'.id = id
      BY <1>1, <2>1 DEF Stage, ProgOnly
    <2>3. db.rows[id] = "none"
      BY <2>1, Versions
    <2>4. tx # NoTransaction => db.rows[tx.req.id] # "none"
      BY <1>0, <2>2 DEF Fits, Sound, Running
    <2>5. QED
      BY <2>2, <2>3, <2>4 DEF Distinct
  <1>2. CASE BootRecovers
    BY <1>0, <1>2, BootRecoversEffect, Ended, Nobody
    DEF Distinct, Handing, Locks, Helper
  <1>3. CASE BootOpens
    BY <1>0, <1>3, BootOpensEffect
    DEF Distinct, Handing, Locks, Helper, Prog, NoTransaction, TypeOK, around
  <1>4. CASE Tick
    BY <1>0, <1>4, TickEffect
    DEF Distinct, Handing, Locks, Helper, Prog, NoTransaction, TypeOK, around
  <1>5. CASE TakeRequest
    BY <1>0, <1>5, TakeRequestEffect, Requests, Versions, Nobody
    DEF Distinct, Handing, Locks, Helper
  <1>6. CASE TakeTransaction
    BY <1>0, <1>6, TakeTransactionEffect, Requests, Versions, Nobody
    DEF Distinct, Handing, Locks, Helper
  <1>7. CASE Record
    <2>1. helper'.pc = "replace" /\ helper.pc = "record" /\ prog' = prog
      BY <1>0, <1>7 DEF Record, At, To, HelperOnly, TypeOK, Helper
    <2>2. ~Handing
      BY <1>0, <2>1, HelperHolds DEF Steps, HelperPC
    <2>3. QED
      BY <2>1, <2>2 DEF Distinct, Handing
  <1>8. CASE DbBack
    BY <1>0, <1>8, DbBackEffect DEF Distinct, Handing, Locks, Helper
  <1>9. CASE Healthy
    BY <1>0, <1>9, HealthyEffect
    DEF Distinct, Handing, Locks, Helper, disk, around
  <1>10. CASE Unhealthy
    BY <1>0, <1>10, UnhealthyEffect, HaltedProgram, Ended
    DEF Distinct, Handing, Locks, Helper, disk, around
  <1>11. CASE Commit
    <2>1. prog' = prog /\ helper.pc \in Steps
      BY <1>0, <1>11 DEF Commit, CommitProven, history, HelperOnly, Steps, HelperPC
    <2>2. ~Handing
      BY <1>0, <2>1, HelperHolds
    <2>3. QED
      BY <2>1, <2>2 DEF Distinct, Handing
  <1>12. CASE CommitFails
    BY <1>0, <1>12, CommitFailsEffect, HaltedProgram, Ended
    DEF Distinct, Handing, Locks, Helper, disk, around
  <1>13. CASE GiveUp
    BY <1>0, <1>13, GiveUpEffect DEF Distinct, Handing, Locks, Helper
  <1>14. CASE Crash
    BY <1>0, <1>14, CrashEffect, Nobody, Ended
    DEF Distinct, Handing, Locks, Helper
  <1>15. CASE Write \/ Begin \/ HandOff \/ Launch \/ FailInstall \/ Exit \/
              TickRecovers
    BY <1>0, <1>15, Versions
    DEF Write, Begin, HandOff, Launch, FailInstall, Exit, TickRecovers,
        around, ProgOnly, Running, LockActive, disk, history, Orphaned,
        Stopped, End, Unattended, NeedsRecovery, LaunchRecovery, Distinct,
        Handing, Locks, Helper, Prog, NoTransaction, TypeOK
  <1>16. CASE StartProgram \/ StopService \/ Wait \/ FinalizeBackup \/ Verify
              \/ BackUp \/ Untouched
    BY <1>0, <1>16, Versions
    DEF StartProgram, StopService, Wait, FinalizeBackup, Verify, BackUp,
        Untouched, disk, history, around, Stopped, NoError, End, To, At,
        HelperOnly, AfterWait, FinalizedNow, Error, Distinct, Handing, Locks,
        Helper, Prog, NoTransaction, TypeOK
  <1>17. CASE MoveAway \/ MoveIn \/ MoveFails \/ DbAway \/ DbOpen \/
              StartAgain \/ StartFails
    BY <1>0, <1>17, Versions
    DEF MoveAway, MoveIn, MoveFails, DbAway, DbOpen, StartAgain, StartFails,
        history, Replacing, Restoring, Current, Wanted, AfterFiles, Error,
        Running, disk, To, At, Stopped, Started, AfterStart, NoError,
        Distinct, Handing, Locks, Helper, Prog, NoTransaction, TypeOK
  <1>18. CASE StopFails \/ Publish \/ Clear \/ Fail \/ Release
    BY <1>0, <1>18, Versions
    DEF StopFails, Publish, Clear, Fail, Release, disk, around, Error, At,
        Finalized, Takeable, Distinct, Handing, Locks, Helper, Prog,
        NoTransaction, TypeOK
  <1>19. QED
    BY <1>1, <1>2, <1>3, <1>4, <1>5, <1>6, <1>7, <1>8, <1>9, <1>10, <1>11,
       <1>12, <1>13, <1>14, <1>15, <1>16, <1>17, <1>18
    DEF Next, Installation, Program, HelperSteps

LEMMA ReplacesStep ==
  ASSUME IInv, Next, patient
  PROVE  Replaces'
  <1>0. TypeOK /\ Locks /\ Asked /\ Marked /\ Where /\ Fits /\ Prepares /\ Replaces /\ Restorable
    BY DEF IInv
  <1>1. CASE FailInstall
    <2>1. helper' = helper /\ prog.web # "idle"
      BY <1>1 DEF FailInstall, ProgOnly
    <2>2. helper.pc \notin InTx
      BY <1>0, <2>1, HelperHolds DEF InTx, Steps, HelperPC
    <2>3. QED
      BY <2>1, <2>2, ReplacesNothing
  <1>2. CASE BootRecovers
    <2>1. NeedsRecovery /\ (helper' = helper \/ helper'.pc = "read")
      BY <1>0, <1>2, BootRecoversEffect
    <2>2. helper.pc \notin Steps
      BY <1>0, <2>1, HelperHolds DEF NeedsRecovery, Unattended
    <2>3. helper'.pc \notin InTx
      BY <2>1, <2>2 DEF InTx, Steps, HelperPC
    <2>4. QED
      BY <2>3, ReplacesNothing
  <1>3. CASE BootOpens
    <2>1. /\ UNCHANGED <<files, helper, stopped>> /\ prog.at = "boot"
          /\ ~NeedsRecovery
          /\ \/ tx' = tx
             \/ tx' = NoTransaction /\ ~LockActive /\ tx.done # "no"
          /\ db'.by = IF db.by < prog.v THEN prog.v ELSE db.by
          /\ \A id \in Id : db.rows[id] # "none" => db'.rows[id] # "none"
      BY <1>0, <1>3, BootOpensEffect
    <2>2. CASE helper.pc \in {"health", "commit", "recheck", "recommit"}
      <3>1. helper.pc \in Steps /\ Going
        BY <2>2 DEF Steps, HelperPC, Going, InTx
      <3>2. tx' = tx /\ tx # NoTransaction /\ tx.req.id \in Id
        BY <1>0, <2>1, <3>1, HelperHolds, Underway, TransactionIds

      <3>3. Sound(prog.v) /\ db'.by = prog.v
        <4>1. Sound(prog.v)
          BY <1>0, <2>1 DEF Fits
        <4>2. QED
          BY <1>0, <2>1, <4>1 DEF Sound, TypeOK, Content, Version
      <3>4. ASSUME NEW v, Sound(v)
            PROVE  v = prog.v
        BY <3>3, <3>4 DEF Sound, Whole, File
      <3>5. 0 < db'.by
        BY <3>3, Versions DEF Sound
      <3>6. db'.by <= prog.v
        <4>1. prog.v \in Nat
          BY <3>3, Versions DEF Sound
        <4>2. QED
          BY <3>3, <4>1
      <3>7. QED
        BY <1>0, <2>1, <2>2, <3>2, <3>3, <3>4, <3>5, <3>6
        DEF Replaces, Sound, Whole
    <2>3. CASE helper.pc \notin {"health", "commit", "recheck", "recommit"}
      <3>1. helper'.pc \notin InTx
        BY <1>0, <2>1, <2>3 DEF Where, InTx
      <3>2. QED
        BY <3>1, ReplacesNothing
    <2>4. QED
      BY <2>2, <2>3
  <1>4. CASE Tick
    <2>1. /\ UNCHANGED <<files, helper, stopped>> /\ prog.at = "up"
          /\ \/ tx' = tx
             \/ tx' = NoTransaction /\ ~LockActive /\ tx.done # "no"
          /\ db'.by = db.by
          /\ \A id \in Id : db.rows[id] # "none" => db'.rows[id] # "none"
      BY <1>0, <1>4, TickEffect
    <2>2. CASE helper.pc \in {"health", "commit", "recheck", "recommit"}
      <3>1. helper.pc \in Steps /\ Going
        BY <2>2 DEF Steps, HelperPC, Going, InTx
      <3>2. tx' = tx /\ tx # NoTransaction /\ tx.req.id \in Id
        BY <1>0, <2>1, <3>1, HelperHolds, Underway, TransactionIds

      <3>3. QED
        BY <1>0, <2>1, <2>2, <3>2 DEF Replaces, Sound, Whole
    <2>3. CASE helper.pc \notin {"health", "commit", "recheck", "recommit"}
      <3>1. helper'.pc \notin InTx
        BY <1>0, <2>1, <2>3 DEF Where, InTx
      <3>2. QED
        BY <3>1, ReplacesNothing
    <2>4. QED
      BY <2>2, <2>3
  <1>5. CASE TakeRequest
    <2>1. helper'.pc \in {"stop", "wait", "off"}
      BY <1>0, <1>5, TakeRequestEffect, Nobody
    <2>2. QED
      BY <2>1, ReplacesNothing DEF InTx
  <1>6. CASE TakeTransaction
    BY <1>0, <1>6, TakeTransactionEffect, Requests, Versions, Nobody
    DEF Replaces, Sound, Whole, Where, TypeOK, around
  <1>7. CASE Record
    <2>1. /\ helper.pc = "record" /\ UNCHANGED <<files, db>>
          /\ helper' = [helper EXCEPT !.pc = "replace", !.next = 1]
      BY <1>7 DEF Record, At, To
    <2>2. helper'.pc = "replace" /\ helper'.next = 1 /\ helper'.req = helper.req
      BY <1>0, <2>1 DEF TypeOK, Helper
    <2>3. Preparing
      BY <1>0, <2>1 DEF Preparing, Early, Marked, FirstSteps
    <2>4. /\ 0 < db.by /\ db.by <= helper.req.from
          /\ db.rows[helper.req.id] # "none"
      BY <1>0, <2>3 DEF Prepares, Sound
    <2>5. QED
      BY <2>1, <2>2, <2>4 DEF Replaces
  <1>8. CASE MoveIn
    <2>1. /\ helper.pc \in {"replace", "undo"} /\ UNCHANGED <<db, tx, stopped>>
          /\ files' = [files EXCEPT ![Current] = Wanted]
          /\ helper' = [helper EXCEPT !.away = Nothing,
                           !.next = IF helper.next = 3 THEN 1 ELSE helper.next + 1,
                           !.pc = IF helper.next = 3 THEN AfterFiles ELSE helper.pc]
      BY <1>0, <1>8 DEF MoveIn, Replacing, Restoring, history
    <2>2. /\ helper'.req = helper.req
          /\ helper'.next = IF helper.next = 3 THEN 1 ELSE helper.next + 1
          /\ helper'.pc = IF helper.next = 3 THEN AfterFiles ELSE helper.pc
          /\ helper.next \in {1, 2, 3} /\ DOMAIN files = File
      BY <1>0, <2>1 DEF TypeOK, Helper
    <2>3. CASE helper.pc = "replace"
      <3>1. Current = Forth[helper.next] /\ Wanted = helper.req.to
            /\ AfterFiles = "start"
        BY <2>3 DEF Current, Wanted, AfterFiles, Replacing
      <3>2. /\ Forth[1] = "exe" /\ Forth[2] = "static" /\ Forth[3] = "updater"
            /\ Forth[helper.next] \in File
        BY <2>2 DEF Forth, File
      <3>3. \A i \in 1..3 : i <= helper.next => files'[Forth[i]] = helper.req.to
        <4>1. \A i \in 1..3 : i < helper.next => files[Forth[i]] = helper.req.to
          BY <1>0, <2>3 DEF Replaces
        <4>2. files' = [files EXCEPT ![Forth[helper.next]] = helper.req.to]
          BY <2>1, <3>1
        <4>3. ASSUME NEW i \in {1, 2, 3}, i <= helper.next
              PROVE  files'[Forth[i]] = helper.req.to
          <5>1. CASE i = helper.next
            BY <2>2, <3>2, <4>2, <5>1
          <5>2. CASE i < helper.next
            BY <2>2, <3>2, <4>1, <4>2, <4>3, <5>2 DEF File
          <5>3. QED
            BY <2>2, <4>3, <5>1, <5>2
        <4>4. 1..3 = {1, 2, 3}
          OBVIOUS
        <4>5. QED
          BY <4>3, <4>4
      <3>4. CASE helper.next = 3
        <4>1. Whole(helper.req.to)' /\ helper'.pc = "start"
          BY <2>2, <3>1, <3>2, <3>3, <3>4 DEF Whole, File
        <4>2. QED
          BY <1>0, <2>1, <2>2, <2>3, <4>1 DEF Replaces, Whole
      <3>5. CASE helper.next # 3
        <4>1. helper'.pc = "replace" /\ helper'.next = helper.next + 1
          BY <2>2, <2>3, <3>5
        <4>2. \A i \in 1..3 : i < helper'.next => files'[Forth[i]] = helper'.req.to
          BY <2>2, <3>3, <4>1
        <4>3. QED
          BY <1>0, <2>1, <2>2, <2>3, <4>1, <4>2 DEF Replaces
      <3>6. QED
        BY <3>4, <3>5
    <2>4. CASE helper.pc = "undo"
      <3>1. /\ Current = Back[helper.next] /\ AfterFiles = "undoMove"
            /\ Wanted = app[helper.req.from][Current]
        BY <2>4 DEF Current, Wanted, AfterFiles, Replacing
      <3>2. /\ Back[1] = "exe" /\ Back[2] = "updater" /\ Back[3] = "static"
            /\ Back[helper.next] \in File
        BY <2>2 DEF Back, File
      <3>3. Wanted = helper.req.from
        <4>1. Going
          BY <2>4 DEF Going, InTx
        <4>2. QED
          BY <1>0, <3>1, <3>2, <4>1, Underway DEF Restorable
      <3>4. \A i \in 1..3 : i <= helper.next => files'[Back[i]] = helper.req.from
        <4>1. \A i \in 1..3 : i < helper.next => files[Back[i]] = helper.req.from
          BY <1>0, <2>4 DEF Replaces
        <4>2. files' = [files EXCEPT ![Back[helper.next]] = helper.req.from]
          BY <2>1, <3>1, <3>3
        <4>3. ASSUME NEW i \in {1, 2, 3}, i <= helper.next
              PROVE  files'[Back[i]] = helper.req.from
          <5>1. CASE i = helper.next
            BY <2>2, <3>2, <4>2, <5>1
          <5>2. CASE i < helper.next
            BY <2>2, <3>2, <4>1, <4>2, <4>3, <5>2 DEF File
          <5>3. QED
            BY <2>2, <4>3, <5>1, <5>2
        <4>4. 1..3 = {1, 2, 3}
          OBVIOUS
        <4>5. QED
          BY <4>3, <4>4
      <3>5. CASE helper.next = 3
        <4>1. Whole(helper.req.from)' /\ helper'.pc = "undoMove"
          BY <2>2, <3>1, <3>2, <3>4, <3>5 DEF Whole, File
        <4>2. QED
          BY <2>2, <4>1 DEF Replaces, Whole
      <3>6. CASE helper.next # 3
        <4>1. helper'.pc = "undo" /\ helper'.next = helper.next + 1
          BY <2>2, <2>4, <3>6
        <4>2. \A i \in 1..3 : i < helper'.next => files'[Back[i]] = helper'.req.from
          BY <2>2, <3>4, <4>1
        <4>3. QED
          BY <2>2, <4>1, <4>2 DEF Replaces
      <3>7. QED
        BY <3>5, <3>6
    <2>5. QED
      BY <2>1, <2>3, <2>4
  <1>9. CASE DbBack
    <2>1. /\ UNCHANGED <<files, tx, stopped>> /\ helper.pc = "undoDb"
          /\ helper'.pc = "restart" /\ helper'.req = helper.req
          /\ db' = saved[helper.req.from]
      BY <1>0, <1>9, DbBackEffect DEF SameWork
    <2>2. Going
      BY <2>1 DEF Going, InTx
    <2>3. /\ tx.req = helper.req /\ Reachable /\ helper.req.from \in Version
      BY <1>0, <2>2, Underway
    <2>4. /\ db' = stopped /\ 0 < stopped.by /\ stopped.by <= helper.req.from
          /\ stopped.rows[helper.req.id] # "none"
      BY <1>0, <2>1, <2>3 DEF Restorable
    <2>5. Whole(helper.req.from)
      BY <1>0, <2>1 DEF Replaces
    <2>6. Sound(helper.req.from)'
      BY <2>1, <2>3, <2>4, <2>5 DEF Sound, Whole
    <2>7. QED
      BY <2>1, <2>4, <2>6 DEF Replaces
  <1>10. CASE StartAgain
    <2>1. /\ UNCHANGED <<files, db, tx, stopped>>
          /\ \/ helper.pc = "start" /\ helper'.pc = "health"
             \/ helper.pc = "restart" /\ helper'.pc = "recheck"
             \/ helper.pc = "unchanged" /\ helper'.pc = "fail"
          /\ helper'.req = helper.req
      BY <1>0, <1>10 DEF StartAgain, To, AfterStart, disk, history, TypeOK, Helper
    <2>2. CASE helper.pc = "start" /\ helper'.pc = "health"
      <3>1. /\ Going /\ Whole(helper.req.to) /\ 0 < db.by
            /\ db.by <= helper.req.from /\ db.rows[helper.req.id] # "none"
        BY <1>0, <2>2 DEF Going, InTx, Replaces
      <3>2. /\ helper.req.from < helper.req.to /\ tx.req = helper.req
            /\ helper.req.from \in Version /\ helper.req.to \in Version
        BY <1>0, <3>1, Underway
      <3>3. /\ helper.req.from \in Nat /\ helper.req.to \in Nat
            /\ db.by \in Nat
        <4>1. db.by \in Nat
          BY <1>0, WindowsAssumption DEF TypeOK, Content
        <4>2. QED
          BY <3>2, <4>1, Versions
      <3>4. db.by <= helper.req.to
        BY <3>1, <3>2, <3>3
      <3>5. QED
        BY <2>1, <2>2, <3>1, <3>2, <3>4 DEF Replaces, Sound, Whole
    <2>3. CASE helper'.pc = "recheck" /\ helper.pc = "restart"
      BY <1>0, <2>1, <2>3 DEF Replaces, Sound, Whole
    <2>4. CASE helper'.pc = "fail"
      BY <2>4, ReplacesNothing DEF InTx
    <2>5. QED
      BY <2>1, <2>2, <2>3, <2>4
  <1>11. CASE Healthy
    <2>1. /\ UNCHANGED <<files, db, tx, stopped>> /\ helper'.req = helper.req
          /\ \/ helper.pc = "health" /\ helper'.pc = "commit"
             \/ helper.pc = "recheck" /\ helper'.pc = "recommit"
      BY <1>0, <1>11, HealthyEffect DEF SameWork, disk
    <2>2. QED
      BY <1>0, <2>1 DEF Replaces, Sound, Whole
  <1>12. CASE Unhealthy
    <2>1. \/ helper'.pc = "undo" /\ helper'.next = 1
          \/ helper'.pc = "fail"
      BY <1>0, <1>12, UnhealthyEffect
    <2>2. QED
      BY <2>1 DEF Replaces
  <1>13. CASE CommitFails
    <2>1. \/ helper'.pc = "undo" /\ helper'.next = 1
          \/ helper'.pc = "fail"
      BY <1>0, <1>13, CommitFailsEffect
    <2>2. QED
      BY <2>1 DEF Replaces
  <1>14. CASE GiveUp
    BY <1>0, <1>14, GiveUpEffect
    DEF Replaces, Sound, Whole, Where, TypeOK, SameWork, around
  <1>15. CASE Crash
    <2>1. UNCHANGED <<files, db, tx>>
      BY <1>0, <1>15, CrashEffect
    <2>2. CASE helper' = NoHelper
      BY <2>2, Nobody, ReplacesNothing DEF InTx
    <2>3. CASE /\ helper' = helper /\ prog.at # "off"
      <3>1. helper.pc # "restart"
        BY <1>0, <2>3 DEF Where
      <3>2. QED
        BY <1>0, <2>1, <2>3, <3>1 DEF Replaces, Sound, Whole
    <2>4. QED
      BY <1>0, <1>15, <2>2, <2>3, CrashEffect
  <1>16. CASE Write
    BY <1>0, <1>16, Versions
    DEF Write, around, ProgOnly, Running, Replaces, Sound, Whole, Where,
        Back, Helper, Prog, NoHelper, TypeOK
  <1>17. CASE Begin
    BY <1>0, <1>17, Versions
    DEF Begin, around, LockActive, ProgOnly, Replaces, Sound, Whole, Where,
        Back, Helper, Prog, NoHelper, TypeOK
  <1>18. CASE Stage
    BY <1>0, <1>18, Versions
    DEF Stage, around, ProgOnly, Replaces, Sound, Whole, Where, Marked,
        Helper, Prog, NoHelper, TypeOK
  <1>19. CASE HandOff
    BY <1>0, <1>19, Versions
    DEF HandOff, around, ProgOnly, Replaces, Sound, Whole, Where, Marked,
        Helper, Prog, NoHelper, TypeOK
  <1>20. CASE Launch
    BY <1>0, <1>20, Versions
    DEF Launch, disk, history, around, Replaces, Sound, Whole, Where, Back,
        Helper, Prog, NoHelper, TypeOK
  <1>21. CASE Exit
    BY <1>0, <1>21, Versions
    DEF Exit, around, Orphaned, Stopped, ProgOnly, End, Replaces, Sound,
        Whole, Where, Marked, Going, InTx, Forth, Back, Helper, Prog,
        NoHelper, TypeOK
  <1>22. CASE TickRecovers
    BY <1>0, <1>22, Versions
    DEF TickRecovers, disk, history, around, LockActive, Unattended,
        NeedsRecovery, LaunchRecovery, Replaces, Sound, Whole, Where, Marked,
        Going, InTx, Forth, Back, Helper, Prog, NoHelper, TypeOK
  <1>23. CASE StartProgram \/ StopService
    <2>1. CASE StartProgram
      BY <1>0, <2>1, Versions
      DEF StartProgram, disk, history, around, Stopped, NoError, End, To,
          At, HelperOnly, Replaces, Sound, Whole, Where, Marked, Going,
          InTx, Forth, Back, Helper, Prog, NoHelper, TypeOK
    <2>2. CASE StopService
      BY <1>0, <2>2, Versions
      DEF StopService, disk, history, around, Stopped, NoError, End, To, At,
          HelperOnly, Replaces, Sound, Whole, Where, Marked, Going, InTx,
          Forth, Back, Helper, Prog, NoHelper, TypeOK
    <2>3. QED
      BY <1>23, <2>1, <2>2
  <1>24. CASE Wait
    BY <1>0, <1>24, Versions
    DEF Wait, disk, history, around, To, At, HelperOnly, AfterWait, Replaces,
        Sound, Whole, Where, Marked, Going, InTx, Forth, Back, Helper, Prog,
        NoHelper, TypeOK
  <1>25. CASE FinalizeBackup
    BY <1>0, <1>25, Versions
    DEF FinalizeBackup, history, around, To, At, HelperOnly, FinalizedNow,
        Replaces, Going, InTx, Forth, Back, Helper, Prog, NoHelper, TypeOK
  <1>26. CASE Verify
    BY <1>0, <1>26, Versions
    DEF Verify, disk, history, around, To, At, HelperOnly, Replaces, Going,
        InTx, Forth, Back, Helper, Prog, NoHelper, TypeOK
  <1>27. CASE BackUp
    BY <1>0, <1>27, Versions
    DEF BackUp, history, around, To, At, HelperOnly, Replaces, Sound, InTx,
        Forth, Back, Helper, Prog, NoHelper, TypeOK
  <1>28. CASE Untouched
    BY <1>0, <1>28, Versions
    DEF Untouched, disk, around, Error, To, Replaces, Sound, Whole, Forth,
        Back, Helper, Prog, NoHelper, TypeOK
  <1>29. CASE MoveAway
    BY <1>0, <1>29, Versions
    DEF MoveAway, history, around, Forth, Back, HelperOnly, Replacing,
        Restoring, Current, Replaces, Sound, Whole, Where, Marked, Going,
        InTx, Helper, Prog, NoHelper, TypeOK
  <1>30. CASE MoveFails
    BY <1>0, <1>30, Versions
    DEF MoveFails, around, Forth, Back, Current, Replaces, Sound, Whole,
        Where, Marked, Going, InTx, Helper, Prog, NoHelper, TypeOK
  <1>31. CASE DbAway
    BY <1>0, <1>31, Versions
    DEF DbAway, history, around, Running, HelperOnly, Replaces, Sound, Whole,
        Forth, Back, Helper, Prog, NoHelper, TypeOK
  <1>32. CASE DbOpen
    BY <1>0, <1>32, Versions
    DEF DbOpen, disk, history, around, Running, To, At, HelperOnly, Replaces,
        Sound, Whole, Where, Marked, Going, InTx, Forth, Back, Helper, Prog,
        NoHelper, TypeOK
  <1>33. CASE StartFails
    BY <1>0, <1>33, Versions
    DEF StartFails, disk, around, Error, NoError, To, HelperOnly, Replaces,
        Going, InTx, Forth, Back, Helper, Prog, NoHelper, TypeOK
  <1>34. CASE StopFails
    BY <1>0, <1>34, Versions
    DEF StopFails, disk, around, Error, To, HelperOnly, Replaces, Sound,
        InTx, Forth, Back, Helper, Prog, NoHelper, TypeOK
  <1>35. CASE Commit
    BY <1>0, <1>35, Versions
    DEF Commit, history, around, To, HelperOnly, CommitProven, Replaces,
        Sound, InTx, Forth, Back, Helper, Prog, NoHelper, TypeOK
  <1>36. CASE Publish
    BY <1>0, <1>36, Versions
    DEF Publish, history, around, Published, To, At, HelperOnly, Replaces,
        Going, InTx, Forth, Back, Helper, Prog, NoHelper, TypeOK
  <1>37. CASE Clear
    BY <1>0, <1>37, Versions
    DEF Clear, history, around, Finalized, To, At, HelperOnly, Replaces,
        Going, InTx, Forth, Back, Helper, Prog, NoHelper, TypeOK
  <1>38. CASE Fail
    BY <1>0, <1>38, Versions
    DEF Fail, history, around, To, At, HelperOnly, Replaces, Sound, InTx,
        Forth, Back, Helper, Prog, NoHelper, TypeOK
  <1>39. CASE Release
    BY <1>0, <1>39, Versions
    DEF Release, history, around, HelperOnly, Takeable, Replaces, Sound,
        Whole, Forth, Back, Helper, Prog, NoHelper, TypeOK
  <1>40. QED
    BY <1>1, <1>2, <1>3, <1>4, <1>5, <1>6, <1>7, <1>8, <1>9, <1>10, <1>11,
       <1>12, <1>13, <1>14, <1>15, <1>16, <1>17, <1>18, <1>19, <1>20,
       <1>21, <1>22, <1>23, <1>24, <1>25, <1>26, <1>27, <1>28, <1>29,
       <1>30, <1>31, <1>32, <1>33, <1>34, <1>35, <1>36, <1>37, <1>38,
       <1>39
    DEF Next, Installation, Program, HelperSteps

LEMMA RestorableStep ==
  ASSUME IInv, Next, patient
  PROVE  Restorable'
  <1>0. TypeOK /\ Locks /\ Asked /\ Marked /\ Where /\ Prepares /\ Distinct /\ Restorable
    BY DEF IInv
  <1>1. CASE Begin
    <2>1. /\ lock' = [pid |-> "program", token |-> 0] /\ ~LockActive
          /\ UNCHANGED <<tx, helper>>
      BY <1>1 DEF Begin, ProgOnly
    <2>2. ~Going
      BY <1>0, <2>1, HelperHolds, Underway
    <2>3. ~Reachable'
      BY <1>0, <2>1, <2>2, TransactionIds
      DEF Reachable, Going, Open, Takeable
    <2>4. QED
      BY <2>3 DEF Restorable
  <1>2. CASE Stage
    <2>1. /\ prog.web = "locked" /\ tx' = tx /\ helper' = helper
          /\ lock' = lock /\ lock.token = 0
      BY <1>0, <1>2 DEF Stage, Locks, ProgOnly
    <2>2. helper.pc \notin Steps
      BY <1>0, <2>1, HelperHolds
    <2>3. tx # NoTransaction => lock'.token # tx.req.id
      BY <1>0, <2>1, TransactionIds DEF Distinct, Handing
    <2>4. ~Going'
      BY <2>1, <2>2 DEF Going, InTx, Steps, HelperPC
    <2>5. ~Reachable'
      BY <2>1, <2>3, <2>4 DEF Reachable, Open, Takeable
    <2>6. QED
      BY <2>5 DEF Restorable
  <1>3. CASE HandOff
    <2>1. /\ prog.web = "staged" /\ tx' = tx /\ helper' = helper
          /\ lock'.token = request.id
      BY <1>0, <1>3 DEF HandOff, Locks, ProgOnly
    <2>2. helper.pc \notin Steps
      BY <1>0, <2>1, HelperHolds
    <2>3. tx # NoTransaction => lock'.token # tx.req.id
      BY <1>0, <2>1, TransactionIds DEF Distinct, Handing
    <2>4. ~Going'
      BY <2>1, <2>2 DEF Going, InTx, Steps, HelperPC
    <2>5. ~Reachable'
      BY <2>1, <2>3, <2>4 DEF Reachable, Open, Takeable
    <2>6. QED
      BY <2>5 DEF Restorable
  <1>4. CASE Launch
    <2>1. /\ prog.web = "handed" /\ tx' = tx /\ helper'.pc = "read"
          /\ lock' = lock /\ lock.token = request.id
      BY <1>0, <1>4 DEF Launch, Locks, NoHelper, disk
    <2>2. helper.pc \notin Steps
      BY <1>0, <2>1, HelperHolds
    <2>3. tx # NoTransaction => lock'.token # tx.req.id
      BY <1>0, <2>1, TransactionIds DEF Distinct, Handing
    <2>4. ~Going'
      BY <2>1, <2>2 DEF Going, InTx, Steps, HelperPC
    <2>5. ~Reachable'
      BY <2>1, <2>3, <2>4 DEF Reachable, Open, Takeable
    <2>6. QED
      BY <2>5 DEF Restorable
  <1>5. CASE Exit
    <2>1. /\ UNCHANGED <<tx, app, saved, helper>> /\ prog.at = "leaving"
          /\ prog' = Stopped
          /\ stopped' = IF prog.parent = "update" THEN db ELSE stopped
          /\ lock' = IF prog.web \in {"locked", "staged"} THEN Free
                     ELSE Orphaned("program")
      BY <1>5 DEF Exit, End, ProgOnly
    <2>2. prog.web = "idle"
      BY <1>0, <2>1 DEF Locks
    <2>3. lock' = Orphaned("program")
      BY <2>1, <2>2
    <2>4. lock'.token = lock.token /\ (lock' = Free <=> lock = Free)
      BY <1>0, <2>3 DEF Orphaned, TypeOK, Lock, Free
    <2>5. Reachable' => Reachable
      BY <2>1, <2>4 DEF Reachable, Open, Going, Takeable
    <2>6. QED
      BY <1>0, <2>1, <2>5, Ended DEF Restorable
  <1>6. CASE BootRecovers
    <2>1. /\ UNCHANGED <<tx, app, saved, stopped, lock>> /\ prog' = Stopped
          /\ helper' = helper \/ helper'.pc = "read"
      BY <1>0, <1>6, BootRecoversEffect DEF disk, history
    <2>2. Reachable' => Reachable
      BY <2>1 DEF Reachable, Open, Going, InTx, Takeable
    <2>3. QED
      BY <1>0, <2>1, <2>2, Ended, RestorableKept
  <1>7. CASE BootOpens
    <2>1. /\ UNCHANGED <<app, saved, stopped, lock, helper>>
          /\ prog' = [prog EXCEPT !.at = "up"]
          /\ tx' = tx \/ tx' = NoTransaction
      BY <1>0, <1>7, BootOpensEffect
    <2>2. prog'.parent = prog.parent
      BY <1>0, <2>1 DEF TypeOK, Prog
    <2>3. CASE tx' = tx
      BY <1>0, <2>1, <2>2, <2>3, RestorableKept
      DEF Reachable, Open, Going, Takeable
    <2>4. CASE tx' = NoTransaction
      BY <2>4 DEF Restorable, Reachable, Open
    <2>5. QED
      BY <2>1, <2>3, <2>4
  <1>8. CASE Tick
    <2>1. /\ UNCHANGED <<app, saved, stopped, lock, helper>>
          /\ prog' \in {prog, [prog EXCEPT !.busy = FALSE]}
          /\ tx' = tx \/ tx' = NoTransaction
      BY <1>0, <1>8, TickEffect
    <2>2. prog'.parent = prog.parent
      BY <1>0, <2>1 DEF TypeOK, Prog
    <2>3. CASE tx' = tx
      BY <1>0, <2>1, <2>2, <2>3, RestorableKept
      DEF Reachable, Open, Going, Takeable
    <2>4. CASE tx' = NoTransaction
      BY <2>4 DEF Restorable, Reachable, Open
    <2>5. QED
      BY <2>1, <2>3, <2>4
  <1>9. CASE TakeRequest
    <2>1. /\ UNCHANGED <<tx, app, saved, stopped, prog>>
          /\ helper.pc = "read" /\ ~helper.recovers
      BY <1>0, <1>9, TakeRequestEffect
    <2>2. CASE /\ helper'.pc \in {"stop", "wait"} /\ ~helper'.recovers
               /\ lock' = Taken(helper.req)
      <3>1. tx # NoTransaction => helper.req.id # tx.req.id
        BY <1>0, <2>1 DEF Prepares, Preparing, Early
      <3>2. ~Reachable'
        BY <2>1, <2>2, <3>1 DEF Reachable, Open, Going, InTx, Takeable, Taken
      <3>3. QED
        BY <3>2 DEF Restorable
    <2>3. CASE helper' = NoHelper /\ lock' = lock
      <3>1. Reachable' => Reachable
        BY <2>1, <2>3, Nobody DEF Reachable, Open, Going, InTx, Takeable
      <3>2. QED
        BY <1>0, <2>1, <3>1, RestorableKept
    <2>4. QED
      BY <1>0, <1>9, <2>2, <2>3, TakeRequestEffect
  <1>10. CASE TakeTransaction
    <2>1. UNCHANGED <<tx, app, saved, stopped, prog>>
      BY <1>0, <1>10, TakeTransactionEffect
    <2>2. CASE tx # NoTransaction /\ lock # Free /\ lock.token = tx.req.id
      BY <1>0, <2>1, <2>2, RestorableKept DEF Reachable, Open, Takeable
    <2>3. CASE helper' = NoHelper /\ lock' = lock
      <3>1. Reachable' => Reachable
        BY <2>1, <2>3, Nobody DEF Reachable, Open, Going, InTx, Takeable
      <3>2. QED
        BY <1>0, <2>1, <3>1, RestorableKept
    <2>4. QED
      BY <1>0, <1>10, <2>2, <2>3, TakeTransactionEffect
  <1>11. CASE FinalizeBackup
    <2>1. /\ helper.pc = "finalize" /\ helper'.pc = "verify"
          /\ helper'.recovers = helper.recovers /\ UNCHANGED <<tx, lock>>
      BY <1>0, <1>11 DEF FinalizeBackup, At, To, TypeOK, Helper
    <2>2. Preparing /\ helper.pc \in Steps
      BY <1>0, <2>1 DEF Preparing, Early, Marked, FirstSteps, Steps, HelperPC
    <2>3. tx # NoTransaction => lock.token # tx.req.id
      BY <1>0, <2>2, HelperHolds DEF Prepares
    <2>4. ~Reachable'
      BY <2>1, <2>3 DEF Reachable, Open, Going, InTx, Takeable
    <2>5. QED
      BY <2>4 DEF Restorable
  <1>12. CASE BackUp
    <2>1. /\ helper.pc = "backup" /\ helper'.pc = "record"
          /\ helper'.recovers = helper.recovers /\ UNCHANGED <<tx, lock>>
      BY <1>0, <1>12 DEF BackUp, At, To, TypeOK, Helper
    <2>2. Preparing /\ helper.pc \in Steps
      BY <1>0, <2>1 DEF Preparing, Early, Marked, FirstSteps, Steps, HelperPC
    <2>3. tx # NoTransaction => lock.token # tx.req.id
      BY <1>0, <2>2, HelperHolds DEF Prepares
    <2>4. ~Reachable'
      BY <2>1, <2>3 DEF Reachable, Open, Going, InTx, Takeable
    <2>5. QED
      BY <2>4 DEF Restorable
  <1>13. CASE Record
    <2>1. /\ helper.pc = "record" /\ tx' = RecordedNow
          /\ UNCHANGED <<saved, app, prog, stopped>>
      BY <1>13 DEF Record, At, history
    <2>2. Preparing /\ helper.req \in Request /\ prog.at = "off"
      BY <1>0, <2>1, HelperHolds
      DEF Preparing, Early, Marked, FirstSteps, Steps, HelperPC, Where
    <2>3. prog.parent = "no" /\ tx'.req = helper.req
      BY <1>0, <2>1, <2>2 DEF Where, RecordedNow
    <2>4. /\ Sound(helper.req.from) /\ db = stopped
          /\ db.rows[helper.req.id] # "none"
          /\ saved[helper.req.from] = stopped /\ app[helper.req.from] = files
      BY <1>0, <2>1, <2>2, <2>3 DEF Prepares
    <2>5. QED
      BY <2>1, <2>3, <2>4 DEF Restorable, Sound, Whole
  <1>14. CASE DbBack
    <2>1. /\ UNCHANGED <<tx, app, saved, stopped, lock>>
          /\ helper.pc \in InTx
          /\ prog'.parent = "update" => prog.parent = "update"
      BY <1>0, <1>14, DbBackEffect DEF InTx
    <2>2. Reachable' => Reachable
      BY <1>0, <2>1, Underway DEF Going
    <2>3. QED
      BY <1>0, <2>1, <2>2, RestorableKept
  <1>15. CASE Healthy
    <2>1. /\ UNCHANGED <<tx, app, saved, stopped, lock>>
          /\ helper.pc \in InTx
          /\ prog'.parent = "update" => prog.parent = "update"
      BY <1>0, <1>15, HealthyEffect DEF disk, InTx
    <2>2. Reachable' => Reachable
      BY <1>0, <2>1, Underway DEF Going
    <2>3. QED
      BY <1>0, <2>1, <2>2, RestorableKept
  <1>16. CASE Unhealthy
    <2>1. /\ UNCHANGED <<tx, app, saved, stopped, lock>>
          /\ helper.pc \in InTx
          /\ prog'.parent = "update" => prog.parent = "update"
      BY <1>0, <1>16, UnhealthyEffect, HaltedProgram, Ended DEF disk, InTx
    <2>2. Reachable' => Reachable
      BY <1>0, <2>1, Underway DEF Going
    <2>3. QED
      BY <1>0, <2>1, <2>2, RestorableKept
  <1>17. CASE CommitFails
    <2>1. /\ UNCHANGED <<tx, app, saved, stopped, lock>>
          /\ helper.pc \in InTx
          /\ prog'.parent = "update" => prog.parent = "update"
      BY <1>0, <1>17, CommitFailsEffect, HaltedProgram, Ended DEF disk, InTx
    <2>2. Reachable' => Reachable
      BY <1>0, <2>1, Underway DEF Going
    <2>3. QED
      BY <1>0, <2>1, <2>2, RestorableKept
  <1>18. CASE GiveUp
    <2>1. /\ UNCHANGED <<tx, app, saved, stopped, lock, prog>>
          /\ helper'.pc \in {"fail", "release"}
      BY <1>0, <1>18, GiveUpEffect
    <2>2. Reachable' => Reachable
      BY <2>1 DEF Reachable, Open, Going, InTx, Takeable
    <2>3. QED
      BY <1>0, <2>1, <2>2, RestorableKept
  <1>19. CASE Release
    <2>1. /\ UNCHANGED <<tx, app, saved, stopped, prog>> /\ helper' = NoHelper
          /\ lock' = IF Takeable(helper.req) THEN Free ELSE lock
      BY <1>19 DEF Release, history
    <2>2. Reachable' => Reachable
      BY <2>1, Nobody DEF Reachable, Open, Going, InTx, Takeable
    <2>3. QED
      BY <1>0, <2>1, <2>2, RestorableKept
  <1>20. CASE Crash
    <2>1. /\ UNCHANGED <<tx, app, saved>> /\ lock'.token = lock.token
          /\ lock' = Free <=> lock = Free
          /\ helper' \in {helper, NoHelper} /\ prog' \in {prog, Stopped}
          /\ stopped' # stopped => prog.parent = "update"
      BY <1>0, <1>20, CrashEffect
    <2>2. Going' => Going
      BY <2>1, Nobody DEF Going, InTx
    <2>3. Reachable' => Reachable
      BY <2>1, <2>2 DEF Reachable, Open, Takeable
    <2>4. CASE Reachable
      <3>1. prog.parent # "update" /\ stopped' = stopped
        BY <1>0, <2>1, <2>4 DEF Restorable
      <3>2. QED
        BY <1>0, <2>1, <2>3, <3>1, Ended, RestorableKept
    <2>5. CASE ~Reachable
      BY <2>3, <2>5 DEF Restorable
    <2>6. QED
      BY <2>4, <2>5
  <1>21. CASE Write
    BY <1>0, <1>21, Versions
    DEF Write, around, ProgOnly, Running, Restorable, Reachable, Open, Going,
        Takeable, Helper, Prog, TypeOK
  <1>22. CASE FailInstall
    BY <1>0, <1>22, Versions
    DEF FailInstall, around, ProgOnly, Restorable, Reachable, Open, Going,
        InTx, Locks, Marked, Where, Takeable, Helper, Prog, TypeOK
  <1>23. CASE TickRecovers
    BY <1>0, <1>23, Versions
    DEF TickRecovers, disk, history, around, LockActive, Unattended,
        NeedsRecovery, LaunchRecovery, Restorable, Reachable, Open, Going,
        InTx, Locks, Marked, Where, Takeable, Helper, Prog, TypeOK
  <1>24. CASE StartProgram
    BY <1>0, <1>24, Versions
    DEF StartProgram, disk, history, around, Stopped, Restorable, Reachable,
        Open, Going, InTx, Locks, Marked, Where, Takeable, Helper, Prog,
        TypeOK
  <1>25. CASE StopService
    BY <1>0, <1>25, Versions
    DEF StopService, around, Stopped, NoError, End, To, At, HelperOnly,
        Restorable, Reachable, Open, Going, InTx, Locks, Marked, Where,
        Takeable, Helper, Prog, TypeOK
  <1>26. CASE Wait
    BY <1>0, <1>26, Versions
    DEF Wait, disk, history, around, To, At, HelperOnly, AfterWait,
        Restorable, Reachable, Open, Going, InTx, Locks, Marked, Where,
        Takeable, Helper, Prog, TypeOK
  <1>27. CASE Verify
    BY <1>0, <1>27, Versions
    DEF Verify, disk, history, around, To, At, HelperOnly, Restorable,
        Reachable, Open, Going, InTx, Locks, Marked, Where, Takeable, Helper,
        Prog, TypeOK
  <1>28. CASE Untouched
    BY <1>0, <1>28, Versions
    DEF Untouched, disk, around, Error, To, Restorable, Reachable, Open,
        Going, InTx, Locks, Marked, Where, Takeable, Helper, Prog, TypeOK
  <1>29. CASE MoveAway
    BY <1>0, <1>29, Versions
    DEF MoveAway, history, around, Forth, Current, Restorable, Reachable,
        Open, Going, InTx, Locks, Marked, Where, Takeable, Helper, Prog,
        TypeOK
  <1>30. CASE MoveIn
    BY <1>0, <1>30, Versions
    DEF MoveIn, history, around, Forth, Back, HelperOnly, Replacing,
        Restoring, Current, Wanted, AfterFiles, Restorable, Reachable, Open,
        Going, InTx, Locks, Marked, Where, Takeable, Helper, Prog, TypeOK
  <1>31. CASE MoveFails
    BY <1>0, <1>31, Versions
    DEF MoveFails, around, Forth, Back, Error, HelperOnly, Replacing,
        Restoring, Current, Restorable, Reachable, Open, Going, InTx, Locks,
        Marked, Where, Takeable, Helper, Prog, TypeOK
  <1>32. CASE DbAway
    BY <1>0, <1>32, Versions
    DEF DbAway, history, around, Running, HelperOnly, Restorable, Reachable,
        Open, Going, InTx, Locks, Marked, Where, Takeable, Helper, Prog,
        TypeOK
  <1>33. CASE DbOpen
    BY <1>0, <1>33, Versions
    DEF DbOpen, disk, history, around, Running, To, At, HelperOnly, InTx,
        Locks, Marked, Where, Takeable, Helper, Prog, TypeOK
  <1>34. CASE StartAgain
    BY <1>0, <1>34, Versions
    DEF StartAgain, disk, history, around, Stopped, To, HelperOnly, Started,
        AfterStart, Restorable, Reachable, Open, Going, InTx, Locks, Marked,
        Where, Takeable, Helper, Prog, TypeOK
  <1>35. CASE StartFails
    BY <1>0, <1>35, Versions
    DEF StartFails, disk, around, Error, NoError, To, HelperOnly, Restorable,
        Reachable, Open, Going, InTx, Locks, Marked, Where, Takeable, Helper,
        Prog, TypeOK
  <1>36. CASE StopFails
    BY <1>0, <1>36, Versions
    DEF StopFails, disk, around, Error, To, HelperOnly, Restorable,
        Reachable, Open, Going, InTx, Locks, Marked, Where, Takeable, Helper,
        Prog, TypeOK
  <1>37. CASE Commit
    BY <1>0, <1>37, Versions
    DEF Commit, history, around, To, HelperOnly, CommitProven, Restorable,
        Reachable, Open, Going, InTx, Locks, Marked, Where, Takeable, Helper,
        Prog, TypeOK
  <1>38. CASE Publish \/ Clear
    BY <1>0, <1>38, Versions
    DEF Publish, Clear, history, around, Published, To, At, HelperOnly,
        Finalized, Restorable, Reachable, Open, Going, InTx, Locks, Marked,
        Where, Takeable, Helper, Prog, TypeOK
  <1>39. CASE Fail
    BY <1>0, <1>39, Versions
    DEF Fail, history, around, To, At, HelperOnly, Restorable, Reachable,
        Open, Going, InTx, Locks, Marked, Where, Takeable, Helper, Prog,
        TypeOK
  <1>40. QED
    BY <1>1, <1>2, <1>3, <1>4, <1>5, <1>6, <1>7, <1>8, <1>9, <1>10, <1>11,
       <1>12, <1>13, <1>14, <1>15, <1>16, <1>17, <1>18, <1>19, <1>20,
       <1>21, <1>22, <1>23, <1>24, <1>25, <1>26, <1>27, <1>28, <1>29,
       <1>30, <1>31, <1>32, <1>33, <1>34, <1>35, <1>36, <1>37, <1>38,
       <1>39
    DEF Next, Installation, Program, HelperSteps
-----------------------------------------------------------------------------
(* The theorems *)

LEMMA ReturnsKept ==
  ASSUME IInv, patient, prog' = prog, tx' = tx, db'.writes = db.writes,
         stopped' = stopped, helper'.pc \notin {"recheck", "commit", "recommit"},
         helper'.pc \in {"fail", "release"} /\ prog.at = "boot" /\ Reachable' =>
           helper.pc \in {"fail", "release"} /\ Reachable
  PROVE  Returns'
  BY DEF IInv, Returns

(* Outside of a transaction, and with no program about to start, there is  *)
(* nothing to say.                                                         *)
LEMMA ReturnsNothing ==
  ASSUME helper'.pc \notin {"recheck", "commit", "recommit"},
         prog'.at # "boot" \/ ~Reachable' \/ helper'.pc \notin {"fail", "release"}
  PROVE  Returns'
  BY DEF Returns

LEMMA ReturnsStep ==
  ASSUME IInv, Next, patient
  PROVE  Returns'
  <1>0. TypeOK /\ Locks /\ Marked /\ Where /\ Fits /\ Prepares /\ Replaces
        /\ Returns
    BY DEF IInv
  <1>1. /\ db \in Content /\ stopped \in Content /\ db.writes \in Nat
        /\ stopped.writes \in Nat /\ helper \in Helper /\ prog \in Prog
    BY <1>0, WindowsAssumption DEF TypeOK, Content
  <1>2. CASE Write
    <2>1. /\ Running /\ UNCHANGED <<helper, prog, stopped>>
          /\ db' = [db EXCEPT !.writes = @ + 1]
      BY <1>2 DEF Write, ProgOnly
    <2>2. db'.writes = db.writes + 1
      BY <1>1, <2>1 DEF Content
    <2>3. db.writes >= stopped.writes => db'.writes >= stopped.writes
      BY <1>1, <2>2
    <2>4. QED
      BY <1>0, <2>1, <2>3 DEF Returns, Running
  <1>3. CASE Begin \/ Stage \/ HandOff \/ FailInstall
    <2>1. helper' = helper /\ stopped' = stopped /\ prog.at = "up"
      BY <1>3 DEF Begin, Stage, HandOff, FailInstall, ProgOnly
    <2>2. db'.writes = db.writes
      BY <1>1, <1>3 DEF Begin, Stage, HandOff, FailInstall, Content
    <2>3. prog'.at = "up"
      BY <1>1, <1>3, <2>1 DEF Begin, Stage, HandOff, FailInstall, Prog
    <2>4. QED
      BY <1>0, <2>1, <2>2, <2>3 DEF Returns
  <1>4. CASE Launch \/ TickRecovers \/ BootRecovers
    <2>1. helper'.pc = helper.pc \/ helper'.pc = "read"
      BY <1>1, <1>4, Nobody DEF Launch, TickRecovers, BootRecovers, LaunchRecovery, NoHelper
    <2>2. prog'.at # "boot" /\ db' = db /\ stopped' = stopped
      BY <1>0, <1>1, <1>4, Ended DEF Launch, TickRecovers, BootRecovers, Prog, disk, history
    <2>3. QED
      BY <1>0, <2>1, <2>2 DEF Returns
  <1>5. CASE Exit
    <2>1. /\ helper' = helper /\ db' = db /\ prog'.at = "off"
          /\ stopped' = IF prog.parent = "update" THEN db ELSE stopped
      BY <1>0, <1>5, Ended DEF Exit, End, ProgOnly
    <2>2. helper.pc \in {"recheck", "recommit"} => stopped' = stopped
      BY <1>0, <2>1 DEF Where
    <2>3. QED
      BY <1>0, <2>1, <2>2 DEF Returns
  <1>6. CASE StartProgram
    <2>1. helper.pc = "off" /\ helper' = helper
      BY <1>6 DEF StartProgram
    <2>2. QED
      BY <2>1 DEF Returns
  <1>7. CASE BootOpens
    <2>1. /\ helper' = helper /\ stopped' = stopped /\ db'.writes = db.writes
          /\ prog'.at = "up"
      BY <1>0, <1>1, <1>7, BootOpensEffect DEF Prog
    <2>2. QED
      BY <1>0, <2>1 DEF Returns
  <1>8. CASE Tick
    <2>1. /\ helper' = helper /\ stopped' = stopped /\ db'.writes = db.writes
          /\ prog'.at = "up"
      BY <1>0, <1>1, <1>8, TickEffect DEF Prog
    <2>2. QED
      BY <1>0, <2>1 DEF Returns
  <1>9. CASE TakeRequest \/ TakeTransaction
    <2>1. helper'.pc \in {"stop", "wait", "off"}
      BY <1>0, <1>9, TakeRequestEffect, TakeTransactionEffect, Nobody DEF IInv
    <2>2. QED
      BY <2>1, ReturnsNothing
  <1>10. CASE StopService \/ Wait \/ FinalizeBackup \/ Verify \/ BackUp
              \/ Record \/ Untouched \/ MoveAway \/ MoveIn \/ DbAway
    <2>1. CASE StopService \/ Wait \/ FinalizeBackup \/ Verify \/ BackUp
      <3>1. helper'.pc \in HelperPC \
              {"recheck", "commit", "recommit", "fail", "release"}
        BY <1>1, <2>1
        DEF StopService, Wait, FinalizeBackup, Verify, BackUp, To, At,
            AfterWait, Helper, HelperPC
      <3>2. QED
        BY <3>1, ReturnsNothing
    <2>2. CASE Record \/ Untouched \/ MoveAway \/ MoveIn \/ DbAway
      <3>1. helper'.pc \in HelperPC \
              {"recheck", "commit", "recommit", "fail", "release"}
        BY <1>1, <2>2
        DEF Record, Untouched, MoveAway, MoveIn, DbAway, To, At, AfterFiles,
            Helper, HelperPC, Replacing, Restoring
      <3>2. QED
        BY <3>1, ReturnsNothing
    <2>3. QED
      BY <1>10, <2>1, <2>2
  <1>11. CASE MoveFails \/ DbOpen \/ GiveUp
    <2>1. /\ helper.pc \in {"replace", "undo", "undoMove", "undoDb", "stop",
                            "wait", "publish", "clear"}
          /\ helper'.pc \in {"undo", "fail", "release"}
          /\ prog' = prog /\ tx' = tx
          /\ helper.pc \in {"publish", "clear"} <=> helper'.pc = "release"
      BY <1>0, <1>1, <1>11, GiveUpEffect
      DEF MoveFails, DbOpen, At, To, Replacing, Restoring, Helper, disk, history
    <2>2. helper.pc \notin {"publish", "clear"} => prog.at # "boot"
      BY <1>0, <2>1 DEF Where
    <2>3. helper.pc \in {"publish", "clear"} => ~Reachable'
      BY <1>0, <2>1 DEF Marked, Reachable, Open
    <2>4. QED
      BY <2>1, <2>2, <2>3, ReturnsNothing
  <1>12. CASE DbBack
    BY <1>0, <1>12, DbBackEffect, ReturnsNothing
  <1>13. CASE StartAgain
    <2>1. /\ helper.pc \in {"start", "restart", "unchanged"}
          /\ helper'.pc = AfterStart /\ helper'.recovers = helper.recovers
          /\ UNCHANGED <<db, stopped, tx, lock>> /\ helper'.req = helper.req
      BY <1>1, <1>13 DEF StartAgain, To, Helper, disk, history
    <2>2. CASE helper.pc = "start"
      BY <2>1, <2>2, ReturnsNothing DEF AfterStart
    <2>3. CASE helper.pc = "restart"
      <3>1. helper'.pc = "recheck" /\ db = stopped
        BY <1>0, <2>1, <2>3 DEF AfterStart, Replaces
      <3>2. QED
        BY <1>1, <2>1, <3>1 DEF Returns
    <2>4. CASE helper.pc = "unchanged"
      <3>1. helper'.pc = "fail" /\ ~helper.recovers /\ helper.pc \in Steps
        BY <1>0, <2>1, <2>4 DEF AfterStart, Marked, FirstSteps, Steps, HelperPC
      <3>2. ~Going'
        BY <3>1 DEF Going, InTx
      <3>3. tx # NoTransaction => helper.req.id # tx.req.id
        BY <1>0, <2>4, <3>1 DEF Prepares, Preparing, Early
      <3>4. ~Reachable'
        BY <1>0, <2>1, <3>1, <3>2, <3>3, HelperHolds DEF Reachable, Open, Takeable
      <3>5. QED
        BY <3>1, <3>4, ReturnsNothing
    <2>5. QED
      BY <2>1, <2>2, <2>3, <2>4
  <1>14. CASE StartFails
    <2>1. /\ helper.pc \in {"start", "restart", "unchanged"}
          /\ helper'.pc \in {"undo", "fail"} /\ prog' = prog
      BY <1>1, <1>14 DEF StartFails, To, Helper
    <2>2. prog.at = "off"
      BY <1>0, <2>1 DEF Where
    <2>3. QED
      BY <2>1, <2>2, ReturnsNothing
  <1>15. CASE Healthy
    <2>1. /\ prog.at = "up" /\ prog' = prog /\ UNCHANGED <<db, stopped>>
          /\ helper.pc = "recheck" \/ helper'.pc = "commit"
          /\ helper'.pc \in {"commit", "recommit"}
      BY <1>0, <1>15, HealthyEffect DEF disk
    <2>2. QED
      BY <1>0, <2>1 DEF Returns
  <1>16. CASE Unhealthy
    <2>1. /\ helper.pc \in {"health", "recheck"} /\ prog' = Halted
          /\ helper'.pc \in {"undo", "fail"}
      BY <1>0, <1>16, UnhealthyEffect
    <2>2. prog'.at = "off"
      BY <1>0, <2>1, HaltedProgram, Ended DEF Where
    <2>3. QED
      BY <2>1, <2>2, ReturnsNothing
  <1>17. CASE StopFails
    <2>1. /\ helper.pc \in {"health", "commit"} /\ helper'.pc = "fail"
          /\ UNCHANGED <<prog, tx>>
      BY <1>1, <1>17 DEF StopFails, To, Helper, disk
    <2>2. CASE prog.at = "boot"
      <3>1. helper.pc = "health" /\ Going
        BY <1>0, <2>1, <2>2 DEF Returns, Going, InTx
      <3>2. /\ tx.req = helper.req /\ helper.pc \in Steps
        BY <1>0, <3>1, Underway
      <3>3. ~NeedsRecovery
        BY <1>0, <3>2, HelperHolds DEF NeedsRecovery, Unattended
      <3>4. prog.v = files["exe"] /\ helper.req.to = files["exe"]
        BY <1>0, <2>2, <3>1, <3>3 DEF Fits, Replaces, Sound, Whole, File
      <3>5. QED
        BY <2>1, <2>2, <3>2, <3>4 DEF Returns
    <2>3. CASE prog.at # "boot"
      BY <2>1, <2>3, ReturnsNothing
    <2>4. QED
      BY <2>2, <2>3
  <1>18. CASE Commit \/ Publish
    <2>1. helper'.pc \in {"publish", "clear"}
      BY <1>1, <1>18 DEF Commit, Publish, At, To, Helper
    <2>2. QED
      BY <2>1, ReturnsNothing
  <1>19. CASE CommitFails
    <2>1. /\ helper.pc \in {"commit", "recommit"} /\ helper'.pc \in {"undo", "fail"}
          /\ prog' \in {prog, Stopped}
      BY <1>0, <1>19, CommitFailsEffect, HaltedProgram
    <2>2. prog'.at # "boot"
      BY <1>0, <2>1, Ended DEF Returns
    <2>3. QED
      BY <2>1, <2>2, ReturnsNothing
  <1>20. CASE Clear
    <2>1. helper.pc = "clear" /\ helper'.pc = "release" /\ tx' = Finalized
      BY <1>1, <1>20 DEF Clear, At, To, Helper
    <2>2. ~Reachable'
      BY <1>0, <2>1 DEF Marked, Finalized, Reachable, Open
    <2>3. QED
      BY <2>1, <2>2, ReturnsNothing
  <1>21. CASE Fail
    <2>1. /\ helper.pc = "fail" /\ helper'.pc = "release"
          /\ helper'.req = helper.req /\ UNCHANGED <<prog, tx, lock, db, stopped>>
      BY <1>1, <1>21 DEF Fail, At, To, Helper, history
    <2>2. ~Going'
      BY <2>1 DEF Going, InTx
    <2>3. Reachable' => Reachable
      BY <2>1, <2>2 DEF Reachable, Open, Takeable
    <2>4. QED
      BY <2>1, <2>3, ReturnsKept
  <1>22. CASE Release
    <2>1. helper'.pc = "off"
      BY <1>22, Nobody DEF Release
    <2>2. QED
      BY <2>1, ReturnsNothing
  <1>23. CASE Crash
    <2>1. CASE helper' = helper /\ prog.at # "off" /\ prog' = Stopped
      <3>1. helper.pc \in {"recheck", "recommit"} => stopped' = stopped
        BY <1>0, <1>23, <2>1, CrashEffect, Nobody DEF Where
      <3>2. prog'.at = "off" /\ db' = db
        BY <1>0, <1>23, <2>1, CrashEffect, Ended
      <3>3. QED
        BY <1>0, <2>1, <3>1, <3>2 DEF Returns
    <2>2. CASE helper' = NoHelper
      BY <2>2, Nobody, ReturnsNothing
    <2>3. QED
      BY <1>0, <1>23, <2>1, <2>2, CrashEffect
  <1>24. QED
    BY <1>2, <1>3, <1>4, <1>5, <1>6, <1>7, <1>8, <1>9, <1>10, <1>11, <1>12,
       <1>13, <1>14, <1>15, <1>16, <1>17, <1>18, <1>19, <1>20, <1>21, <1>22,
       <1>23
    DEF Next, Installation, Program, HelperSteps

LEMMA InitInvariant ==
  ASSUME Init
  PROVE  IInv
  <1>1. 1 \in Version /\ 1 \in 0..MaxVersion /\ 0 \in 0..MaxWrites
    BY WindowsAssumption DEF Version
  <1>2. /\ db = [by |-> 1, writes |-> 0, rows |-> NoRows] /\ tx = NoTransaction
        /\ helper = NoHelper /\ lock = Free /\ request = NoRequest
        /\ prog = [at |-> "up", v |-> 1, parent |-> "no", child |-> FALSE,
                   busy |-> FALSE, web |-> "idle"]
        /\ \A f \in File : files[f] = 1
    BY DEF Init
  <1>3. TypeOK
    <2>1. db \in Content
      BY <1>1, <1>2 DEF Content, NoRows, Row
    <2>2. files \in [File -> Version \cup {Gone}]
          /\ app \in [Version -> [File -> Version \cup {Gone}]]
      BY <1>1 DEF Init
    <2>3. saved \in [Version -> Content] /\ stopped \in Content
      BY Numbers DEF Init
    <2>4. lock \in Lock
      BY <1>2 DEF Free, Lock
    <2>5. prog \in Prog
      BY <1>1, <1>2 DEF Prog
    <2>6. result \in [Id -> {"none", "success", "failed", "rolled_back"}]
      BY DEF Init
    <2>7. helper \in Helper
      BY <1>2, Nobody
    <2>8. /\ service \in BOOLEAN /\ patient \in BOOLEAN /\ passed \subseteq Id
          /\ errors \in 0..MaxErrors /\ crashes \in 0..MaxCrashes
      BY Numbers DEF Init
    <2>9. QED
      BY <1>2, <2>1, <2>2, <2>3, <2>4, <2>5, <2>6, <2>7, <2>8 DEF TypeOK
  <1>4. Locks
    BY <1>2, Nobody DEF Locks, Steps, Free
  <1>5. Asked
    BY <1>2, Nobody DEF Asked, Handing, Begun
  <1>6. Marked
    BY <1>2, Nobody DEF Marked, FirstSteps, Going, InTx, Steps
  <1>7. Truth
    <2>1. \A id \in Id : Missing.rows[id] # "success" /\ db.rows[id] # "success"
      BY <1>2 DEF Missing, NoRows
    <2>2. /\ \A v \in Version : saved[v] = Missing
          /\ \A id \in Id : result[id] = "none"
      BY DEF Init
    <2>3. tx.done # "success"
      BY <1>2 DEF NoTransaction
    <2>4. QED
      BY <1>2, <2>1, <2>2, <2>3, Nobody DEF Truth
  <1>8. Sound(1)
    BY <1>1, <1>2 DEF Sound, Whole
  <1>9. Fits
    BY <1>2, <1>8 DEF Fits, File
  <1>10. Where /\ Prepares /\ Distinct /\ Replaces /\ Restorable /\ Returns
    BY <1>2, Nobody
    DEF Where, Begun, Prepares, Preparing, Early, Distinct, Handing,
        Replaces, Restorable, Reachable, Open, Returns
  <1>11. QED
    BY <1>3, <1>4, <1>5, <1>6, <1>7, <1>9, <1>10 DEF IInv

LEMMA Stuttering ==
  ASSUME IInv, UNCHANGED vars
  PROVE  IInv'
  <1>1. UNCHANGED <<files, db, saved, app, tx, lock, request, result, prog,
                    helper, service, patient, stopped, passed, errors,
                    crashes>>
    BY DEF vars, disk, around, history
  <1>2. TypeOK'
    BY <1>1 DEF IInv, TypeOK
  <1>3. Locks' /\ Asked' /\ Truth'
    BY <1>1 DEF IInv, Locks, Asked, Truth, Running, Handing, Begun
  <1>4. Marked'
    BY <1>1 DEF IInv, Marked, Going, NeedsRecovery, Unattended, LockActive
  <1>5. ASSUME patient
        PROVE  Where' /\ Fits' /\ Prepares' /\ Distinct'
    BY <1>1, <1>5
    DEF IInv, Where, Fits, Prepares, Distinct, Begun, Preparing, Handing,
        Sound, Whole, Open, Running, NeedsRecovery, Unattended, LockActive
  <1>6. ASSUME patient
        PROVE  Replaces' /\ Restorable' /\ Returns'
    BY <1>1, <1>6
    DEF IInv, Replaces, Restorable, Sound, Whole, Reachable, Open, Going,
        Takeable, Returns
  <1>7. QED
    BY <1>1, <1>2, <1>3, <1>4, <1>5, <1>6 DEF IInv

LEMMA TypeStep ==
  ASSUME IInv, Next
  PROVE  TypeOK'
  BY FilesStep, NotesStep, HistoryStep, HelperStep, ProgStep, ContentsStep
  DEF TypeOK, FilesTyped, NotesTyped, HistoryTyped

(* Who starts programs, and whether one belongs to a service, does not     *)
(* change.                                                                 *)
LEMMA Patience ==
  ASSUME Next
  PROVE  patient' = patient
  BY DEF Next, Installation, Program, HelperSteps, Write, Begin, Stage, HandOff, Launch,
         FailInstall, Exit, BootRecovers, BootOpens, TickRecovers, Tick,
         StartProgram, TakeRequest, TakeTransaction, StopService, Wait,
         FinalizeBackup, Verify, BackUp, Record, Untouched, MoveAway, MoveIn,
         MoveFails, DbAway, DbBack, DbOpen, StartAgain, StartFails, Healthy,
         Unhealthy, StopFails, Commit, CommitFails, Publish, Clear, GiveUp,
         Fail, Release, Crash, ProgOnly, HelperOnly, around

(* The invariant holds whatever the helper, the program and the user do,   *)
(* wherever a step fails and wherever one of them stops.                   *)
THEOREM Invariance == Spec => []IInv
  <1>1. ASSUME IInv, Next
        PROVE  IInv'
    <2>1. TypeOK' /\ Locks' /\ Asked' /\ Marked' /\ Truth'
      BY <1>1, TypeStep, LocksStep, AskedStep, MarkedStep, TruthStep
    <2>2. ASSUME patient
          PROVE  /\ Where' /\ Fits' /\ Prepares' /\ Distinct' /\ Replaces'
                 /\ Restorable' /\ Returns'
      BY <1>1, <2>2, WhereStep, FitsStep, PreparesStep, DistinctStep,
         ReplacesStep, RestorableStep, ReturnsStep
    <2>3. patient' = patient
      BY <1>1, Patience
    <2>4. QED
      BY <2>1, <2>2, <2>3 DEF IInv
  <1>2. IInv /\ [Next]_vars => IInv'
    BY <1>1, Stuttering
  <1>3. QED
    BY <1>2, InitInvariant, PTL DEF Spec

(* What is on the disk, the program and the helper stay what they are read *)
(* as.                                                                     *)
THEOREM TypeCorrect == Spec => []TypeOK
  <1>1. IInv => TypeOK
    BY DEF IInv
  <1>2. QED
    BY <1>1, Invariance, PTL

(* A program runs from the files of one version, its own, and on a         *)
(* database no other version has migrated.                                 *)
THEOREM ProgramsAreWhole == Spec => []ProgramIsWhole
  <1>1. IInv => ProgramIsWhole
    BY DEF IInv, Fits, Sound, Whole, ProgramIsWhole
  <1>2. QED
    BY <1>1, Invariance, PTL

(* The old program starts again on its own files and on the database the   *)
(* update found.                                                           *)
THEOREM RollbacksRestore == Spec => []RollbackRestores
  <1>1. IInv => RollbackRestores
    BY DEF IInv, Replaces, Sound, Whole, RollbackRestores
  <1>2. QED
    BY <1>1, Invariance, PTL

(* A success in the history has been seen healthy, also when results were  *)
(* written twice, or by another program than the one that was updated.     *)
THEOREM ResultsAreTrue == Spec => []ResultIsTrue
  <1>1. IInv => ResultIsTrue
    BY DEF IInv, Truth, ResultIsTrue
  <1>2. QED
    BY <1>1, Invariance, PTL
-----------------------------------------------------------------------------
(* The promise of UpdateTrial, step by step                                *)

Follows == [Trial!Next]_(Trial!vars)

LEMMA Unseen ==
  ASSUME UNCHANGED <<Installed, Trying, Fate, Serving, Database, Found, Tested>>
  PROVE  Follows
  BY DEF Follows, Trial!vars

(* Whoever has the transaction holds its lock.                             *)
LEMMA HeldWhileGoing ==
  ASSUME IInv, Going
  PROVE  /\ Open /\ Takeable(tx.req) /\ tx.req = helper.req
         /\ tx.req.from < tx.req.to /\ tx.req.from \in Version
         /\ tx.req.to \in Version /\ helper.pc \in Steps
  <1>1. TypeOK /\ Locks /\ Marked
    BY DEF IInv
  <1>2. QED
    BY <1>1, Underway, HelperHolds

(* What a step leaves of a trial that neither decides nor loses it.        *)
LEMMA TrialKept ==
  ASSUME patient, patient' = patient,
         tx' = tx \/ (~Open /\ ~Open'),
         Open \/ files'["exe"] = files["exe"],
         Open => (Takeable(tx.req)' <=> Takeable(tx.req)),
         Open /\ Takeable(tx.req) => stopped' = stopped
  PROVE  UNCHANGED <<Installed, Trying, Fate, Found>>
  <1>1. Open' = Open
    BY DEF Open
  <1>2. Open => tx' = tx
    OBVIOUS
  <1>3. UNCHANGED <<Installed, Trying, Fate>>
    BY <1>1, <1>2 DEF Installed, Trying, Fate
  <1>4. Fate = "open" => stopped' = stopped
    BY DEF Fate
  <1>5. QED
    BY <1>3, <1>4 DEF Found, Seen

LEMMA LockKept ==
  ASSUME lock'.token = lock.token, lock' = Free <=> lock = Free, tx' = tx
  PROVE  Takeable(tx.req)' <=> Takeable(tx.req)
  BY DEF Takeable

(* The files, the lock, the rows of the history and what the helper is at  *)
(* are no part of a trial.                                                 *)
LEMMA Outside ==
  ASSUME patient, UNCHANGED <<patient, tx, stopped>>,
         Open \/ files'["exe"] = files["exe"],
         Open => (Takeable(tx.req)' <=> Takeable(tx.req)),
         db'.by = db.by, db'.writes = db.writes,
         Running' <=> Running, Running => prog'.v = prog.v,
         helper.pc \notin {"commit", "recommit"},
         helper'.pc \notin {"commit", "recommit"}
  PROVE  Follows
  <1>1. UNCHANGED <<Installed, Trying, Fate, Found>>
    BY TrialKept
  <1>2. UNCHANGED <<Serving, Database, Tested>>
    BY DEF Serving, Database, Seen, Tested
  <1>3. QED
    BY <1>1, <1>2, Unseen

(* The program stops, or the helper forgets what has passed.               *)
LEMMA StopFollows ==
  ASSUME IInv, patient, UNCHANGED <<patient, tx, files, db>>,
         lock'.token = lock.token, lock' = Free <=> lock = Free,
         prog' = prog \/ prog'.at = "off",
         stopped' = stopped \/ prog.parent = "update",
         \/ helper' = helper
         \/ helper'.pc \notin {"commit", "recommit"}
  PROVE  Follows
  <1>1. Open /\ Takeable(tx.req) => stopped' = stopped
    BY DEF IInv, Restorable, Reachable
  <1>2. UNCHANGED <<Installed, Trying, Fate, Found>>
    BY <1>1, TrialKept, LockKept
  <1>3. Serving' \in {Serving, 0} /\ Database' = Database /\ Tested' \in {Tested, 0}
    BY DEF Serving, Running, Database, Tested
  <1>4. Trial!Stop
    BY <1>2, <1>3 DEF Trial!Stop, Trial!None
  <1>5. QED
    BY <1>4 DEF Follows, Trial!Next

(* The lock of a transaction goes: nobody can decide any more.             *)
LEMMA LoseFollows ==
  ASSUME patient, UNCHANGED <<patient, tx, files, db, prog>>,
         Open /\ Takeable(tx.req), ~Takeable(tx.req)',
         helper'.pc \notin {"commit", "recommit"}
  PROVE  Follows
  <1>1. UNCHANGED <<Installed, Trying, Serving, Database>>
    BY DEF Installed, Trying, Serving, Running, Database, Open
  <1>2. /\ Fate = "open" /\ Fate' = "lost" /\ Tested' = 0
        /\ Found' = Trial!Empty
    BY DEF Fate, Tested, Found, Seen, Missing, Trial!Empty, Open
  <1>3. Trial!Lose
    BY <1>1, <1>2 DEF Trial!Lose, Trial!None
  <1>4. QED
    BY <1>3 DEF Follows, Trial!Next

LEMMA BeginFollows ==
  ASSUME IInv, patient, Begin
  PROVE  Follows
  <1>1. /\ TypeOK /\ Locks
        /\ UNCHANGED <<files, tx, helper, patient, db, stopped>> /\ ~LockActive
        /\ lock' = [pid |-> "program", token |-> 0]
        /\ prog.at = "up" /\ prog' = [prog EXCEPT !.web = "locked"]
    BY DEF IInv, Begin, ProgOnly, around
  <1>2. /\ Running /\ Running' /\ prog'.v = prog.v /\ prog \in Prog
    BY <1>1 DEF TypeOK, Prog, Running
  <1>3. helper.pc \notin {"commit", "recommit"}
    BY <1>1, HelperHolds DEF Steps, HelperPC
  <1>4. Open => ~Takeable(tx.req)'
    BY <1>1, TransactionIds DEF Open, Takeable
  <1>5. CASE Open /\ Takeable(tx.req)
    <2>1. UNCHANGED <<Installed, Trying, Serving, Database>>
      BY <1>1, <1>2 DEF Installed, Trying, Serving, Database, Open
    <2>2. /\ Fate = "open" /\ Fate' = "lost" /\ Tested' = 0
          /\ Found' = Trial!Empty
      BY <1>1, <1>3, <1>4, <1>5
      DEF Fate, Tested, Found, Seen, Missing, Trial!Empty, Open
    <2>3. Trial!Lose
      BY <2>1, <2>2 DEF Trial!Lose, Trial!None
    <2>4. QED
      BY <2>3 DEF Follows, Trial!Next
  <1>6. CASE Open => ~Takeable(tx.req)
    BY <1>1, <1>2, <1>3, <1>4, <1>6, Outside
  <1>7. QED
    BY <1>5, <1>6

(* A request has an identifier of its own, and its lock no other token.    *)
LEMMA InstallationFollows ==
  ASSUME IInv, patient, Stage \/ HandOff \/ FailInstall
  PROVE  Follows
  <1>1. /\ TypeOK /\ Locks /\ Asked /\ Distinct
        /\ UNCHANGED <<files, tx, helper, patient, stopped>>
        /\ prog.web # "idle" /\ prog.at = "up"
    BY DEF IInv, Stage, HandOff, FailInstall, ProgOnly, around
  <1>2. Running /\ Running' /\ prog'.v = prog.v
    BY <1>1 DEF Stage, HandOff, FailInstall, TypeOK, Prog, Running
  <1>3. db'.by = db.by /\ db'.writes = db.writes
    BY <1>1 DEF Stage, HandOff, FailInstall, TypeOK, Content
  <1>4. helper.pc \notin {"commit", "recommit"}
    BY <1>1, HelperHolds DEF Steps, HelperPC
  <1>5. ASSUME Open
        PROVE  ~Takeable(tx.req) /\ ~Takeable(tx.req)'
    <2>1. tx # NoTransaction /\ tx.req.id # 0
      BY <1>1, <1>5, TransactionIds DEF Open
    <2>2. CASE Stage
      <3>1. prog.web = "locked" /\ lock' = lock
        BY <2>2 DEF Stage
      <3>2. QED
        BY <1>1, <2>1, <3>1 DEF Locks, Takeable
    <2>3. CASE HandOff
      <3>1. prog.web = "staged" /\ lock' = [pid |-> "program", token |-> request.id]
            /\ request.id # tx.req.id
        BY <1>1, <2>1, <2>3 DEF HandOff, Distinct, Handing
      <3>2. QED
        BY <1>1, <2>1, <3>1 DEF Locks, Takeable
    <2>4. CASE FailInstall
      <3>1. lock' = Free /\ (prog.web = "handed" => request.id # tx.req.id)
        BY <1>1, <2>1, <2>4 DEF FailInstall, Distinct, Handing
      <3>2. lock.token # tx.req.id
        BY <1>1, <2>1, <3>1 DEF Locks, TypeOK, Prog
      <3>3. QED
        BY <1>1, <3>1, <3>2 DEF Takeable
    <2>5. QED
      BY <2>2, <2>3, <2>4
  <1>6. QED
    BY <1>1, <1>2, <1>3, <1>4, <1>5, Outside

(* What starts is the version kept, or the one on trial, which the helper  *)
(* has started; the one before, if it comes back, finds its database.      *)
LEMMA BootOpensFollows ==
  ASSUME IInv, patient, BootOpens
  PROVE  Follows
  <1>1. TypeOK /\ Locks /\ Marked /\ Where /\ Fits /\ Replaces /\ Returns
    BY DEF IInv
  <1>2. /\ prog.at = "boot" /\ ~NeedsRecovery
        /\ UNCHANGED <<files, lock, helper, patient, stopped>>
        /\ prog' = [prog EXCEPT !.at = "up"]
        /\ tx' = tx \/ (tx' = NoTransaction /\ tx.done # "no")
        /\ db' \in Content /\ db'.writes = db.writes
        /\ db'.by = IF db.by < prog.v THEN prog.v ELSE db.by
    BY <1>1, BootOpensEffect DEF around
  <1>3. /\ prog.v \in Version /\ Whole(prog.v) /\ 0 < db.by /\ db.by <= prog.v
        /\ prog.v = files["exe"] /\ prog.v \in Nat /\ db.by \in Nat
        /\ db'.by = prog.v
    <2>1. Sound(prog.v)
      BY <1>1, <1>2 DEF Fits
    <2>2. db.by \in Nat /\ prog.v \in Nat
      BY <1>1, WindowsAssumption DEF TypeOK, Content, Prog, Version
    <2>3. QED
      BY <1>2, <2>1, <2>2 DEF Sound, Whole, File
  <1>4. helper.pc \notin {"commit", "recommit"}
    BY <1>1, <1>2 DEF Returns
  <1>5. UNCHANGED <<Installed, Trying, Fate, Found, Tested>>
    <2>1. tx' = tx \/ (~Open /\ ~Open')
      BY <1>2 DEF Open, NoTransaction
    <2>2. Open => (Takeable(tx.req)' <=> Takeable(tx.req))
      BY <1>2, <2>1 DEF Takeable
    <2>3. QED
      BY <1>2, <2>1, <2>2, TrialKept DEF Tested
  <1>6. /\ Serving = 0 /\ Serving' = prog.v
    BY <1>1, <1>2 DEF Serving, Running, TypeOK, Prog
  <1>7. Database = Seen(db) /\ Database' = [Database EXCEPT !.by = prog.v]
        /\ Database.by <= prog.v /\ Database.writes = db.writes
    BY <1>2, <1>3 DEF Database, Seen
  <1>8. Fate = "none" => prog.v = Installed
    BY <1>3 DEF Fate, Installed
  <1>9. ASSUME Fate = "open"
        PROVE  prog.v = Trying \/ (prog.v = Installed /\ db.writes >= Found.writes)
    <2>1. Open /\ Takeable(tx.req) /\ Reachable
      BY <1>9 DEF Fate, Reachable
    <2>2. lock.pid = "helper" /\ helper.pc \in Steps
      BY <1>1, <1>2, <2>1
      DEF NeedsRecovery, Unattended, LockActive, Locks, Running, Open
    <2>3. helper.pc \in {"health", "recheck", "fail", "release"}
      BY <1>1, <1>2, <1>4, <2>1, <2>2 DEF Where, Marked, Open, Steps, HelperPC
    <2>4. CASE helper.pc = "health"
      <3>1. tx.req = helper.req /\ Whole(helper.req.to)
        BY <1>1, <2>4, HeldWhileGoing DEF Going, InTx, Replaces
      <3>2. QED
        BY <1>3, <2>1, <3>1 DEF Whole, File, Trying
    <2>5. CASE helper.pc = "recheck"
      <3>1. tx.req = helper.req /\ Whole(helper.req.from) /\ db.writes >= stopped.writes
        BY <1>1, <2>5, HeldWhileGoing DEF Going, InTx, Replaces, Returns, Sound
      <3>2. QED
        BY <1>3, <1>9, <2>1, <3>1 DEF Whole, File, Installed, Found, Seen
    <2>6. CASE helper.pc \in {"fail", "release"}
      BY <1>1, <1>2, <2>1, <2>6 DEF Returns, Trying
    <2>7. QED
      BY <2>3, <2>4, <2>5, <2>6
  <1>10. Trial!Start(prog.v)
    BY <1>5, <1>6, <1>7, <1>8, <1>9 DEF Trial!Start, Trial!None
  <1>11. QED
    BY <1>3, <1>10 DEF Follows, Trial!Next

(* A transaction is written when the program has stopped, and begins a     *)
(* trial; one before it has lost its lock.                                 *)
LEMMA RecordFollows ==
  ASSUME IInv, patient, Record
  PROVE  Follows
  <1>1. TypeOK /\ Locks /\ Marked /\ Where /\ Fits /\ Prepares
    BY DEF IInv
  <1>2. /\ helper.pc = "record" /\ helper'.pc = "replace"
        /\ tx' = [req |-> helper.req, done |-> "no"]
        /\ UNCHANGED <<files, db, lock, prog, patient, stopped>>
    BY <1>1 DEF Record, At, To, HelperOnly, around, history, RecordedNow, TypeOK,
                Helper
  <1>3. /\ helper.pc \in Steps /\ ~helper.recovers /\ Preparing
        /\ helper.req.from < helper.req.to
    BY <1>1, <1>2 DEF Marked, FirstSteps, Steps, HelperPC, Preparing, Early
  <1>4. /\ Takeable(helper.req) /\ lock.token = helper.req.id
        /\ helper.req \in Request
    BY <1>1, <1>3, HelperHolds
  <1>5. /\ helper.req.from \in Version /\ helper.req.to \in Version
        /\ helper.req.from \in Nat /\ helper.req.to \in Nat
        /\ helper.req # NoRequest
    BY <1>4, Requests, Versions
  <1>6. /\ files["exe"] = helper.req.from /\ db = stopped /\ prog.at = "off"
        /\ tx # NoTransaction => helper.req.id # tx.req.id
    BY <1>1, <1>2, <1>3 DEF Prepares, Sound, Whole, File, Where
  <1>7. Open' /\ Takeable(tx.req)'
    BY <1>2, <1>4, <1>5 DEF Open, NoTransaction, Takeable
  <1>8. Fate # "open"
    BY <1>4, <1>6 DEF Fate, Open, Takeable
  <1>9. /\ Fate' = "open" /\ Trying' = helper.req.to /\ Installed' = helper.req.from
        /\ Found' = Database
    BY <1>2, <1>6, <1>7 DEF Fate, Trying, Installed, Found, Database
  <1>10. Fate = "none" => Installed' = Installed
    BY <1>6, <1>9 DEF Fate, Installed
  <1>11. Serving = 0 /\ UNCHANGED <<Serving, Database>> /\ Tested = 0 /\ Tested' = 0
    BY <1>2, <1>6 DEF Serving, Running, Database, Tested
  <1>12. Trial!Try(helper.req.to)
    BY <1>3, <1>5, <1>8, <1>9, <1>10, <1>11 DEF Trial!Try, Trial!None
  <1>13. QED
    BY <1>5, <1>12 DEF Follows, Trial!Next

(* The database is taken away and put back under the transaction.          *)
LEMMA ExchangeFollows ==
  ASSUME IInv, IInv', patient, UNCHANGED <<patient, tx, lock, stopped, prog>>,
         helper.pc \in {"undoMove", "undoDb"},
         helper'.pc \notin {"commit", "recommit"}
  PROVE  Follows
  <1>1. Open /\ Takeable(tx.req) /\ prog.at = "off"
    BY HeldWhileGoing DEF Going, InTx, IInv, Where
  <1>2. UNCHANGED <<Installed, Trying, Fate, Found>>
    BY <1>1, TrialKept, LockKept
  <1>3. UNCHANGED <<Serving, Tested>> /\ Serving = 0 /\ Fate = "open"
    BY <1>1 DEF Serving, Running, Tested, Fate
  <1>4. Database' \in Trial!Data
    <2>1. db' \in Content
      BY DEF IInv, TypeOK
    <2>2. QED
      BY <2>1, WindowsAssumption DEF Database, Seen, Trial!Data, Content
  <1>5. Trial!Exchange
    BY <1>2, <1>3, <1>4 DEF Trial!Exchange, Trial!None
  <1>6. QED
    BY <1>5 DEF Follows, Trial!Next

LEMMA HealthyFollows ==
  ASSUME IInv, patient, Healthy
  PROVE  Follows
  <1>1. TypeOK
    BY DEF IInv
  <1>2. /\ prog.at = "up" /\ UNCHANGED <<disk, prog, patient, stopped>>
        /\ helper.pc \in {"health", "recheck"} /\ helper'.req = helper.req
        /\ \/ helper'.pc = "commit" /\ prog.v = helper.req.to
           \/ helper'.pc = "recommit" /\ prog.v = helper.req.from
    BY <1>1, HealthyEffect DEF SameWork, around
  <1>3. Open /\ Takeable(tx.req)
    BY <1>2, HeldWhileGoing DEF Going, InTx
  <1>4. UNCHANGED <<Installed, Trying, Fate, Found>>
    BY <1>2, TrialKept, LockKept DEF disk
  <1>5. UNCHANGED <<Serving, Database>> /\ Serving = prog.v /\ Fate = "open"
    BY <1>2, <1>3 DEF Serving, Running, Database, Fate, disk
  <1>6. Tested' = prog.v /\ prog.v # 0
    BY <1>1, <1>2, Versions DEF Tested, TypeOK, Prog
  <1>7. Trial!Test
    BY <1>4, <1>5, <1>6 DEF Trial!Test, Trial!None
  <1>8. QED
    BY <1>7 DEF Follows, Trial!Next

(* The transaction is marked with the version that has passed, which is    *)
(* the one in the files.                                                   *)
LEMMA CommitFollows ==
  ASSUME IInv, patient, Commit
  PROVE  Follows
  <1>1. TypeOK /\ Replaces
    BY DEF IInv
  <1>2. /\ helper.pc \in {"commit", "recommit"} /\ helper'.pc = "publish"
        /\ UNCHANGED <<files, db, lock, prog, patient, stopped>>
        /\ tx' = [tx EXCEPT !.done = IF helper.pc = "commit" THEN "success"
                                     ELSE "rolled_back"]
    BY <1>1 DEF Commit, CommitProven, To, HelperOnly, around, history, TypeOK,
                Helper
  <1>3. Open /\ Takeable(tx.req) /\ tx.req = helper.req
    BY <1>2, HeldWhileGoing DEF Going, InTx
  <1>4. ~Open'
    BY <1>1, <1>2, <1>3 DEF Open, TypeOK, Transaction, NoTransaction
  <1>5. files["exe"] = IF helper.pc = "commit" THEN helper.req.to
                       ELSE helper.req.from
    BY <1>1, <1>2 DEF Replaces, Sound, Whole, File
  <1>6. /\ Tested = files["exe"] /\ Tested \in {Installed, Trying}
        /\ Installed' = Tested /\ Trying' = 0 /\ Tested' = 0
    BY <1>2, <1>3, <1>4, <1>5 DEF Tested, Installed, Trying
  <1>7. /\ Fate = "open" /\ Fate' = "none" /\ Found' = Trial!Empty
        /\ UNCHANGED <<Serving, Database>>
    BY <1>2, <1>3, <1>4
    DEF Fate, Found, Seen, Missing, Trial!Empty, Serving, Running, Database
  <1>8. Trial!Decide
    BY <1>6, <1>7 DEF Trial!Decide, Trial!Ended, Trial!None
  <1>9. QED
    BY <1>8 DEF Follows, Trial!Next

LEMMA ReleaseFollows ==
  ASSUME IInv, patient, Release
  PROVE  Follows
  <1>1. TypeOK /\ Locks
    BY DEF IInv
  <1>2. /\ helper.pc = "release" /\ helper'.pc = "off"
        /\ UNCHANGED <<files, db, tx, prog, patient, stopped>>
        /\ lock' \in {lock, Free}
    BY Nobody DEF Release, HelperOnly, around, history
  <1>3. CASE Open /\ Takeable(tx.req) /\ lock' # lock
    BY <1>2, <1>3, LoseFollows DEF Takeable
  <1>4. CASE Open => ~Takeable(tx.req) \/ lock' = lock
    <2>1. Open => (Takeable(tx.req)' <=> Takeable(tx.req))
      BY <1>2, <1>4 DEF Takeable
    <2>2. QED
      BY <1>2, <2>1, Outside DEF Running
  <1>5. QED
    BY <1>3, <1>4

LEMMA TrialFollows ==
  ASSUME IInv, IInv', Next, patient
  PROVE  Follows
  <1>0. TypeOK /\ Locks /\ Marked /\ Where /\ patient' = patient
    BY Patience DEF IInv
  <1>1. CASE Write
    <2>1. /\ UNCHANGED <<files, tx, lock, helper, prog, stopped>> /\ Running
          /\ db' = [db EXCEPT !.writes = @ + 1]
      BY <1>1 DEF Write, ProgOnly
    <2>2. UNCHANGED <<Installed, Trying, Fate, Found, Serving, Tested>>
      BY <1>0, <2>1, TrialKept, LockKept DEF Serving, Running, Tested
    <2>3. Database' = [Database EXCEPT !.writes = @ + 1]
      BY <1>0, <2>1 DEF Database, Seen, TypeOK, Content
    <2>4. Serving # 0
      BY <1>0, <2>1, Versions DEF Serving, TypeOK, Prog
    <2>5. Trial!Write
      BY <2>2, <2>3, <2>4 DEF Trial!Write, Trial!None
    <2>6. QED
      BY <2>5 DEF Follows, Trial!Next
  <1>2. CASE Launch \/ TickRecovers
    <2>1. /\ UNCHANGED <<files, tx, lock, db, stopped>> /\ helper.pc = "off"
          /\ helper'.pc = "read"
      BY <1>2 DEF Launch, TickRecovers, LaunchRecovery, NoHelper, disk, history
    <2>2. Running /\ Running' /\ prog'.v = prog.v
      BY <1>0, <1>2 DEF Launch, TickRecovers, Running, TypeOK, Prog
    <2>3. QED
      BY <1>0, <2>1, <2>2, Outside, LockKept
  <1>3. CASE Exit
    <2>1. /\ prog.at = "leaving" /\ prog.web = "idle"
          /\ UNCHANGED <<files, tx, helper, db>> /\ prog'.at = "off"
          /\ stopped' = stopped \/ prog.parent = "update"
      BY <1>0, <1>3, Ended DEF Exit, End, ProgOnly, Locks
    <2>2. lock'.token = lock.token /\ (lock' = Free <=> lock = Free)
      <3>1. lock' = Orphaned("program") /\ lock \in Lock
        BY <1>0, <1>3, <2>1 DEF Exit, TypeOK
      <3>2. QED
        BY <3>1 DEF Orphaned, Lock, Free
    <2>3. QED
      BY <1>0, <2>1, <2>2, StopFollows
  <1>4. CASE StartProgram \/ BootRecovers
    <2>1. /\ UNCHANGED <<files, tx, lock, db, stopped>>
          /\ helper' = helper \/ (helper.pc = "off" /\ helper'.pc = "read")
          /\ prog.at \in {"off", "boot"} /\ prog'.at \in {"off", "boot"}
      BY <1>0, <1>4, Ended
      DEF StartProgram, BootRecovers, LaunchRecovery, NoHelper, disk, history,
          TypeOK, Prog
    <2>2. helper.pc \notin {"commit", "recommit"}
      BY <1>0, <1>4 DEF StartProgram, BootRecovers, IInv, Returns
    <2>3. QED
      BY <1>0, <2>1, <2>2, Outside, LockKept DEF Running
  <1>5. CASE Tick
    <2>1. /\ UNCHANGED <<files, lock, helper, stopped>> /\ prog.at = "up"
          /\ tx' = tx \/ (tx' = NoTransaction /\ tx.done # "no")
          /\ db'.by = db.by /\ db'.writes = db.writes
          /\ prog' \in {prog, [prog EXCEPT !.busy = FALSE]}
      BY <1>0, <1>5, TickEffect
    <2>2. prog'.at = "up" /\ prog'.v = prog.v
      BY <1>0, <2>1 DEF TypeOK, Prog
    <2>3. tx' = tx \/ (~Open /\ ~Open')
      BY <2>1 DEF Open, NoTransaction
    <2>4. Open => (Takeable(tx.req)' <=> Takeable(tx.req))
      BY <2>1, <2>3 DEF Takeable
    <2>5. UNCHANGED <<Installed, Trying, Fate, Found>>
      BY <1>0, <2>1, <2>3, <2>4, TrialKept
    <2>6. UNCHANGED <<Serving, Database, Tested>>
      BY <1>0, <2>1, <2>2 DEF Serving, Running, Database, Seen, Tested
    <2>7. QED
      BY <2>5, <2>6, Unseen
  <1>6. CASE TakeRequest \/ TakeTransaction
    <2>1. /\ UNCHANGED <<files, tx, db, stopped, prog>> /\ helper.pc = "read"
          /\ helper'.pc \in {"stop", "wait", "off"}
      BY <1>0, <1>6, TakeRequestEffect, TakeTransactionEffect, Nobody DEF IInv
    <2>2. lock'.token = lock.token /\ (lock' = Free <=> lock = Free)
      BY <1>0, <1>6, TakeRequestEffect, TakeTransactionEffect
      DEF Taken, Free, IInv
    <2>3. QED
      BY <1>0, <2>1, <2>2, Outside, LockKept DEF Running
  <1>7. CASE StopService
    <2>1. /\ UNCHANGED <<files, tx, lock, db>> /\ prog'.at = "off"
          /\ stopped' = stopped \/ prog.parent = "update"
          /\ helper'.pc = "wait"
      BY <1>0, <1>7, Ended DEF StopService, At, To, End, HelperOnly, TypeOK, Helper
    <2>2. QED
      BY <1>0, <2>1, StopFollows
  <1>8. CASE Wait \/ FinalizeBackup \/ Verify \/ BackUp \/ Untouched
    <2>1. /\ UNCHANGED <<files, tx, lock, db, stopped, prog>>
          /\ helper.pc \in {"wait", "finalize", "verify", "backup", "record"}
          /\ helper'.pc \notin {"commit", "recommit"}
      BY <1>0, <1>8
      DEF Wait, FinalizeBackup, Verify, BackUp, Untouched, At, To, AfterWait,
          disk, history, TypeOK, Helper
    <2>2. QED
      BY <1>0, <2>1, Outside, LockKept DEF Running
  <1>9. CASE MoveAway \/ MoveIn \/ MoveFails
    <2>1. /\ UNCHANGED <<tx, lock, db, stopped, prog>>
          /\ helper.pc \in {"replace", "undo"}
          /\ helper'.pc \notin {"commit", "recommit"}
      BY <1>0, <1>9
      DEF MoveAway, MoveIn, MoveFails, AfterFiles, Replacing, Restoring,
          disk, history, TypeOK, Helper
    <2>2. Open
      BY <2>1, HeldWhileGoing DEF Going, InTx
    <2>3. QED
      BY <1>0, <2>1, <2>2, Outside, LockKept DEF Running
  <1>10. CASE DbAway \/ DbBack
    <2>1. /\ UNCHANGED <<tx, lock, stopped, prog>>
          /\ helper.pc \in {"undoMove", "undoDb"}
          /\ helper'.pc \in {"undoDb", "restart"}
      BY <1>0, <1>10, DbBackEffect DEF DbAway, history, TypeOK, Helper
    <2>2. QED
      BY <1>0, <2>1, ExchangeFollows
  <1>11. CASE GiveUp
    <2>1. /\ UNCHANGED <<files, tx, lock, stopped, prog>>
          /\ helper'.pc \in {"fail", "release"}
          /\ helper.pc \notin {"commit", "recommit"}
          /\ helper.pc # "undoDb" => db' = db
      BY <1>0, <1>11, GiveUpEffect
    <2>2. CASE helper.pc = "undoDb"
      BY <1>0, <2>1, <2>2, ExchangeFollows
    <2>3. CASE helper.pc # "undoDb"
      BY <1>0, <2>1, <2>3, Outside, LockKept DEF Running
    <2>4. QED
      BY <2>2, <2>3
  <1>12. CASE DbOpen \/ StartFails \/ Publish \/ Fail
    <2>1. /\ UNCHANGED <<files, tx, lock, db, stopped, prog>>
          /\ helper.pc \notin {"commit", "recommit"}
          /\ helper'.pc \notin {"commit", "recommit"}
      BY <1>0, <1>12
      DEF DbOpen, StartFails, Publish, Fail, At, To, disk, history, TypeOK,
          Helper
    <2>2. QED
      BY <1>0, <2>1, Outside, LockKept DEF Running
  <1>13. CASE StartAgain
    <2>1. /\ UNCHANGED <<files, tx, lock, db, stopped>>
          /\ helper.pc \in {"start", "restart", "unchanged"}
          /\ helper'.pc \in {"health", "recheck", "fail"} /\ prog' = Started
      BY <1>0, <1>13 DEF StartAgain, AfterStart, To, disk, history, TypeOK, Helper
    <2>2. prog.at = "off" /\ prog'.at = "boot"
      BY <1>0, <2>1, Ended DEF Where, Started, Stopped, TypeOK, Prog
    <2>3. QED
      BY <1>0, <2>1, <2>2, Outside, LockKept DEF Running
  <1>14. CASE Unhealthy \/ StopFails \/ CommitFails
    <2>1. /\ UNCHANGED <<files, tx, lock, db, stopped>>
          /\ helper'.pc \in {"undo", "fail"} /\ prog' \in {prog, Stopped}
      BY <1>0, <1>14, UnhealthyEffect, CommitFailsEffect, HaltedProgram
      DEF StopFails, To, disk, TypeOK, Helper
    <2>2. prog' = prog \/ prog'.at = "off"
      BY <1>0, <2>1, Ended
    <2>3. QED
      BY <1>0, <2>1, <2>2, StopFollows
  <1>15. CASE Clear
    <2>1. /\ UNCHANGED <<files, lock, db, stopped, prog>> /\ helper.pc = "clear"
          /\ helper'.pc = "release" /\ tx' \in {tx, NoTransaction} /\ tx.done # "no"
      BY <1>0, <1>15
      DEF Clear, Finalized, At, To, history, TypeOK, Helper, Marked
    <2>2. CASE tx' = tx
      BY <1>0, <2>1, <2>2, Outside, LockKept DEF Running
    <2>3. CASE tx' = NoTransaction
      <3>1. ~Open /\ ~Open'
        BY <2>1, <2>3 DEF Open
      <3>2. UNCHANGED <<Installed, Trying, Fate, Found>>
        BY <1>0, <2>1, <3>1, TrialKept
      <3>3. UNCHANGED <<Serving, Database, Tested>>
        BY <1>0, <2>1 DEF Serving, Running, Database, Tested
      <3>4. QED
        BY <3>2, <3>3, Unseen
    <2>4. QED
      BY <2>1, <2>2, <2>3
  <1>16. CASE Crash
    <2>1. /\ UNCHANGED <<files, tx, db>> /\ lock'.token = lock.token
          /\ (lock' = Free <=> lock = Free)
          /\ stopped' = stopped \/ prog.parent = "update"
          /\ prog' = prog \/ prog' = Stopped
          /\ helper' = helper \/ helper' = NoHelper
      BY <1>0, <1>16, CrashEffect
    <2>2. prog' = prog \/ prog'.at = "off"
      BY <1>0, <2>1, Ended
    <2>3. QED
      BY <1>0, <2>1, <2>2, StopFollows, Nobody
  <1>17. QED
    BY <1>1, <1>2, <1>3, <1>4, <1>5, <1>6, <1>7, <1>8, <1>9, <1>10, <1>11,
       <1>12, <1>13, <1>14, <1>15, <1>16, BeginFollows, InstallationFollows,
       BootOpensFollows, RecordFollows, HealthyFollows, CommitFollows,
       ReleaseFollows
    DEF Next, Installation, Program, HelperSteps

LEMMA TrialInit == Init => Trial!Init
  <1> SUFFICES ASSUME Init PROVE Trial!Init
    OBVIOUS
  <1>1. /\ files["exe"] = 1 /\ 1 \in Version /\ tx = NoTransaction
        /\ prog.at = "up" /\ prog.v = 1 /\ helper.pc = "off"
        /\ db.by = 1 /\ db.writes = 0
    BY WindowsAssumption, Nobody DEF Init, File, Version
  <1>2. /\ Installed = 1 /\ Trying = 0 /\ Fate = "none" /\ Tested = 0
        /\ Serving \in {0, 1} /\ Database = [by |-> 1, writes |-> 0]
        /\ Found = Trial!Empty
    BY <1>1
    DEF Installed, Trying, Fate, Tested, Serving, Running, Database, Found,
        Seen, Missing, Trial!Empty, Open
  <1>3. QED
    BY <1>1, <1>2 DEF Trial!Init, Trial!None

(* Whatever fails and wherever a process stops, with the helper left alone *)
(* at its work: a new version is kept after it has passed a health check,  *)
(* or the version before it is, which starts again on what the update      *)
(* found; unless the lock of the update is lost, which ends the trial.     *)
THEOREM WindowsImplementsTrial == Spec => ImplementsTrial
  <1>1. ASSUME IInv, IInv', Next
        PROVE  Follows
    <2>1. CASE patient
      BY <1>1, <2>1, TrialFollows
    <2>2. CASE ~patient
      <3>1. ~patient'
        BY <1>1, <2>2, Patience
      <3>2. UNCHANGED <<Installed, Trying, Fate, Serving, Database, Found, Tested>>
        BY <2>2, <3>1
        DEF Installed, Trying, Fate, Serving, Database, Found, Tested, Seen
      <3>3. QED
        BY <3>2, Unseen
    <2>3. QED
      BY <2>1, <2>2
  <1>2. ASSUME UNCHANGED vars
        PROVE  Follows
    <2>1. UNCHANGED <<files, db, tx, lock, prog, helper, patient, stopped>>
      BY <1>2 DEF vars, disk, around, history
    <2>2. UNCHANGED <<Installed, Trying, Fate, Serving, Database, Found, Tested>>
      BY <2>1
      DEF Installed, Trying, Fate, Serving, Database, Found, Tested, Open,
          Running, Takeable
    <2>3. QED
      BY <2>2, Unseen
  <1>3. IInv /\ IInv' /\ [Next]_vars => Follows
    BY <1>1, <1>2
  <1>4. QED
    BY <1>3, TrialInit, Invariance, PTL
    DEF Spec, ImplementsTrial, Trial!Spec, Follows
=============================================================================
