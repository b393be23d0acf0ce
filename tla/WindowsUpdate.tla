---------------------------- MODULE WindowsUpdate ----------------------------
(***************************************************************************)
(* The update of an installation on Windows: the program downloads a       *)
(* version, hands its lock to a copy of the update helper                  *)
(* (cmd/ctyun-keeper-updater) and stops, by itself or by its service; the  *)
(* helper replaces the files one by one, starts the new program and keeps  *)
(* it, or puts the files and the database back.  What it does between the  *)
(* first file and the decision is covered by a transaction on disk: a      *)
(* program that starts, or looks every two seconds, and finds one nobody   *)
(* works on starts the helper again, to go back, and exits.                *)
(*                                                                         *)
(* An action is one write to the disk; either process, or the machine, may *)
(* stop between any two.  A second helper and a second program beside the  *)
(* first are left out.                                                     *)
(***************************************************************************)
EXTENDS Naturals, Sequences

CONSTANTS
  MaxVersion,  \* versions are 1..MaxVersion
  MaxUpdates,  \* rows of the update history: bounds the model
  MaxWrites,   \* writes of the program to its database: bounds the model
  MaxErrors,   \* failing steps of the helper: bounds the model
  MaxCrashes   \* stops of a process: bounds the model

Version == 1..MaxVersion
Id == 1..MaxUpdates

ASSUME WindowsAssumption ==
  /\ MaxVersion \in Nat \ {0} /\ MaxUpdates \in Nat /\ MaxWrites \in Nat
  /\ MaxErrors \in Nat /\ MaxCrashes \in Nat

VARIABLES
  (* on disk *)
  files,   \* [File -> Version or Gone]: the installation
  db,      \* ctyun-keeper.db, with its update history
  saved,   \* the copies of the database, by the version that left them
  app,     \* the copies of the installation, likewise
  tx,      \* updates/windows-transaction.json
  lock,    \* updates/update.lock: whose token, and does its process live
  request, \* updates/install-request.json
  result,  \* the files of updates/results
  (* in memory *)
  prog,    \* the program
  helper,  \* the update helper
  service, \* the program belongs to a service
  patient, \* nobody else starts the program while the helper is at work
  (* history *)
  stopped, \* the database when the latest update stopped its program
  passed,  \* updates whose new version has passed the health check
  errors,  \* failing steps so far
  crashes  \* stops so far

disk == <<files, db, saved, app, tx, lock, request, result>>
history == <<stopped, passed, errors, crashes>>
around == <<service, patient>>
vars == <<disk, prog, helper, around, history>>
-----------------------------------------------------------------------------
(* Data *)

File == {"exe", "static", "updater"}
Gone == 0
Nothing == MaxVersion + 1

(* The order in which replace and restore go through the files.            *)
Forth == <<"exe", "static", "updater">>
Back == <<"exe", "updater", "static">>

Row == {"none", "open", "success", "failed", "rolled_back"}
NoRows == [id \in Id |-> "none"]
Content == [by : 0..MaxVersion, writes : 0..MaxWrites, rows : [Id -> Row]]
Missing == [by |-> 0, writes |-> 0, rows |-> NoRows]
Opened(content, v) ==
  [content EXCEPT !.by = IF content.by < v THEN v ELSE content.by]

Request == [id : Id, from : Version, to : Version]
NoRequest == [id |-> 0, from |-> 0, to |-> 0]
Transaction == [req : Request, done : {"no", "success", "rolled_back"}]
NoTransaction == [req |-> NoRequest, done |-> "no"]

(* update.lock: the process it names, and its token: of the program (0), or *)
(* of the request of an update.                                            *)
Lock == [pid : {"free", "program", "helper", "dead"}, token : Id \cup {0}]
Free == [pid |-> "free", token |-> 0]
LockPresent == lock # Free
LockActive == lock.pid \in {"program", "helper"}
Orphaned(process) ==
  IF lock.pid = process THEN [lock EXCEPT !.pid = "dead"] ELSE lock

Prog == [at : {"off", "boot", "up", "leaving"}, v : Version,
         parent : {"no", "update", "recovery"}, child : BOOLEAN,
         busy : BOOLEAN, web : {"idle", "locked", "staged", "handed"}]
Stopped == [prog EXCEPT !.at = "off", !.parent = "no", !.child = FALSE,
                        !.busy = FALSE, !.web = "idle"]

HelperPC == {"off", "read", "stop", "wait", "finalize", "verify", "backup",
             "record", "replace", "start", "health", "commit", "publish",
             "clear", "undo", "undoMove", "undoDb", "restart", "recheck",
             "recommit", "unchanged", "fail", "release"}
Helper == [pc : HelperPC, recovers : BOOLEAN, req : Request \cup {NoRequest},
           next : 1..3, away : Version \cup {Gone, Nothing}, held : Content]
NoHelper == [pc |-> "off", recovers |-> FALSE, req |-> NoRequest, next |-> 1,
             away |-> Nothing, held |-> Missing]

Init ==
  /\ files = [f \in File |-> 1]
  /\ db = [by |-> 1, writes |-> 0, rows |-> NoRows]
  /\ saved = [v \in Version |-> Missing]
  /\ app = [v \in Version |-> [f \in File |-> Gone]]
  /\ tx = NoTransaction /\ lock = Free /\ request = NoRequest
  /\ result = [id \in Id |-> "none"]
  /\ prog = [at |-> "up", v |-> 1, parent |-> "no", child |-> FALSE,
             busy |-> FALSE, web |-> "idle"]
  /\ helper = NoHelper /\ service \in BOOLEAN /\ patient \in BOOLEAN
  /\ stopped = Missing /\ passed = {} /\ errors = 0 /\ crashes = 0

Error == errors < MaxErrors /\ errors' = errors + 1
NoError == UNCHANGED errors
-----------------------------------------------------------------------------
(* The program                                                             *)

ProgOnly == UNCHANGED <<files, app, tx, helper, around, passed, crashes>>

Running == prog.at \in {"up", "leaving"}

Write ==
  /\ Running /\ db.writes < MaxWrites
  /\ db' = [db EXCEPT !.writes = @ + 1]
  /\ UNCHANGED <<saved, lock, request, result, prog, stopped, errors>>
  /\ ProgOnly

(* Begin takes a free lock or one whose process has ended.                 *)
Begin ==
  /\ prog.at = "up" /\ prog.web = "idle" /\ ~LockActive
  /\ lock' = [pid |-> "program", token |-> 0]
  /\ prog' = [prog EXCEPT !.web = "locked"]
  /\ UNCHANGED <<db, saved, request, result, stopped, errors>> /\ ProgOnly

(* A newer version, downloaded and verified; a row of the history; the     *)
(* tasks have stopped, and the database is copied.                         *)
Stage ==
  /\ prog.at = "up" /\ prog.web = "locked"
  /\ \E id \in Id, v \in Version :
       /\ v > prog.v
       /\ \A i \in Id : db.rows[i] = "none" <=> i >= id
       /\ db' = [db EXCEPT !.rows[id] = "open"]
       /\ request' = [id |-> id, from |-> prog.v, to |-> v]
  /\ saved' = [saved EXCEPT ![prog.v] = db']
  /\ prog' = [prog EXCEPT !.web = "staged", !.busy = TRUE]
  /\ UNCHANGED <<lock, result, stopped, errors>> /\ ProgOnly

HandOff ==
  /\ prog.at = "up" /\ prog.web = "staged" /\ files["updater"] # Gone
  /\ lock' = [pid |-> "program", token |-> request.id]
  /\ prog' = [prog EXCEPT !.web = "handed"]
  /\ UNCHANGED <<db, saved, request, result, stopped, errors>> /\ ProgOnly

(* The helper runs; a program of its own exits half a second later, a      *)
(* service waits to be stopped.                                            *)
Launch ==
  /\ prog.at = "up" /\ prog.web = "handed" /\ helper.pc = "off"
  /\ helper' = [NoHelper EXCEPT !.pc = "read", !.req = request]
  /\ prog' = [prog EXCEPT !.web = "idle", !.parent = "update",
                          !.at = IF service THEN "up" ELSE "leaving"]
  /\ UNCHANGED <<disk, around, history>>

FailInstall ==
  /\ prog.at = "up" /\ prog.web # "idle"
  /\ lock' = Free
  /\ db' = [db EXCEPT !.rows = [i \in Id |->
              IF prog.web # "locked" /\ i = request.id THEN "failed"
              ELSE @[i]]]
  /\ prog' = [prog EXCEPT !.web = "idle", !.busy = FALSE]
  /\ UNCHANGED <<saved, request, result, stopped, errors>> /\ ProgOnly

(* The process ends; an installation under way ends with it.               *)
End ==
  /\ prog' = Stopped
  /\ stopped' = IF prog.parent = "update" THEN db ELSE stopped

Exit ==
  /\ prog.at = "leaving" /\ End
  /\ lock' = IF prog.web \in {"locked", "staged"} THEN Free
             ELSE Orphaned("program")
  /\ UNCHANGED <<db, saved, request, result, errors>> /\ ProgOnly

(* The user, the service manager or the next boot of the machine.          *)
StartProgram ==
  /\ prog.at = "off" /\ files["exe"] # Gone
  /\ ~patient \/ helper.pc = "off"
  /\ prog' = [Stopped EXCEPT !.at = "boot", !.v = files["exe"]]
  /\ UNCHANGED <<disk, helper, around, history>>
-----------------------------------------------------------------------------
(* Recovery by the program: at its start and every two seconds             *)

Unattended == tx # NoTransaction /\ ~LockActive

(* FinalizeCompletedWindowsTransaction: the result, then the transaction.  *)
Published ==
  IF tx.done = "no" THEN result ELSE [result EXCEPT ![tx.req.id] = tx.done]
Finalized == IF tx.done = "no" THEN tx ELSE NoTransaction

(* StartPendingWindowsRecovery starts the helper of the installation.      *)
NeedsRecovery == Unattended /\ tx.done = "no"
LaunchRecovery ==
  /\ helper.pc = "off" /\ files["updater"] # Gone
  /\ helper' = [NoHelper EXCEPT !.pc = "read", !.recovers = TRUE]

BootRecovers ==
  /\ prog.at = "boot" /\ NeedsRecovery
  /\ \/ LaunchRecovery
     \/ files["updater"] = Gone /\ UNCHANGED helper
  /\ prog' = Stopped
  /\ UNCHANGED <<disk, around, history>>

(* Results become rows of the history, whatever the rows were; a row left  *)
(* open by an update nobody works on has failed.                           *)
Recorded(rows, results) ==
  [i \in Id |-> IF results[i] # "none" THEN results[i] ELSE rows[i]]
Interrupted(rows) ==
  [i \in Id |-> IF rows[i] = "open" /\ ~LockActive THEN "failed" ELSE rows[i]]
NoResults == [i \in Id |-> "none"]

BootOpens ==
  /\ prog.at = "boot" /\ ~NeedsRecovery
  /\ prog' = [prog EXCEPT !.at = "up"]
  /\ LET results == IF LockActive THEN result ELSE Published IN
     db' = [Opened(db, prog.v) EXCEPT
              !.rows = Interrupted(Recorded(@, results))]
  /\ tx' = IF LockActive THEN tx ELSE Finalized
  /\ result' = NoResults
  /\ UNCHANGED <<files, saved, app, lock, request, helper, around, history>>

TickRecovers ==
  /\ prog.at = "up" /\ NeedsRecovery /\ LaunchRecovery
  /\ prog' = [prog EXCEPT !.at = "leaving", !.parent = "recovery"]
  /\ UNCHANGED <<disk, around, history>>

(* RefreshUpdateResult ends the maintenance with the latest row.           *)
Settled(rows) == \E id \in Id : /\ rows[id] \notin {"none", "open"}
                                /\ \A i \in Id : i > id => rows[i] = "none"
Tick ==
  /\ prog.at = "up" /\ (NeedsRecovery => files["updater"] = Gone)
  /\ LET results == IF LockActive THEN result ELSE Published
         rows == Recorded(db.rows, results) IN
     /\ results # NoResults \/ (prog.busy /\ Settled(rows))
     /\ db' = [db EXCEPT !.rows = rows]
     /\ IF prog.busy /\ prog.web = "idle" /\ Settled(rows)
        THEN prog' = [prog EXCEPT !.busy = FALSE] ELSE UNCHANGED prog
  /\ tx' = IF LockActive THEN tx ELSE Finalized
  /\ result' = NoResults
  /\ UNCHANGED <<files, saved, app, lock, request, helper, around, history>>
-----------------------------------------------------------------------------
(* The helper: up to the transaction                                       *)

To(pc) == helper' = [helper EXCEPT !.pc = pc, !.next = 1]
At(from, to) == helper.pc = from /\ To(to)
HelperOnly == UNCHANGED <<around, passed, crashes>>

(* TakeOverUpdateLock: the file exists and holds the token.                *)
Takeable(req) == lock # Free /\ lock.token = req.id
Taken(req) == [pid |-> "helper", token |-> req.id]
AfterTake == IF service THEN "stop" ELSE "wait"

(* The request is deleted before the lock is taken; without the lock the   *)
(* helper leaves the result and nothing else, with another request nothing.*)
TakeRequest ==
  /\ helper.pc = "read" /\ ~helper.recovers
  /\ request' = IF request = helper.req THEN NoRequest ELSE request
  /\ \/ /\ request = helper.req /\ Takeable(request)
        /\ lock' = Taken(request) /\ To(AfterTake) /\ UNCHANGED result
     \/ /\ request # helper.req \/ ~Takeable(request)
        /\ helper' = NoHelper /\ UNCHANGED lock
        /\ result' = IF request = helper.req
                     THEN [result EXCEPT ![request.id] = "failed"] ELSE result
  /\ UNCHANGED <<files, db, saved, app, tx, prog, stopped, errors>>
  /\ HelperOnly

TakeTransaction ==
  /\ helper.pc = "read" /\ helper.recovers
  /\ \/ /\ tx # NoTransaction /\ Takeable(tx.req)
        /\ lock' = Taken(tx.req)
        /\ helper' = [helper EXCEPT !.pc = AfterTake, !.req = tx.req]
     \/ /\ tx = NoTransaction \/ ~Takeable(tx.req)
        /\ helper' = NoHelper /\ UNCHANGED lock
  /\ UNCHANGED <<files, db, saved, app, tx, request, result, prog, stopped,
                 errors>>
  /\ HelperOnly

(* StopUpdateService waits for the program; it may give up.                *)
StopService ==
  /\ At("stop", "wait") /\ End /\ lock' = lock /\ NoError
  /\ UNCHANGED <<files, db, saved, app, tx, request, result>> /\ HelperOnly

AfterWait == IF helper.recovers THEN "undo" ELSE "finalize"
Wait ==
  /\ prog.parent = "no" /\ At("wait", AfterWait)
  /\ UNCHANGED <<disk, prog, history>> /\ HelperOnly

(* FinalizeDatabaseBackup: the copy is taken again, from the stopped       *)
(* program.                                                                *)
FinalizedEarlier == saved
FinalizedNow == [saved EXCEPT ![helper.req.from] = db]
FinalizeBackup ==
  /\ At("finalize", "verify") /\ db # Missing /\ saved' = FinalizedNow
  /\ UNCHANGED <<files, db, app, tx, lock, request, result, prog, history>>
  /\ HelperOnly

Verify ==
  /\ At("verify", "backup")
  /\ UNCHANGED <<disk, prog, history>> /\ HelperOnly

BackUp ==
  /\ At("backup", "record") /\ app' = [app EXCEPT ![helper.req.from] = files]
  /\ UNCHANGED <<files, db, saved, tx, lock, request, result, prog, history>>
  /\ HelperOnly

RecordedNot == tx
RecordedNow == [req |-> helper.req, done |-> "no"]
Record ==
  /\ At("record", "replace") /\ tx' = RecordedNow
  /\ UNCHANGED <<files, db, saved, app, lock, request, result, prog, history>>
  /\ HelperOnly

(* An error up to here starts the old program again.                       *)
Untouched ==
  /\ helper.pc \in {"finalize", "verify", "backup", "record"}
  /\ To("unchanged") /\ Error
  /\ UNCHANGED <<disk, prog, stopped, passed>> /\ UNCHANGED <<around, crashes>>
-----------------------------------------------------------------------------
(* The helper: files forth and back                                        *)

Replacing == helper.pc = "replace"
Restoring == helper.pc = "undo"
Current == IF Replacing THEN Forth[helper.next] ELSE Back[helper.next]
Wanted == IF Replacing THEN helper.req.to ELSE app[helper.req.from][Current]

(* atomicReplaceFile, atomicReplaceDir: the file is moved away, then its   *)
(* successor moved in; one that had no copy is removed.                    *)
MoveAway ==
  /\ (Replacing \/ Restoring) /\ helper.away = Nothing
  /\ files' = [files EXCEPT ![Current] = Gone]
  /\ helper' = [helper EXCEPT !.away = files[Current]]
  /\ UNCHANGED <<db, saved, app, tx, lock, request, result, prog, history>>
  /\ HelperOnly

AfterFiles == IF Replacing THEN "start" ELSE "undoMove"
MoveIn ==
  /\ (Replacing \/ Restoring) /\ helper.away # Nothing
  /\ files' = [files EXCEPT ![Current] = Wanted]
  /\ helper' = [helper EXCEPT !.away = Nothing,
                              !.next = IF helper.next = 3 THEN 1 ELSE @ + 1,
                              !.pc = IF helper.next = 3 THEN AfterFiles ELSE @]
  /\ UNCHANGED <<db, saved, app, tx, lock, request, result, prog, history>>
  /\ HelperOnly

(* An error puts the file back; on the way forth it turns the helper back. *)
MoveFails ==
  /\ (Replacing \/ Restoring) /\ Error
  /\ files' = IF helper.away = Nothing THEN files
              ELSE [files EXCEPT ![Current] = helper.away]
  /\ helper' = [helper EXCEPT !.away = Nothing, !.next = 1,
                              !.pc = IF Replacing THEN "undo" ELSE "fail"]
  /\ UNCHANGED <<db, saved, app, tx, lock, request, result, prog, stopped>>
  /\ HelperOnly

(* RestoreDatabaseFile; Windows does not move a file that is open.         *)
DbAway ==
  /\ helper.pc = "undoMove" /\ ~Running /\ db' = Missing
  /\ helper' = [helper EXCEPT !.pc = "undoDb", !.held = db]
  /\ UNCHANGED <<files, saved, app, tx, lock, request, result, prog, history>>
  /\ HelperOnly

Restored == saved[helper.req.from]
DbBack ==
  /\ helper.pc = "undoDb" /\ db' = Restored
  /\ helper' = [helper EXCEPT !.pc = "restart", !.held = Missing]
  /\ UNCHANGED <<files, saved, app, tx, lock, request, result, prog, history>>
  /\ HelperOnly

DbOpen ==
  /\ At("undoMove", "fail") /\ Running
  /\ UNCHANGED <<disk, prog, history>> /\ HelperOnly
-----------------------------------------------------------------------------
(* The helper: the program, and the decision                               *)

(* A service does not start twice; a second process ends by itself.        *)
Started ==
  IF prog.at = "off" THEN [Stopped EXCEPT !.at = "boot", !.v = files["exe"],
                                          !.child = ~service]
  ELSE prog

AfterStart == CASE helper.pc = "start" -> "health"
                [] helper.pc = "restart" -> "recheck"
                [] helper.pc = "unchanged" -> "fail"
StartAgain ==
  /\ helper.pc \in {"start", "restart", "unchanged"} /\ To(AfterStart)
  /\ files["exe"] # Gone /\ (service => prog.at = "off")
  /\ prog' = Started
  /\ UNCHANGED <<disk, history>> /\ HelperOnly

StartFails ==
  /\ helper.pc \in {"start", "restart", "unchanged"}
  /\ Error \/ (service /\ prog.at # "off" /\ NoError)
  /\ To(IF helper.pc = "start" THEN "undo" ELSE "fail")
  /\ UNCHANGED <<disk, prog, stopped>> /\ HelperOnly

(* WaitForHealth: three answers in a row of the version expected.          *)
Healthy ==
  /\ prog.at = "up"
  /\ \/ /\ At("health", "commit") /\ prog.v = helper.req.to
        /\ passed' = passed \cup {helper.req.id}
     \/ /\ At("recheck", "recommit") /\ prog.v = helper.req.from
        /\ UNCHANGED passed
  /\ UNCHANGED <<disk, prog, around, stopped, errors, crashes>>

(* None within a minute: the service is stopped, or the helper's process.  *)
Halted == IF service \/ prog.child THEN Stopped ELSE prog
Unanswered == prog.at = "off" \/ prog.v # helper.req.from
Unhealthy ==
  /\ \/ At("health", "undo") /\ NoError
     \/ /\ At("recheck", "fail")
        /\ Error \/ (Unanswered /\ NoError)
  /\ prog' = Halted
  /\ UNCHANGED <<disk, stopped>> /\ HelperOnly

(* What runs cannot be stopped: its database stays.                        *)
StopFails ==
  /\ service /\ helper.pc \in {"health", "commit"} /\ To("fail") /\ Error
  /\ UNCHANGED <<disk, prog, stopped>> /\ HelperOnly

(* CompleteWindowsTransaction marks the transaction.                       *)
CommitUnproven == helper.pc = "health"
CommitProven == helper.pc = "commit"
Commit ==
  /\ \/ /\ CommitProven
        /\ tx' = [tx EXCEPT !.done = "success"]
     \/ /\ helper.pc = "recommit"
        /\ tx' = [tx EXCEPT !.done = "rolled_back"]
  /\ To("publish")
  /\ UNCHANGED <<files, db, saved, app, lock, request, result, prog, history>>
  /\ HelperOnly

CommitFails ==
  /\ Error
  /\ \/ At("commit", "undo") /\ prog' = Halted
     \/ At("recommit", "fail") /\ UNCHANGED prog
  /\ UNCHANGED <<disk, around, stopped, passed, crashes>>

(* FinalizeCompletedWindowsTransaction in two writes; what fails is left   *)
(* to the program.                                                         *)
Publish ==
  /\ At("publish", "clear") /\ result' = Published
  /\ UNCHANGED <<files, db, saved, app, tx, lock, request, prog, history>>
  /\ HelperOnly

Clear ==
  /\ At("clear", "release") /\ tx' = Finalized
  /\ UNCHANGED <<files, db, saved, app, lock, request, result, prog, history>>
  /\ HelperOnly

(* The other steps that may fail end the helper.                           *)
GiveUp ==
  /\ Error
  /\ \/ helper.pc \in {"stop", "wait", "undoMove"} /\ To("fail")
        /\ UNCHANGED db
     \/ /\ helper.pc = "undoDb" /\ db' = helper.held
        /\ helper' = [helper EXCEPT !.pc = "fail", !.held = Missing]
     \/ helper.pc \in {"publish", "clear"} /\ To("release") /\ UNCHANGED db
  /\ UNCHANGED <<files, saved, app, tx, lock, request, result, prog, stopped>>
  /\ HelperOnly

(* An installation that has failed leaves its result.                      *)
Fail ==
  /\ At("fail", "release")
  /\ result' = IF helper.recovers THEN result
               ELSE [result EXCEPT ![helper.req.id] = "failed"]
  /\ UNCHANGED <<files, db, saved, app, tx, lock, request, prog, history>>
  /\ HelperOnly

Release ==
  /\ helper.pc = "release" /\ helper' = NoHelper
  /\ lock' = IF Takeable(helper.req) THEN Free ELSE lock
  /\ UNCHANGED <<files, db, saved, app, tx, request, result, prog, history>>
  /\ HelperOnly
-----------------------------------------------------------------------------
(* Either process, or the machine, stops.                                  *)
Crash ==
  /\ crashes < MaxCrashes /\ crashes' = crashes + 1
  /\ \/ /\ prog.at # "off" /\ End /\ UNCHANGED helper
        /\ lock' = Orphaned("program")
     \/ /\ helper.pc # "off" /\ helper' = NoHelper
        /\ lock' = Orphaned("helper")
        /\ UNCHANGED <<prog, stopped>>
     \/ /\ prog.at # "off" /\ helper.pc # "off" /\ End /\ helper' = NoHelper
        /\ lock' = [lock EXCEPT !.pid = IF lock = Free THEN @ ELSE "dead"]
  /\ UNCHANGED <<files, db, saved, app, tx, request, result, around, passed,
                 errors>>

Program ==
  \/ Exit \/ BootRecovers \/ BootOpens \/ TickRecovers \/ Tick
Installation == Stage \/ HandOff \/ Launch \/ FailInstall
HelperSteps ==
  \/ TakeRequest \/ TakeTransaction \/ StopService \/ Wait \/ FinalizeBackup
  \/ Verify \/ BackUp \/ Record \/ Untouched \/ MoveAway \/ MoveIn \/ MoveFails
  \/ DbAway \/ DbBack \/ DbOpen \/ StartAgain \/ StartFails \/ Healthy
  \/ Unhealthy \/ StopFails \/ Commit \/ CommitFails \/ Publish \/ Clear
  \/ GiveUp \/ Fail \/ Release

Next ==
  Write \/ Begin \/ Installation \/ Program \/ StartProgram \/ HelperSteps
    \/ Crash

Spec == Init /\ [][Next]_vars
FairSpec ==
  /\ Spec /\ WF_vars(Installation) /\ WF_vars(Program)
  /\ WF_vars(HelperSteps) /\ WF_vars(StartProgram)
-----------------------------------------------------------------------------
TypeOK ==
  /\ files \in [File -> Version \cup {Gone}]
  /\ db \in Content /\ saved \in [Version -> Content]
  /\ app \in [Version -> [File -> Version \cup {Gone}]]
  /\ tx \in Transaction \cup {NoTransaction}
  /\ lock \in Lock
  /\ request \in Request \cup {NoRequest}
  /\ result \in [Id -> {"none", "success", "failed", "rolled_back"}]
  /\ prog \in Prog /\ helper \in Helper /\ service \in BOOLEAN
  /\ patient \in BOOLEAN /\ stopped \in Content /\ passed \subseteq Id
  /\ errors \in 0..MaxErrors /\ crashes \in 0..MaxCrashes

(* A program never runs from files of two versions, nor on a database that *)
(* another version than its own has migrated, however often the            *)
(* replacement is cut short: what lies between is under a transaction, and *)
(* a program that starts under one goes back first.  Only for "patient"    *)
(* installations: a program that somebody starts while the helper is at    *)
(* work is not held back (recovery_windows.go:17).                         *)
ProgramIsWhole ==
  Running /\ patient => /\ db.by = prog.v
                        /\ \A f \in File : files[f] = prog.v

(* "新版本健康检查失败时会恢复上一版本程序和更新前数据库"                 *)
(* (packaging/windows/README.txt:18): when the old program is to start     *)
(* again, its files are those of one version and its database is what it   *)
(* was when the update stopped the program, not the copy made before.  As  *)
(* above, only for "patient" installations.                                *)
RollbackRestores ==
  helper.pc = "restart" /\ patient
    => /\ db = stopped
       /\ \A f \in File : files[f] = helper.req.from

(* A success that a user reads, whoever wrote it and after whatever stops, *)
(* is one whose new version has answered the health check.                 *)
ResultIsTrue ==
  \A id \in Id :
    result[id] = "success" \/ db.rows[id] = "success" => id \in passed

(* A transaction is closed sooner or later, by the helper or by recovery,  *)
(* as long as the program is started again, unless the stop fell between   *)
(* the two moves that replace the program or the helper, or the lock has   *)
(* lost the token of the update.                                           *)
Broken == files["exe"] = Gone \/ files["updater"] = Gone
TransactionsClose ==
  tx # NoTransaction ~> tx = NoTransaction \/ Broken \/ ~Takeable(tx.req)
(* The promise of UpdateTrial, to an installation whose helper is left     *)
(* alone at its work (of another it says nothing): a version is on trial   *)
(* while its transaction is open, and lost with the lock of the update.    *)
Open == tx # NoTransaction /\ tx.done = "no"
Installed ==
  IF ~patient THEN 1 ELSE IF Open THEN tx.req.from ELSE files["exe"]
Trying == IF patient /\ Open THEN tx.req.to ELSE 0
Fate ==
  IF ~(patient /\ Open) THEN "none"
  ELSE IF Takeable(tx.req) THEN "open" ELSE "lost"
Serving == IF patient /\ Running THEN prog.v ELSE 0
Seen(content) == [by |-> content.by, writes |-> content.writes]
Database == IF patient THEN Seen(db) ELSE [by |-> 1, writes |-> 0]
Found == Seen(IF Fate = "open" THEN stopped ELSE Missing)
Tested ==
  IF ~patient THEN 0
  ELSE IF helper.pc = "commit" THEN helper.req.to
  ELSE IF helper.pc = "recommit" THEN helper.req.from ELSE 0
Trial == INSTANCE UpdateTrial WITH
  installed <- Installed, trying <- Trying, trial <- Fate,
  running <- Serving, data <- Database, found <- Found, tested <- Tested
ImplementsTrial == Trial!Spec
=============================================================================
