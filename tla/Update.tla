------------------------------- MODULE Update -------------------------------
(***************************************************************************)
(* The update of a container in place: the program downloads a version,    *)
(* backs its database up and exits; the launcher                           *)
(* (cmd/ctyun-keeper-launcher) switches the link of the current version,   *)
(* starts it, and keeps it or goes back to the previous version and its    *)
(* database.  The launcher makes the same switch, through the same journal,*)
(* when a container starts with a newer image, or with one whose launcher  *)
(* is too old for the version installed.                                   *)
(*                                                                         *)
(* What is on disk survives; everything else is lost whenever the          *)
(* container stops, which it may do between any two steps.  An action is   *)
(* one write to the disk.                                                  *)
(***************************************************************************)
EXTENDS Naturals

CONSTANTS
  MaxVersion,  \* versions are 1..MaxVersion
  MaxWrites,   \* writes of the program to its database: bounds the model
  Needs        \* Needs[v]: the oldest launcher that may run version v

Version == 1..MaxVersion

ASSUME UpdateAssumption ==
  /\ MaxVersion \in Nat \ {0} /\ MaxWrites \in Nat
  /\ Needs \in [Version -> Version]
  /\ \A v \in Version : Needs[v] <= v

VARIABLES
  (* on disk *)
  image,     \* the version of the image, which is its launcher's too
  link,      \* runtime/current: the directory of the current version
  db,        \* ctyun-keeper.db
  backup,    \* [Dir -> Content]: the copies under updates/
  lock,      \* updates/update.lock: whose token it holds
  request,   \* updates/install-request.json and install.token
  journal,   \* updates/pending.json
  result,    \* the latest file of updates/results
  (* in memory *)
  launcher,  \* where the launcher is
  pending,   \* its copy of the journal
  prog,      \* [at, dir]: the program it runs
  web,       \* where the installation in the program is
  (* history *)
  stopped,   \* the database when the latest update stopped its program
  proven     \* versions that have passed a health check here

disk == <<image, link, db, backup, lock, request, journal, result>>
memory == <<launcher, pending, prog, web>>
history == <<stopped, proven>>
vars == <<disk, memory, history>>
-----------------------------------------------------------------------------
(* Data *)

(* runtime/versions/v<n> holds version n; the image's program is in a      *)
(* directory of its own, whatever the version of the image.                *)
Image == 0
Dir == {Image} \cup Version
VersionAt(dir) == IF dir = Image THEN image ELSE dir

(* The newest version that has migrated a database, and what is in it.     *)
Content == [by : 0..MaxVersion, writes : 0..MaxWrites]
Missing == [by |-> 0, writes |-> 0]
Opened(content, v) ==
  [content EXCEPT !.by = IF content.by < v THEN v ELSE content.by]

(* updates/backups/<n>, and updates/recovery for a switch the launcher     *)
(* makes because it cannot run the version installed.                      *)
Recovery == 0
NoBackup == MaxVersion + 1

Journal == [action : {"install", "image"}, from : Version, to : Version,
            exe : Dir, previous : Dir, target : Dir,
            recovery : BOOLEAN, noFallback : BOOLEAN, targetDb : BOOLEAN,
            backup : Dir \cup {NoBackup},
            status : {"success", "failed", "rolled_back"}]
NoJournal == [action |-> "none"]
Request == [from : Version, to : Version, exe : Dir]
NoRequest == [from |-> 0]
Result == [status : {"success", "failed", "rolled_back"},
           from : Version, to : Version]
NoResult == [status |-> "none"]

LauncherPC == {"off", "select", "record", "handoff", "prepare", "install",
               "switch", "run", "watch", "report", "close", "release",
               "undo", "undoMove", "undoInstall", "undoRecord",
               "consume", "finalize", "apply", "applySwitch"}

Runs(v) == Needs[v] <= image

Init ==
  /\ image \in Version /\ link \in {Image} \cup {v \in Version : v > image}
  /\ link # Image => Runs(link)
  /\ db = [by |-> VersionAt(link), writes |-> 0]
  /\ backup = [dir \in Dir |->
       IF dir = image /\ link # Image THEN [by |-> image, writes |-> 0]
       ELSE Missing]
  /\ lock = "free" /\ request = NoRequest
  /\ journal = NoJournal /\ result = NoResult
  /\ launcher = "watch" /\ pending = NoJournal
  /\ prog = [at |-> "up", dir |-> link] /\ web = "idle"
  /\ stopped = Missing /\ proven = {VersionAt(link)}
-----------------------------------------------------------------------------
(* The program *)

Write ==
  /\ prog.at # "off" /\ db.writes < MaxWrites
  /\ db' = [db EXCEPT !.writes = @ + 1]
  /\ UNCHANGED <<image, link, backup, lock, request, journal, result, memory,
                 history>>

WebOnly == UNCHANGED <<image, link, db, journal, result, launcher, pending,
                       history>>

(* One update at a time: Begin creates the lock file or refuses.           *)
BeginFree == lock = "free"

Begin ==
  /\ prog.at # "off" /\ web = "idle" /\ BeginFree
  /\ lock' = "program" /\ web' = "locked"
  /\ UNCHANGED <<backup, request, prog>> /\ WebOnly

(* A newer version, downloaded and verified; the tasks have stopped        *)
(* (TaskRunner!PreparedQuiescent) and the database is copied.              *)
Stage ==
  /\ web = "locked" /\ web' = "staged"
  /\ \E v \in Version :
       /\ v > VersionAt(prog.dir) /\ Runs(v)
       /\ request' = [from |-> VersionAt(prog.dir), to |-> v,
                      exe |-> prog.dir]
  /\ backup' = [backup EXCEPT ![VersionAt(prog.dir)] = db]
  /\ UNCHANGED <<lock, prog>> /\ WebOnly

(* The lock passes to whoever holds the token of the request.              *)
HandOff ==
  /\ web = "staged" /\ web' = "handed" /\ lock' = "request"
  /\ UNCHANGED <<backup, request, prog>> /\ WebOnly

FailInstall ==
  /\ web \in {"locked", "staged"} /\ web' = "idle" /\ lock' = "free"
  /\ UNCHANGED <<backup, request, prog>> /\ WebOnly

(* The program exits with ExitUpdateRequested; it closes its database, but *)
(* wrote to it until then.                                                 *)
ExitForUpdate ==
  /\ web = "handed" /\ launcher = "watch"
  /\ web' = "idle" /\ prog' = [prog EXCEPT !.at = "off"]
  /\ launcher' = "consume" /\ stopped' = db
  /\ UNCHANGED <<disk, pending, proven>>
-----------------------------------------------------------------------------
(* The launcher starts                                                     *)

Step(from, to) == launcher = from /\ launcher' = to
Halt(from) ==
  /\ Step(from, "off")
  /\ pending' = NoJournal /\ prog' = [prog EXCEPT !.at = "off"]
  /\ web' = "idle"
LauncherOnly == UNCHANGED <<prog, web>>

(* validatePending                                                         *)
Valid(j) ==
  /\ VersionAt(j.previous) = j.from
  /\ VersionAt(j.target) = (IF j.recovery THEN j.from ELSE j.to)
  /\ j.action = "install" => j.exe = j.previous /\ Runs(j.to)

(* TakeOverUpdateLock: the lock is the journal's, or there is none.        *)
Resumable == Valid(journal) /\ lock \in {"free", "request"}

Resume ==
  /\ journal # NoJournal /\ Resumable
  /\ Step("off", "prepare") /\ pending' = journal
  /\ lock' = "request"
  /\ UNCHANGED <<image, link, db, backup, request, journal, result, history>>
  /\ LauncherOnly

(* A lock without a journal is left over.                                  *)
Boot ==
  /\ journal = NoJournal
  /\ Step("off", "select") /\ lock' = "launcher"
  /\ UNCHANGED <<image, link, db, backup, request, journal, result, pending,
                 history>>
  /\ LauncherOnly

(* selectStartupVersion: keep the version installed unless the image's is  *)
(* newer or the launcher too old for it.                                   *)
Incompatible == link # Image /\ ~Runs(link)
Promoted == link # Image /\ image > link

(* The image's program cannot read what the installed one has written: it  *)
(* goes back to the copy its own version left.                             *)
KeepsDb == FALSE
FallsBack == Incompatible /\ db # Missing

Keep ==
  /\ ~Incompatible /\ ~Promoted
  /\ Step("select", "run") /\ lock' = "free"
  /\ UNCHANGED <<image, link, db, backup, request, journal, result, pending,
                 history>>
  /\ LauncherOnly

SwitchToImage ==
  /\ Incompatible \/ Promoted
  /\ FallsBack => backup[image] # Missing
  /\ Step("select", "record")
  /\ LET copy == IF db = Missing THEN NoBackup
                 ELSE IF Incompatible THEN Recovery ELSE link IN
     /\ backup' = IF copy = NoBackup THEN backup
                  ELSE [backup EXCEPT ![copy] = db]
     /\ pending' = [action |-> "image", from |-> link, to |-> image,
                    exe |-> Image, previous |-> link, target |-> Image,
                    recovery |-> FALSE, noFallback |-> Incompatible,
                    targetDb |-> FallsBack,
                    backup |-> copy, status |-> "success"]
  /\ stopped' = db
  /\ UNCHANGED <<image, link, db, lock, request, journal, result, proven>>
  /\ LauncherOnly

Record ==
  /\ Step("record", "handoff") /\ journal' = pending
  /\ UNCHANGED <<image, link, db, backup, lock, request, result, pending,
                 history>>
  /\ LauncherOnly

PassLock ==
  /\ Step("handoff", "prepare") /\ lock' = "request"
  /\ UNCHANGED <<image, link, db, backup, request, journal, result, pending,
                 history>>
  /\ LauncherOnly

(* An error before the program is started ends the launcher; without a     *)
(* journal it releases the lock.                                           *)
GiveUp ==
  /\ \E pc \in {"select", "record", "handoff", "prepare", "switch"} : Halt(pc)
  /\ lock' = IF launcher \in {"select", "record", "handoff"} THEN "free"
             ELSE lock
  /\ UNCHANGED <<image, link, db, backup, request, journal, result, history>>
-----------------------------------------------------------------------------
(* The switch, and the program in its new version                          *)

(* RestoreDatabaseFile: the file is moved away, then its copy moved in.    *)
(* An error puts the file back; a stop in between leaves none.             *)
Prepare ==
  /\ \/ /\ Step("prepare", "install") /\ pending.targetDb
        /\ db' = Missing
     \/ /\ Step("prepare", "switch") /\ ~pending.targetDb
        /\ UNCHANGED db
  /\ UNCHANGED <<image, link, backup, lock, request, journal, result,
                 pending, history>>
  /\ LauncherOnly

Install ==
  /\ Step("install", "switch") /\ db' = backup[pending.to]
  /\ UNCHANGED <<image, link, backup, lock, request, journal, result,
                 pending, history>>
  /\ LauncherOnly

Switch ==
  /\ Step("switch", "run") /\ link' = pending.target
  /\ UNCHANGED <<image, db, backup, lock, request, journal, result, pending,
                 history>>
  /\ LauncherOnly

(* runProgram: the program opens its database, creates it if there is none,*)
(* and migrates it.                                                        *)
Run ==
  /\ Runs(VersionAt(link))
  /\ Step("run", "watch") /\ prog' = [at |-> "starting", dir |-> link]
  /\ db' = Opened(db, VersionAt(link))
  /\ UNCHANGED <<image, link, backup, lock, request, journal, result,
                 pending, web, history>>

(* completePending: the result, the journal, the lock, in this order; an   *)
(* error leaves the journal for the next start.                            *)
Healthy ==
  /\ prog.at = "starting" /\ prog' = [prog EXCEPT !.at = "up"]
  /\ launcher = "watch"
  /\ launcher' = IF pending = NoJournal THEN "watch" ELSE "report"
  /\ proven' = proven \cup {VersionAt(prog.dir)}
  /\ UNCHANGED <<disk, pending, web, stopped>>

ReportedSuccess == "success"
ReportedStatus == pending.status
Outcome(status) == [status |-> status, from |-> pending.from, to |-> pending.to]

Report ==
  /\ Step("report", "close")
  /\ result' = Outcome(ReportedStatus)
  /\ UNCHANGED <<image, link, db, backup, lock, request, journal, pending,
                 history>>
  /\ LauncherOnly

Close ==
  /\ Step("close", "release") /\ journal' = NoJournal
  /\ UNCHANGED <<image, link, db, backup, lock, request, result, pending,
                 history>>
  /\ LauncherOnly

Release ==
  /\ Step("release", "watch") /\ pending' = NoJournal
  /\ lock' = IF lock = "request" THEN "free" ELSE lock
  /\ UNCHANGED <<image, link, db, backup, request, journal, result, history>>
  /\ LauncherOnly

LeaveOpen ==
  /\ Step("report", "watch") \/ Step("close", "watch")
  /\ UNCHANGED <<disk, pending, history>> /\ LauncherOnly
-----------------------------------------------------------------------------
(* The new version is not healthy within a minute, or exits before that    *)

Unhealthy ==
  /\ prog.at = "starting" /\ launcher = "watch"
  /\ IF pending = NoJournal \/ pending.recovery
     THEN /\ Halt("watch")
          /\ result' = IF pending = NoJournal THEN result
                       ELSE Outcome("failed")
     ELSE /\ Step("watch", "undo") /\ prog' = [prog EXCEPT !.at = "off"]
          /\ web' = "idle" /\ UNCHANGED <<pending, result>>
  /\ UNCHANGED <<image, link, db, backup, lock, request, journal, history>>

Undo ==
  /\ Step("undo", "undoMove") /\ link' = pending.previous
  /\ UNCHANGED <<image, db, backup, lock, request, journal, result, pending,
                 history>>
  /\ LauncherOnly

UndoMove ==
  /\ \/ /\ Step("undoMove", "undoInstall") /\ pending.backup # NoBackup
        /\ db' = Missing
     \/ /\ Step("undoMove", "undoRecord") /\ pending.backup = NoBackup
        /\ UNCHANGED db
  /\ UNCHANGED <<image, link, backup, lock, request, journal, result,
                 pending, history>>
  /\ LauncherOnly

UndoInstall ==
  /\ Step("undoInstall", "undoRecord") /\ db' = backup[pending.backup]
  /\ UNCHANGED <<image, link, backup, lock, request, journal, result,
                 pending, history>>
  /\ LauncherOnly

(* The journal now leads back; without a fallback the launcher stops here. *)
Backward ==
  [pending EXCEPT !.recovery = TRUE, !.target = pending.previous,
                  !.targetDb = FALSE,
                  !.status = IF pending.noFallback THEN "failed"
                             ELSE "rolled_back"]

UndoRecord ==
  /\ launcher = "undoRecord" /\ journal' = Backward
  /\ IF pending.noFallback THEN Halt("undoRecord")
     ELSE Step("undoRecord", "run") /\ pending' = Backward /\ LauncherOnly
  /\ UNCHANGED <<image, link, db, backup, lock, request, result, history>>

UndoFails ==
  /\ \E pc \in {"undo", "undoMove", "undoRecord"} : Halt(pc)
  /\ result' = IF launcher = "undoRecord" THEN result ELSE Outcome("failed")
  /\ UNCHANGED <<image, link, db, backup, lock, request, journal, history>>
-----------------------------------------------------------------------------
(* An update the program has asked for                                     *)

(* An error before the journal is written fails the update and starts the  *)
(* program again; its database has not been touched.                       *)
Refuse(reported) ==
  /\ launcher' = "run" /\ lock' = "free"
  /\ result' = IF reported
               THEN [status |-> "failed", from |-> request.from, to |-> request.to]
               ELSE result
  /\ UNCHANGED <<image, link, db, pending, history>> /\ LauncherOnly

(* The request and its token are deleted, then compared with the current   *)
(* version and with the lock.                                              *)
Consume ==
  /\ launcher = "consume"
  /\ \/ /\ request.exe = link /\ launcher' = "finalize"
        /\ UNCHANGED <<image, link, db, lock, result, pending, history>>
        /\ LauncherOnly
     \/ Refuse(FALSE)
  /\ UNCHANGED <<backup, request, journal>>

(* FinalizeDatabaseBackup: the copy is taken again, from the stopped       *)
(* program.                                                                *)
FinalizedEarlier == backup
Finalized == [backup EXCEPT ![request.from] = db]

Finalize ==
  /\ launcher = "finalize"
  /\ \/ /\ db # Missing /\ launcher' = "apply" /\ backup' = Finalized
        /\ UNCHANGED <<image, link, db, lock, result, pending, history>>
        /\ LauncherOnly
     \/ Refuse(TRUE) /\ UNCHANGED backup
  /\ UNCHANGED <<request, journal>>

(* applyUpdate: the image's program is copied to runtime/versions first,   *)
(* and the copy becomes the previous version.                              *)
Applied ==
  [action |-> "install", from |-> request.from, to |-> request.to,
   exe |-> request.exe,
   previous |-> IF link = Image THEN request.from ELSE link,
   target |-> request.to, recovery |-> FALSE, noFallback |-> FALSE,
   targetDb |-> FALSE, backup |-> request.from, status |-> "success"]

RecordLater == NoJournal
RecordNow == Applied

Apply ==
  /\ launcher = "apply"
  /\ \/ /\ launcher' = "applySwitch"
        /\ pending' = Applied /\ journal' = RecordNow
        /\ UNCHANGED <<image, link, db, lock, result, history>>
        /\ LauncherOnly
     \/ Refuse(TRUE) /\ UNCHANGED journal
  /\ UNCHANGED <<backup, request>>

ApplySwitch ==
  /\ launcher = "applySwitch"
  /\ \/ /\ launcher' = "run" /\ link' = pending.target
        /\ UNCHANGED <<image, db, lock, journal, result, pending, history>>
        /\ LauncherOnly
     \/ /\ launcher' = "run" /\ lock' = "free" /\ journal' = NoJournal
        /\ pending' = NoJournal
        /\ result' = [status |-> "failed", from |-> request.from, to |-> request.to]
        /\ UNCHANGED <<image, link, db, history>> /\ LauncherOnly
  /\ UNCHANGED <<backup, request>>
-----------------------------------------------------------------------------
(* The container stops, or its program does and the launcher with it.      *)
Stop ==
  /\ launcher # "off"
  /\ launcher' = "off" /\ pending' = NoJournal
  /\ prog' = [prog EXCEPT !.at = "off"] /\ web' = "idle"
  /\ UNCHANGED <<disk, history>>

(* The user runs the data directory under another image; not under an      *)
(* older one while the program in use is the image's own.                  *)
ReplaceImage ==
  /\ launcher = "off"
  /\ \E v \in Version : /\ link = Image => v > image
                        /\ v # image /\ image' = v
  /\ UNCHANGED <<link, db, backup, lock, request, journal, result, memory,
                 history>>

Next ==
  \/ Write \/ Begin \/ Stage \/ HandOff \/ FailInstall \/ ExitForUpdate
  \/ Resume \/ Boot \/ Keep \/ SwitchToImage \/ Record \/ PassLock \/ GiveUp
  \/ Prepare \/ Install \/ Switch \/ Run
  \/ Healthy \/ Report \/ Close \/ Release \/ LeaveOpen
  \/ Unhealthy \/ Undo \/ UndoMove \/ UndoInstall \/ UndoRecord \/ UndoFails
  \/ Consume \/ Finalize \/ Apply \/ ApplySwitch
  \/ Stop \/ ReplaceImage

Spec == Init /\ [][Next]_vars
-----------------------------------------------------------------------------
TypeOK ==
  /\ image \in Version /\ link \in Dir
  /\ db \in Content /\ backup \in [Dir -> Content]
  /\ lock \in {"free", "program", "launcher", "request"}
  /\ request \in Request \cup {NoRequest}
  /\ journal \in Journal \cup {NoJournal}
  /\ pending \in Journal \cup {NoJournal}
  /\ result \in Result \cup {NoResult}
  /\ launcher \in LauncherPC
  /\ prog \in [at : {"off", "starting", "up"}, dir : Dir]
  /\ web \in {"idle", "locked", "staged", "handed"}
  /\ stopped \in Content /\ proven \subseteq Version

(* A program never runs on a database that a newer version has migrated,   *)
(* however often updates, rollbacks and switches to the image are cut      *)
(* short.                                                                  *)
NoDowngrade == prog.at # "off" => db.by = VersionAt(prog.dir)

(* "回滚会同步恢复更新前数据库" (packaging/windows/README.txt:26, here for  *)
(* the launcher): the previous version runs again on nothing less than     *)
(* what the database held when the update stopped it.                      *)
RollbackRestores ==
  prog.at # "off" /\ pending # NoJournal /\ pending.recovery
    => db.writes >= stopped.writes

(* A version that was installed and has never passed a health check runs   *)
(* only under a journal.  "提交更新结果失败，将保留恢复记录" (cmd/ctyun-      *)
(* keeper-launcher/main.go:184): whenever the launcher is cut short, the    *)
(* next start accepts the journal it left and its lock; except between the *)
(* journal and the passing of the lock, and for the first installation of  *)
(* a data directory, whose journal names another previous version than its *)
(* request (main.go:463, 624).                                             *)
FirstInstallation(j) == j.action = "install" /\ j.exe = Image
UnprovenCanBeUndone ==
  /\ prog.at # "off" /\ prog.dir \in Version \ proven => journal # NoJournal
  /\ launcher \notin {"off", "handoff"} /\ journal # NoJournal =>
       Resumable \/ FirstInstallation(journal)

(* With no update open, the result a user reads is what the link points   *)
(* at: the version that is said to run, or the one that is said to be kept *)
(* (the image's program may have become another since).                    *)
ResultIsTrue ==
  journal = NoJournal /\ result # NoResult =>
    link \in {Image, IF result.status = "success" THEN result.to
                     ELSE result.from}

(* TestRestoreDatabaseFileIsAtomic (internal/update/security_test.go:320)  *)
(* calls the restore atomic, and the text of the Windows package, whose    *)
(* helper uses the same function, promises                                 *)
(* "新版本健康检查失败时会恢复上一版本程序和更新前数据库"                 *)
(* (packaging/windows/README.txt:18): a program that runs while an         *)
(* installation is open has what the database held when the update stopped *)
(* it.                                                                     *)
UpdateKeepsData ==
  prog.at # "off" /\ pending # NoJournal /\ pending.action = "install"
    => db.writes >= stopped.writes
(* The promise of UpdateTrial: a version is on trial while the journal     *)
(* names it, and what an installation or a switch to the image leaves in   *)
(* between, a start takes up.                                              *)
Open == journal # NoJournal
Installed == IF Open THEN journal.from ELSE VersionAt(link)
Trying == IF Open THEN journal.to ELSE 0
Running == IF prog.at = "off" THEN 0 ELSE VersionAt(prog.dir)
Found == IF Open THEN stopped ELSE Missing
Passed == IF launcher \in {"report", "close"} THEN VersionAt(link) ELSE 0
Trial == INSTANCE UpdateTrial WITH
  installed <- Installed, trying <- Trying,
  trial <- IF Open THEN "open" ELSE "none",
  running <- Running, data <- db, found <- Found, tested <- Passed
ImplementsTrial == Trial!Spec
=============================================================================
