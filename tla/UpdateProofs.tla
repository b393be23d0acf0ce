---------------------------- MODULE UpdateProofs ----------------------------
(***************************************************************************)
(* Theorems about Update for every number of versions, whatever launcher   *)
(* each needs, and however often the container stops.                      *)
(*                                                                         *)
(* The invariant says what the launcher knows at each of its steps         *)
(* (Control), what a journal may look like (Shape), and what a journal on  *)
(* the disk promises of the database: that the copy it names is what the   *)
(* update found (Restorable), and which version may open the database      *)
(* before, during and after the way back (Readable).                       *)
(***************************************************************************)
EXTENDS Update, TLAPS

Idle == {"off", "select", "consume", "finalize", "apply"}
Serving == {"watch", "report", "close", "release"}
Journaled == {"record", "handoff", "prepare", "install", "switch", "report",
              "close", "release", "undo", "undoMove", "undoInstall",
              "undoRecord", "applySwitch"}
Requested == {"consume", "finalize", "apply", "applySwitch"}

(* Where the launcher is, what it and the disk know of a journal, who runs *)
(* and whose the lock is.                                                  *)
Control ==
  /\ launcher \in Idle => pending = NoJournal
  /\ launcher \in Journaled => pending # NoJournal
  /\ launcher \in {"select", "record", "release"} => journal = NoJournal
  /\ launcher \notin {"off", "record", "release"} => journal = pending
  /\ launcher \in Serving <=> prog.at # "off"
  /\ launcher \in Serving => prog.dir = link
  /\ web # "idle" => launcher = "watch" /\ pending = NoJournal
  /\ pending # NoJournal /\ launcher \notin {"record", "handoff"} => lock = "request"
  /\ web = "handed" \/ launcher \in Requested => lock = "request"

(* A switch to the image goes to a newer version, or to an older one       *)
(* without a way back; an installation goes to a newer one.  The copy is   *)
(* that of the version left behind.                                        *)
Shape(j) ==
  /\ j.previous = j.from /\ j.from \in Version
  /\ j.exe \in {Image, j.from}
  /\ j.noFallback => j.action = "image" /\ j.to < j.from
  /\ ~j.noFallback => j.from < j.to
  /\ j.backup = IF j.noFallback THEN Recovery ELSE j.from
  /\ j.target = IF j.recovery THEN j.from
                ELSE IF j.action = "image" THEN Image ELSE j.to
  /\ j.targetDb <=> j.noFallback /\ ~j.recovery
  /\ j.recovery <=> j.status # "success"
Shapes ==
  /\ journal # NoJournal => Shape(journal)
  /\ pending # NoJournal =>
       Shape(pending) /\ (Valid(pending) \/ FirstInstallation(pending))

(* What the program has asked for, and what the launcher makes of it.      *)
AsRequested ==
  web \in {"staged", "handed"} \/ launcher \in Requested =>
    /\ request # NoRequest /\ request.exe = link /\ request.from = VersionAt(link)
    /\ request.from < request.to /\ Runs(request.to)
Applying ==
  launcher = "applySwitch" =>
    pending.from = request.from /\ pending.to = request.to /\ ~pending.recovery

(* Where the link points at, when a journal is open.                       *)
Linked ==
  /\ launcher \in {"run", "watch", "report", "close"} /\ pending # NoJournal =>
       link = pending.target
  /\ launcher \in {"record", "undoMove", "undoInstall", "undoRecord"} =>
       link = pending.previous

Restorable(j) == backup[j.backup] = stopped /\ stopped.by <= j.from
Restores ==
  /\ journal # NoJournal => Restorable(journal)
  /\ launcher = "record" => Restorable(pending)
  /\ launcher \in {"consume", "finalize", "apply", "applySwitch", "record",
                    "undoRecord"} => db = stopped
  /\ launcher = "apply" => backup[request.from] = stopped
  /\ launcher = "install" => pending.targetDb
  /\ launcher \in {"undo", "undoMove", "undoInstall"} => ~pending.recovery
  /\ journal # NoJournal /\ journal.recovery => db.writes >= stopped.writes
  /\ pending # NoJournal /\ pending.recovery => db.writes >= stopped.writes

(* Which versions can read the database and its copies.                    *)
Readable ==
  /\ \A v \in Version : backup[v].by <= v
  /\ launcher \in Serving => db.by = VersionAt(link)
  /\ journal = NoJournal \/ launcher = "applySwitch" =>
       db.by > 0 /\ db.by <= VersionAt(link)
  /\ journal # NoJournal =>
       /\ ~journal.recovery /\ ~journal.noFallback => db.by <= journal.to
       /\ journal.recovery => db.by <= journal.from
  /\ launcher = "switch" => db.by <= VersionAt(pending.target)
  /\ launcher = "run" => db.by <= VersionAt(link)

Tested ==
  journal = NoJournal \/ launcher \in {"report", "close", "applySwitch"} =>
    (link \in Version => link \in proven)

Reported ==
  launcher = "close" => result = Outcome(pending.status)

IInv ==
  /\ TypeOK /\ Control /\ Shapes /\ AsRequested /\ Applying /\ Linked
  /\ Restores /\ Readable /\ Tested /\ Reported /\ ResultIsTrue
-----------------------------------------------------------------------------
(* Data                                                                    *)

LEMMA NoneOfThem ==
  NoJournal \notin Journal /\ NoRequest \notin Request
  <1>1. ASSUME NEW j \in Journal
        PROVE  j # NoJournal
    BY DEF Journal, NoJournal
  <1>2. ASSUME NEW r \in Request
        PROVE  r # NoRequest
    <2>1. r.from \in Version
      BY <1>2 DEF Request
    <2>2. QED
      BY <2>1 DEF NoRequest, Version
  <1>3. QED
    BY <1>1, <1>2

LEMMA Directories ==
  /\ Image \in Dir /\ Version \subseteq Dir /\ Image \notin Version
  /\ NoBackup \notin Dir /\ VersionAt(Image) = image
  /\ \A v \in Version : VersionAt(v) = v
  BY UpdateAssumption DEF Image, Dir, Version, NoBackup, VersionAt

LEMMA JournalFields ==
  ASSUME NEW j \in Journal
  PROVE  /\ j.from \in Version /\ j.to \in Version
         /\ j.exe \in Dir /\ j.previous \in Dir /\ j.target \in Dir
         /\ j.backup \in Dir \cup {NoBackup}
         /\ j.action \in {"install", "image"}
         /\ j.status \in {"success", "failed", "rolled_back"}
  BY DEF Journal

(* Opening a database with a version that can read it makes it a database  *)
(* of that version, and keeps what is written in it.                       *)
LEMMA Opening ==
  ASSUME NEW content \in Content, NEW v \in Version
  PROVE  /\ Opened(content, v) \in Content
         /\ Opened(content, v).writes = content.writes
         /\ content.by <= v => Opened(content, v).by = v
  <1>1. content.by \in 0..MaxVersion /\ v \in 0..MaxVersion
    BY UpdateAssumption DEF Content, Version
  <1>2. CASE content.by < v
    BY <1>1, <1>2 DEF Opened, Content
  <1>3. CASE ~(content.by < v)
    <2>1. content.by \in Nat /\ v \in Nat
      BY <1>1, UpdateAssumption
    <2>2. content.by <= v => content.by = v
      BY <1>3, <2>1
    <2>3. QED
      BY <1>1, <1>3, <2>2 DEF Opened, Content
  <1>4. QED
    BY <1>2, <1>3

LEMMA MissingIsContent ==
  Missing \in Content
  BY UpdateAssumption DEF Missing, Content

(* The result of a journal.                                                *)
LEMMA Outcomes ==
  ASSUME pending \in Journal, NEW status \in {"success", "failed", "rolled_back"}
  PROVE  Outcome(status) \in Result
  BY JournalFields DEF Outcome, Result

LEMMA LauncherKnows ==
  ASSUME TypeOK, Control
  PROVE  /\ launcher \in Journaled => pending \in Journal
         /\ pending # NoJournal => pending \in Journal
         /\ journal # NoJournal => journal \in Journal
         /\ launcher \in Journaled \ {"record", "release"} => journal = pending /\ journal # NoJournal
  BY DEF TypeOK, Control, Journaled

(* The three journals the launcher writes *)

LEMMA SwitchJournal ==
  ASSUME IInv, SwitchToImage
  PROVE  /\ pending' \in Journal /\ Shape(pending') /\ Valid(pending)'
         /\ backup' \in [Dir -> Content] /\ stopped' = db
         /\ pending'.previous = link /\ pending'.from = link
         /\ ~pending'.recovery
         /\ backup'[pending'.backup] = db
         /\ \A v \in Version : backup'[v].by <= v
  <1>1. TypeOK /\ Control /\ Readable
    BY DEF IInv
  <1>2. launcher = "select" /\ journal = NoJournal
    BY <1>1, Zenon DEF SwitchToImage, Step, Control
  <1>3. link \in Version /\ VersionAt(link) = link /\ image \in Version
    BY <1>1, Directories DEF SwitchToImage, Incompatible, Promoted, TypeOK, Dir
  <1>4. db \in Content /\ db.by > 0 /\ db.by <= link /\ db # Missing
    BY <1>1, <1>2, <1>3 DEF TypeOK, Readable, Missing
  <1>5. Incompatible => image < link
    <2>1. Needs[link] <= link /\ Needs[link] \in Nat /\ link \in Nat /\ image \in Nat
      BY <1>3, UpdateAssumption DEF Version
    <2>2. QED
      BY <1>3, <2>1 DEF Incompatible, Runs, VersionAt, Image
  <1> DEFINE copy == IF Incompatible THEN Recovery ELSE link
             j == [action |-> "image", from |-> link, to |-> image,
                   exe |-> Image, previous |-> link, target |-> Image,
                   recovery |-> FALSE, noFallback |-> Incompatible,
                   targetDb |-> FallsBack,
                   backup |-> copy, status |-> "success"]
  <1>6. FallsBack \in BOOLEAN /\ Incompatible \in BOOLEAN /\ (FallsBack <=> Incompatible)
    BY <1>4 DEF FallsBack, Incompatible
  <1>7. copy \in Dir /\ copy # NoBackup
    BY <1>3, Directories DEF Recovery, Image
  <1>8. pending' = j /\ backup' = [backup EXCEPT ![copy] = db] /\ stopped' = db
        /\ image' = image /\ link' = link
    BY <1>4, <1>7 DEF SwitchToImage
  <1>9. j \in Journal
    BY <1>3, <1>6, <1>7, Directories DEF Journal
  <1>10. Incompatible \/ (Promoted /\ image > link)
    BY DEF SwitchToImage, Promoted
  <1>11. Shape(j)
    BY <1>3, <1>5, <1>6, <1>10 DEF Shape
  <1>12. Valid(j)'
    <2>1. VersionAt(link)' = link /\ VersionAt(Image)' = image
      BY <1>3, <1>8, Directories DEF VersionAt
    <2>2. j.action = "image" /\ j.previous = link /\ j.from = link
          /\ j.target = Image /\ j.to = image /\ ~j.recovery
      OBVIOUS
    <2>3. /\ VersionAt(j.previous)' = j.from
          /\ VersionAt(j.target)' = j.to
      BY <1>3, <1>8, Directories DEF VersionAt
    <2>4. QED
      BY <1>8, <2>2, <2>3 DEF Valid
  <1>14. backup \in [Dir -> Content] /\ backup' \in [Dir -> Content] /\ backup'[copy] = db
    BY <1>1, <1>4, <1>7, <1>8 DEF TypeOK
  <1>15. ASSUME NEW v \in Version PROVE backup'[v].by <= v
    <2>1. backup[v].by <= v /\ v \in Dir
      BY <1>1, Directories DEF Readable
    <2>2. v = copy => v = link
      BY <1>3, Directories DEF Recovery, Image
    <2>3. QED
      BY <1>4, <1>8, <1>14, <2>1, <2>2
  <1>16. QED
    BY <1>8, <1>9, <1>11, <1>12, <1>14, <1>15 DEF Valid

LEMMA InstallJournal ==
  ASSUME IInv, launcher = "apply"
  PROVE  /\ Applied \in Journal /\ Shape(Applied)
         /\ Valid(Applied) \/ FirstInstallation(Applied)
         /\ Restorable(Applied)
         /\ Applied.from = request.from /\ Applied.to = request.to
         /\ ~Applied.recovery /\ ~Applied.noFallback
         /\ db.by <= Applied.to
  <1>1. TypeOK /\ AsRequested /\ Restores /\ Readable /\ Control
    BY DEF IInv
  <1>2. /\ request # NoRequest /\ request.exe = link
        /\ request.from = VersionAt(link)
        /\ request.from < request.to /\ Runs(request.to)
    BY <1>1 DEF AsRequested, Requested
  <1>3. /\ request.from \in Version /\ request.to \in Version
        /\ request.exe \in Dir
    BY <1>1, <1>2 DEF TypeOK, Request
  <1>4. /\ link # Image => request.from = link /\ link \in Version
        /\ (IF link = Image THEN request.from ELSE link) = request.from
    BY <1>1, <1>2, Directories DEF TypeOK, Dir
  <1>5. Applied \in Journal
    BY <1>3, <1>4, Directories DEF Applied, Journal
  <1>6. Shape(Applied)
    BY <1>2, <1>3, <1>4, Directories DEF Applied, Shape
  <1>7. Valid(Applied) \/ FirstInstallation(Applied)
    BY <1>2, <1>3, <1>4, Directories DEF Applied, Valid, FirstInstallation
  <1>8. journal = NoJournal /\ db = stopped /\ backup[request.from] = stopped
        /\ db.by <= request.from
    BY <1>1, <1>2 DEF Control, Idle, Restores, Readable
  <1>9. db.by <= request.to
    <2>0. db.by \in 0..MaxVersion
      BY <1>1 DEF TypeOK, Content
    <2>1. db.by \in Nat /\ request.from \in Nat /\ request.to \in Nat
      BY <1>3, <2>0, UpdateAssumption DEF Version
    <2>2. QED
      BY <1>2, <1>8, <2>1
  <1>10. QED
    BY <1>5, <1>6, <1>7, <1>8, <1>9 DEF Applied, Restorable

LEMMA BackwardJournal ==
  ASSUME IInv, launcher = "undoRecord"
  PROVE  /\ Backward \in Journal /\ Shape(Backward)
         /\ Valid(Backward) \/ FirstInstallation(Backward)
         /\ Restorable(Backward)
         /\ Backward.recovery /\ Backward.target = link /\ Backward.previous = link
         /\ link = Backward.from /\ link \in Version
         /\ db = stopped /\ db.by <= Backward.from
  <1>1. TypeOK /\ Control /\ Shapes /\ Linked /\ Restores
    BY DEF IInv
  <1>2. pending \in Journal /\ journal = pending /\ journal # NoJournal
    BY <1>1, LauncherKnows DEF Journaled
  <1>3. Shape(pending) /\ (Valid(pending) \/ FirstInstallation(pending))
    BY <1>1, <1>2 DEF Shapes
  <1>4. /\ Backward \in Journal /\ Backward.recovery
        /\ Backward.from = pending.from /\ Backward.to = pending.to
        /\ Backward.previous = pending.previous /\ Backward.exe = pending.exe
        /\ Backward.action = pending.action /\ Backward.backup = pending.backup
        /\ Backward.target = pending.previous /\ ~Backward.targetDb
        /\ Backward.noFallback = pending.noFallback
        /\ Backward.status # "success"
    BY <1>2 DEF Backward, Journal
  <1>5. link = pending.previous /\ pending.previous = pending.from
        /\ pending.from \in Version
    BY <1>1, <1>3 DEF Linked, Shape
  <1>6. Shape(Backward)
    BY <1>3, <1>4 DEF Shape
  <1>7. Valid(Backward) \/ FirstInstallation(Backward)
    BY <1>3, <1>4, <1>5, Directories DEF Valid, FirstInstallation
  <1>8. Restorable(pending) /\ db = stopped
    BY <1>1, <1>2 DEF Restores
  <1>9. QED
    BY <1>4, <1>5, <1>6, <1>7, <1>8 DEF Restorable

(* A step that leaves the request and the current version as they are, and *)
(* does not start to serve a request, keeps AsRequested.                   *)
LEMMA RequestUnchanged ==
  ASSUME AsRequested, UNCHANGED <<image, link, request>>,
         web' \in {"staged", "handed"} \/ launcher' \in Requested
           => web \in {"staged", "handed"} \/ launcher \in Requested
  PROVE  AsRequested'
  BY DEF AsRequested, VersionAt, Runs

LEMMA Contents ==
  ASSUME NEW c \in Content
  PROVE  c.by \in Nat /\ c.by <= MaxVersion /\ c.writes \in Nat
  <1>1. c.by \in 0..MaxVersion /\ c.writes \in 0..MaxWrites
    BY DEF Content
  <1>2. QED
    BY <1>1, UpdateAssumption

(* The version a journal's target holds: that of the journal, also when it *)
(* is the image's.                                                         *)
LEMMA TargetVersion ==
  ASSUME IInv, pending # NoJournal
  PROVE  /\ VersionAt(pending.target) = IF pending.recovery THEN pending.from
                                        ELSE pending.to
         /\ pending.from \in Version /\ pending.to \in Version
         /\ pending.from \in Nat /\ pending.to \in Nat
  <1>1. pending \in Journal /\ Shape(pending)
        /\ (Valid(pending) \/ FirstInstallation(pending))
    BY LauncherKnows DEF IInv, Shapes
  <1>2. pending.from \in Version /\ pending.to \in Version
    BY <1>1, JournalFields
  <1>3. CASE Valid(pending)
    BY <1>2, <1>3 DEF Valid, Version
  <1>4. CASE FirstInstallation(pending)
    BY <1>1, <1>2, <1>4, Directories DEF FirstInstallation, Shape, Version
  <1>5. QED
    BY <1>1, <1>3, <1>4

(* The current version has a number.                                       *)
LEMMA CurrentVersion ==
  ASSUME TypeOK
  PROVE  /\ VersionAt(link) \in Version /\ VersionAt(link) \in Nat
         /\ db.by \in Nat /\ image \in Nat
  <1>1. VersionAt(link) \in Version
    BY Directories DEF TypeOK, Dir, VersionAt
  <1>2. QED
    BY <1>1, Contents DEF TypeOK, Version
-----------------------------------------------------------------------------
LEMMA ControlStep ==
  ASSUME IInv, Next
  PROVE  Control'
  <1>0. TypeOK /\ Control /\ Shapes /\ AsRequested
    BY DEF IInv
  <1>1. CASE Write
    BY <1>0, <1>1 DEF Write, memory, history, Control, Idle, Serving,
        Journaled, Requested, LauncherPC
  <1>2. CASE Begin
    BY <1>0, <1>2 DEF Begin, history, WebOnly, BeginFree, Control, Idle,
        Serving, Journaled, Requested, LauncherPC
  <1>3. CASE Stage
    BY <1>0, <1>3 DEF Stage, history, WebOnly, Control, Idle, Serving,
        Journaled, Requested, LauncherPC
  <1>4. CASE HandOff
    BY <1>0, <1>4 DEF HandOff, history, WebOnly, Control, Idle, Serving,
        Journaled, Requested, LauncherPC
  <1>5. CASE FailInstall
    BY <1>0, <1>5 DEF FailInstall, history, WebOnly, Control, Idle, Serving,
        Journaled, Requested, LauncherPC
  <1>6. CASE ExitForUpdate
    BY <1>0, <1>6 DEF ExitForUpdate, disk, Control, Idle, Serving, Journaled,
        Requested, LauncherPC
  <1>7. CASE Resume
    BY <1>0, <1>7 DEF Resume, history, Step, LauncherOnly, Control, Idle,
        Serving, Journaled, Requested, LauncherPC
  <1>8. CASE Boot
    BY <1>0, <1>8 DEF Boot, history, Step, LauncherOnly, Control, Idle,
        Serving, Journaled, Requested, LauncherPC
  <1>9. CASE Keep
    BY <1>0, <1>9 DEF Keep, history, Step, LauncherOnly, Incompatible,
        Promoted, Control, Idle, Serving, Journaled, Requested, LauncherPC
  <1>10. CASE SwitchToImage
    <2>1. pending' # NoJournal
      BY <1>10, SwitchJournal, NoneOfThem
    <2>2. /\ launcher = "select" /\ launcher' = "record" /\ journal' = journal
          /\ lock' = lock /\ prog' = prog /\ web' = web
      BY <1>10 DEF SwitchToImage, Step, LauncherOnly
    <2>3. QED
      BY <1>0, <2>1, <2>2 DEF Control, Idle, Serving, Journaled, Requested
  <1>11. CASE Record
    BY <1>0, <1>11 DEF Record, history, Step, LauncherOnly, Control, Idle,
        Serving, Journaled, Requested, LauncherPC
  <1>12. CASE PassLock
    BY <1>0, <1>12 DEF PassLock, history, Step, LauncherOnly, Control, Idle,
        Serving, Journaled, Requested, LauncherPC
  <1>13. CASE GiveUp
    BY <1>0, <1>13 DEF GiveUp, history, Step, Halt, Control, Idle, Serving,
        Journaled, Requested, LauncherPC
  <1>14. CASE Prepare
    BY <1>0, <1>14 DEF Prepare, history, Step, LauncherOnly, Control, Idle,
        Serving, Journaled, Requested, LauncherPC
  <1>15. CASE Install
    BY <1>0, <1>15 DEF Install, history, Step, LauncherOnly, Control, Idle,
        Serving, Journaled, Requested, LauncherPC
  <1>16. CASE Switch
    BY <1>0, <1>16 DEF Switch, history, Step, LauncherOnly, Control, Idle,
        Serving, Journaled, Requested, LauncherPC
  <1>17. CASE Run
    BY <1>0, <1>17 DEF Run, history, Step, Control, Idle, Serving, Journaled,
        Requested, LauncherPC
  <1>18. CASE Healthy
    BY <1>0, <1>18 DEF Healthy, disk, Control, Idle, Serving, Journaled,
        Requested, LauncherPC
  <1>19. CASE Report
    BY <1>0, <1>19 DEF Report, history, Step, LauncherOnly, ReportedStatus,
        Outcome, Control, Idle, Serving, Journaled, Requested, LauncherPC
  <1>20. CASE Close
    BY <1>0, <1>20 DEF Close, history, Step, LauncherOnly, Control, Idle,
        Serving, Journaled, Requested, LauncherPC
  <1>21. CASE Release
    BY <1>0, <1>21 DEF Release, history, Step, LauncherOnly, Control, Idle,
        Serving, Journaled, Requested, LauncherPC
  <1>22. CASE LeaveOpen
    BY <1>0, <1>22 DEF LeaveOpen, disk, history, Step, LauncherOnly, Control,
        Idle, Serving, Journaled, Requested, LauncherPC
  <1>23. CASE Unhealthy
    <2>1. prog' = [prog EXCEPT !.at = "off"] /\ prog'.at = "off"
      BY <1>0, <1>23 DEF Unhealthy, Halt, TypeOK
    <2>2. /\ launcher = "watch" /\ web' = "idle"
          /\ journal' = journal /\ lock' = lock
          /\ \/ launcher' = "off" /\ pending' = NoJournal
             \/ launcher' = "undo" /\ pending' = pending /\ pending # NoJournal
      BY <1>23 DEF Unhealthy, Halt, Step
    <2>3. QED
      BY <1>0, <2>1, <2>2 DEF Control, Idle, Serving, Journaled, Requested
  <1>24. CASE Undo
    BY <1>0, <1>24 DEF Undo, history, Step, LauncherOnly, Control, Idle,
        Serving, Journaled, Requested, LauncherPC
  <1>25. CASE UndoMove
    BY <1>0, <1>25 DEF UndoMove, history, Step, LauncherOnly, Control, Idle,
        Serving, Journaled, Requested, LauncherPC
  <1>26. CASE UndoInstall
    BY <1>0, <1>26 DEF UndoInstall, history, Step, LauncherOnly, Control,
        Idle, Serving, Journaled, Requested, LauncherPC
  <1>27. CASE UndoRecord
    <2>1. /\ launcher = "undoRecord" /\ journal' = Backward /\ lock' = lock
          /\ \/ /\ launcher' = "off" /\ pending' = NoJournal /\ web' = "idle"
                /\ prog' = [prog EXCEPT !.at = "off"]
             \/ /\ launcher' = "run" /\ pending' = Backward
                /\ UNCHANGED <<prog, web>>
      BY <1>27 DEF UndoRecord, Halt, Step, LauncherOnly
    <2>2. prog'.at = "off" /\ web' = "idle"
      BY <1>0, <2>1 DEF Control, Serving, TypeOK
    <2>3. QED
      BY <1>0, <2>1, <2>2 DEF Control, Idle, Serving, Journaled, Requested
  <1>28. CASE UndoFails
    BY <1>0, <1>28 DEF UndoFails, history, Step, Halt, Outcome, Control, Idle,
        Serving, Journaled, Requested, LauncherPC
  <1>29. CASE Consume
    BY <1>0, <1>29 DEF Consume, history, LauncherOnly, Refuse, Control, Idle,
        Serving, Journaled, Requested, LauncherPC
  <1>30. CASE Finalize
    BY <1>0, <1>30 DEF Finalize, history, LauncherOnly, Refuse, Finalized,
        Control, Idle, Serving, Journaled, Requested, LauncherPC
  <1>31. CASE Apply
    <2>1. launcher = "apply" /\ prog' = prog /\ web' = web
      BY <1>31 DEF Apply, Refuse, LauncherOnly
    <2>2. CASE /\ launcher' = "applySwitch" /\ lock' = lock
               /\ pending' = Applied /\ journal' = Applied
      <3>1. Applied # NoJournal
        BY <2>1, InstallJournal, NoneOfThem
      <3>2. QED
        BY <1>0, <2>1, <2>2, <3>1
        DEF Control, Idle, Serving, Journaled, Requested
    <2>3. CASE /\ launcher' = "run" /\ lock' = "free"
               /\ pending' = pending /\ journal' = journal
      BY <1>0, <2>1, <2>3 DEF Control, Idle, Serving, Journaled, Requested
    <2>4. QED
      BY <1>31, <2>2, <2>3 DEF Apply, Refuse, RecordNow
  <1>32. CASE ApplySwitch
    BY <1>0, <1>32 DEF ApplySwitch, history, LauncherOnly, Control, Idle,
        Serving, Journaled, Requested, LauncherPC
  <1>33. CASE Stop
    BY <1>0, <1>33 DEF Stop, disk, history, Control, Idle, Serving, Journaled,
        Requested, LauncherPC
  <1>34. CASE ReplaceImage
    BY <1>0, <1>34 DEF ReplaceImage, memory, history, Control, Idle, Serving,
        Journaled, Requested, LauncherPC
  <1>35. QED
    BY <1>1, <1>2, <1>3, <1>4, <1>5, <1>6, <1>7, <1>8, <1>9, <1>10, <1>11,
        <1>12, <1>13, <1>14, <1>15, <1>16, <1>17, <1>18, <1>19, <1>20, <1>21,
        <1>22, <1>23, <1>24, <1>25, <1>26, <1>27, <1>28, <1>29, <1>30, <1>31,
        <1>32, <1>33, <1>34 DEF Next

LEMMA ShapesStep ==
  ASSUME IInv, Next
  PROVE  Shapes'
  <1>0. TypeOK /\ Control /\ Shapes
    BY DEF IInv
  <1>1. CASE Write
    BY <1>0, <1>1, NoneOfThem DEF Write, memory, history, Shapes, Control,
        Idle, Serving, Journaled, Requested, Valid, VersionAt,
        FirstInstallation, Runs, Resumable
  <1>2. CASE Begin
    BY <1>0, <1>2, NoneOfThem DEF Begin, history, WebOnly, BeginFree, Shapes,
        Control, Idle, Serving, Journaled, Requested, Valid, VersionAt,
        FirstInstallation, Runs, Resumable
  <1>3. CASE Stage
    BY <1>0, <1>3, NoneOfThem DEF Stage, history, WebOnly, Shapes, Control,
        Idle, Serving, Journaled, Requested, Valid, VersionAt,
        FirstInstallation, Runs, Resumable
  <1>4. CASE HandOff
    BY <1>0, <1>4, NoneOfThem DEF HandOff, history, WebOnly, Shapes, Control,
        Idle, Serving, Journaled, Requested, Valid, VersionAt,
        FirstInstallation, Runs, Resumable
  <1>5. CASE FailInstall
    BY <1>0, <1>5, NoneOfThem DEF FailInstall, history, WebOnly, Shapes,
        Control, Idle, Serving, Journaled, Requested, Valid, VersionAt,
        FirstInstallation, Runs, Resumable
  <1>6. CASE ExitForUpdate
    BY <1>0, <1>6, NoneOfThem DEF ExitForUpdate, disk, Shapes, Control, Idle,
        Serving, Journaled, Requested, Valid, VersionAt, FirstInstallation,
        Runs, Resumable
  <1>7. CASE Resume
    BY <1>0, <1>7, NoneOfThem DEF Resume, history, Step, LauncherOnly, Shapes,
        Control, Idle, Serving, Journaled, Requested, Valid, VersionAt,
        FirstInstallation, Runs, Resumable
  <1>8. CASE Boot
    BY <1>0, <1>8, NoneOfThem DEF Boot, history, Step, LauncherOnly, Shapes,
        Control, Idle, Serving, Journaled, Requested, Valid, VersionAt,
        FirstInstallation, Runs, Resumable
  <1>9. CASE Keep
    BY <1>0, <1>9, NoneOfThem DEF Keep, history, Step, LauncherOnly,
        Incompatible, Promoted, Shapes, Control, Idle, Serving, Journaled,
        Requested, Valid, VersionAt, FirstInstallation, Runs, Resumable
  <1>10. CASE SwitchToImage
    <2>1. journal' = NoJournal
      BY <1>0, <1>10, Zenon DEF SwitchToImage, Step, Control
    <2>2. QED
      BY <1>10, <2>1, SwitchJournal DEF Shapes
  <1>11. CASE Record
    BY <1>0, <1>11, NoneOfThem DEF Record, history, Step, LauncherOnly,
        Shapes, Control, Idle, Serving, Journaled, Requested, Valid,
        VersionAt, FirstInstallation, Runs, Resumable
  <1>12. CASE PassLock
    BY <1>0, <1>12, NoneOfThem DEF PassLock, history, Step, LauncherOnly,
        Shapes, Control, Idle, Serving, Journaled, Requested, Valid,
        VersionAt, FirstInstallation, Runs, Resumable
  <1>13. CASE GiveUp
    BY <1>0, <1>13, NoneOfThem DEF GiveUp, history, Step, Halt, Shapes,
        Control, Idle, Serving, Journaled, Requested, Valid, VersionAt,
        FirstInstallation, Runs, Resumable
  <1>14. CASE Prepare
    BY <1>0, <1>14, NoneOfThem DEF Prepare, history, Step, LauncherOnly,
        Shapes, Control, Idle, Serving, Journaled, Requested, Valid,
        VersionAt, FirstInstallation, Runs, Resumable
  <1>15. CASE Install
    BY <1>0, <1>15, NoneOfThem DEF Install, history, Step, LauncherOnly,
        Shapes, Control, Idle, Serving, Journaled, Requested, Valid,
        VersionAt, FirstInstallation, Runs, Resumable
  <1>16. CASE Switch
    BY <1>0, <1>16, NoneOfThem DEF Switch, history, Step, LauncherOnly,
        Shapes, Control, Idle, Serving, Journaled, Requested, Valid,
        VersionAt, FirstInstallation, Runs, Resumable
  <1>17. CASE Run
    BY <1>0, <1>17, NoneOfThem DEF Run, history, Step, Shapes, Control, Idle,
        Serving, Journaled, Requested, Valid, VersionAt, FirstInstallation,
        Runs, Resumable
  <1>18. CASE Healthy
    BY <1>0, <1>18, NoneOfThem DEF Healthy, disk, Shapes, Control, Idle,
        Serving, Journaled, Requested, Valid, VersionAt, FirstInstallation,
        Runs, Resumable
  <1>19. CASE Report
    BY <1>0, <1>19, NoneOfThem DEF Report, history, Step, LauncherOnly,
        ReportedStatus, Outcome, Shapes, Control, Idle, Serving, Journaled,
        Requested, Valid, VersionAt, FirstInstallation, Runs, Resumable
  <1>20. CASE Close
    BY <1>0, <1>20, NoneOfThem DEF Close, history, Step, LauncherOnly, Shapes,
        Control, Idle, Serving, Journaled, Requested, Valid, VersionAt,
        FirstInstallation, Runs, Resumable
  <1>21. CASE Release
    BY <1>0, <1>21, NoneOfThem DEF Release, history, Step, LauncherOnly,
        Shapes, Control, Idle, Serving, Journaled, Requested, Valid,
        VersionAt, FirstInstallation, Runs, Resumable
  <1>22. CASE LeaveOpen
    BY <1>0, <1>22, NoneOfThem DEF LeaveOpen, disk, history, Step,
        LauncherOnly, Shapes, Control, Idle, Serving, Journaled, Requested,
        Valid, VersionAt, FirstInstallation, Runs, Resumable
  <1>23. CASE Unhealthy
    BY <1>0, <1>23, NoneOfThem DEF Unhealthy, history, Step, Halt, Outcome,
        Shapes, Control, Idle, Serving, Journaled, Requested, Valid,
        VersionAt, FirstInstallation, Runs, Resumable
  <1>24. CASE Undo
    BY <1>0, <1>24, NoneOfThem DEF Undo, history, Step, LauncherOnly, Shapes,
        Control, Idle, Serving, Journaled, Requested, Valid, VersionAt,
        FirstInstallation, Runs, Resumable
  <1>25. CASE UndoMove
    BY <1>0, <1>25, NoneOfThem DEF UndoMove, history, Step, LauncherOnly,
        Shapes, Control, Idle, Serving, Journaled, Requested, Valid,
        VersionAt, FirstInstallation, Runs, Resumable
  <1>26. CASE UndoInstall
    BY <1>0, <1>26, NoneOfThem DEF UndoInstall, history, Step, LauncherOnly,
        Shapes, Control, Idle, Serving, Journaled, Requested, Valid,
        VersionAt, FirstInstallation, Runs, Resumable
  <1>27. CASE UndoRecord
    <2>1. /\ launcher = "undoRecord" /\ journal' = Backward /\ image' = image
          /\ pending' \in {Backward, NoJournal}
      BY <1>27 DEF UndoRecord, Halt
    <2>2. Shape(Backward) /\ (Valid(Backward) \/ FirstInstallation(Backward))
      BY <2>1, BackwardJournal
    <2>3. QED
      BY <2>1, <2>2 DEF Shapes, Valid, VersionAt, Runs
  <1>28. CASE UndoFails
    BY <1>0, <1>28, NoneOfThem DEF UndoFails, history, Step, Halt, Outcome,
        Shapes, Control, Idle, Serving, Journaled, Requested, Valid,
        VersionAt, FirstInstallation, Runs, Resumable
  <1>29. CASE Consume
    BY <1>0, <1>29, NoneOfThem DEF Consume, history, LauncherOnly, Refuse,
        Shapes, Control, Idle, Serving, Journaled, Requested, Valid,
        VersionAt, FirstInstallation, Runs, Resumable
  <1>30. CASE Finalize
    BY <1>0, <1>30, NoneOfThem DEF Finalize, history, LauncherOnly, Refuse,
        Finalized, Shapes, Control, Idle, Serving, Journaled, Requested,
        Valid, VersionAt, FirstInstallation, Runs, Resumable
  <1>31. CASE Apply
    <2>1. CASE launcher = "apply" /\ journal' = Applied /\ pending' = Applied /\ image' = image
      <3>1. Shape(Applied) /\ (Valid(Applied) \/ FirstInstallation(Applied))
        BY <2>1, InstallJournal
      <3>2. QED
        BY <2>1, <3>1 DEF Shapes, Valid, VersionAt, Runs
    <2>2. CASE journal' = journal /\ pending' = pending /\ image' = image
      BY <1>0, <2>2 DEF Shapes, Valid, VersionAt, FirstInstallation, Runs
    <2>3. QED
      BY <1>31, <2>1, <2>2 DEF Apply, Refuse, RecordNow
  <1>32. CASE ApplySwitch
    BY <1>0, <1>32, NoneOfThem DEF ApplySwitch, history, LauncherOnly, Shapes,
        Control, Idle, Serving, Journaled, Requested, Valid, VersionAt,
        FirstInstallation, Runs, Resumable
  <1>33. CASE Stop
    BY <1>0, <1>33, NoneOfThem DEF Stop, disk, history, Shapes, Control, Idle,
        Serving, Journaled, Requested, Valid, VersionAt, FirstInstallation,
        Runs, Resumable
  <1>34. CASE ReplaceImage
    BY <1>0, <1>34, NoneOfThem DEF ReplaceImage, memory, history, Shapes,
        Control, Idle, Serving, Journaled, Requested, Valid, VersionAt,
        FirstInstallation, Runs, Resumable
  <1>35. QED
    BY <1>1, <1>2, <1>3, <1>4, <1>5, <1>6, <1>7, <1>8, <1>9, <1>10, <1>11,
        <1>12, <1>13, <1>14, <1>15, <1>16, <1>17, <1>18, <1>19, <1>20, <1>21,
        <1>22, <1>23, <1>24, <1>25, <1>26, <1>27, <1>28, <1>29, <1>30, <1>31,
        <1>32, <1>33, <1>34 DEF Next

LEMMA AsRequestedStep ==
  ASSUME IInv, Next
  PROVE  AsRequested'
  <1>0. Control /\ AsRequested
    BY DEF IInv
  <1>1. CASE Write
    <2>1. /\ UNCHANGED <<image, link, request>>
          /\ web' \in {"staged", "handed"} \/ launcher' \in Requested
               => web \in {"staged", "handed"} \/ launcher \in Requested
      BY <1>1 DEF Write, memory, history, Requested
    <2>2. QED
      BY <1>0, <2>1, RequestUnchanged
  <1>2. CASE Begin
    BY <1>0, <1>2 DEF Begin, history, WebOnly, BeginFree, AsRequested,
        Control, Idle, Serving, Journaled, Requested, VersionAt
  <1>3. CASE Stage
    <2>1. PICK v \in Version :
            /\ v > VersionAt(prog.dir) /\ Runs(v)
            /\ request' = [from |-> VersionAt(prog.dir), to |-> v, exe |-> prog.dir]
      BY <1>3 DEF Stage
    <2>2. image' = image /\ link' = link /\ prog.dir = link
      BY <1>0, <1>3 DEF Stage, WebOnly, Control, Serving
    <2>3. VersionAt(link) \in Version
      BY Directories DEF IInv, TypeOK, Dir, VersionAt
    <2>4. /\ request'.from = VersionAt(link) /\ request'.exe = link /\ request'.to = v
          /\ request' \in Request
      BY <2>1, <2>2, <2>3 DEF Request, IInv, TypeOK
    <2>5. request'.from < request'.to /\ Runs(request'.to)
      BY <2>1, <2>2, <2>3, <2>4 DEF Version
    <2>6. QED
      BY <2>2, <2>4, <2>5, NoneOfThem DEF AsRequested, VersionAt, Runs
  <1>4. CASE HandOff
    <2>1. /\ UNCHANGED <<image, link, request>>
          /\ web' \in {"staged", "handed"} \/ launcher' \in Requested
               => web \in {"staged", "handed"} \/ launcher \in Requested
      BY <1>4 DEF HandOff, history, WebOnly, Requested
    <2>2. QED
      BY <1>0, <2>1, RequestUnchanged
  <1>5. CASE FailInstall
    BY <1>0, <1>5 DEF FailInstall, history, WebOnly, AsRequested, Control,
        Idle, Serving, Journaled, Requested, VersionAt
  <1>6. CASE ExitForUpdate
    <2>1. /\ UNCHANGED <<image, link, request>>
          /\ web' \in {"staged", "handed"} \/ launcher' \in Requested
               => web \in {"staged", "handed"} \/ launcher \in Requested
      BY <1>6 DEF ExitForUpdate, disk, Requested
    <2>2. QED
      BY <1>0, <2>1, RequestUnchanged
  <1>7. CASE Resume
    BY <1>0, <1>7 DEF Resume, history, Step, LauncherOnly, AsRequested,
        Control, Idle, Serving, Journaled, Requested, VersionAt
  <1>8. CASE Boot
    BY <1>0, <1>8 DEF Boot, history, Step, LauncherOnly, AsRequested, Control,
        Idle, Serving, Journaled, Requested, VersionAt
  <1>9. CASE Keep
    BY <1>0, <1>9 DEF Keep, history, Step, LauncherOnly, Incompatible,
        Promoted, AsRequested, Control, Idle, Serving, Journaled, Requested,
        VersionAt
  <1>10. CASE SwitchToImage
    BY <1>0, <1>10 DEF SwitchToImage, Step, LauncherOnly, Incompatible,
        Promoted, FallsBack, AsRequested, Control, Idle, Serving, Journaled,
        Requested, VersionAt
  <1>11. CASE Record
    BY <1>0, <1>11 DEF Record, history, Step, LauncherOnly, AsRequested,
        Control, Idle, Serving, Journaled, Requested, VersionAt
  <1>12. CASE PassLock
    BY <1>0, <1>12 DEF PassLock, history, Step, LauncherOnly, AsRequested,
        Control, Idle, Serving, Journaled, Requested, VersionAt
  <1>13. CASE GiveUp
    BY <1>0, <1>13 DEF GiveUp, history, Step, Halt, AsRequested, Control,
        Idle, Serving, Journaled, Requested, VersionAt
  <1>14. CASE Prepare
    BY <1>0, <1>14 DEF Prepare, history, Step, LauncherOnly, AsRequested,
        Control, Idle, Serving, Journaled, Requested, VersionAt
  <1>15. CASE Install
    BY <1>0, <1>15 DEF Install, history, Step, LauncherOnly, AsRequested,
        Control, Idle, Serving, Journaled, Requested, VersionAt
  <1>16. CASE Switch
    BY <1>0, <1>16 DEF Switch, history, Step, LauncherOnly, AsRequested,
        Control, Idle, Serving, Journaled, Requested, VersionAt
  <1>17. CASE Run
    BY <1>0, <1>17 DEF Run, history, Step, AsRequested, Control, Idle,
        Serving, Journaled, Requested, VersionAt
  <1>18. CASE Healthy
    <2>1. /\ UNCHANGED <<image, link, request>>
          /\ web' \in {"staged", "handed"} \/ launcher' \in Requested
               => web \in {"staged", "handed"} \/ launcher \in Requested
      BY <1>18 DEF Healthy, disk, Requested
    <2>2. QED
      BY <1>0, <2>1, RequestUnchanged
  <1>19. CASE Report
    BY <1>0, <1>19 DEF Report, history, Step, LauncherOnly, ReportedStatus,
        Outcome, AsRequested, Control, Idle, Serving, Journaled, Requested,
        VersionAt
  <1>20. CASE Close
    BY <1>0, <1>20 DEF Close, history, Step, LauncherOnly, AsRequested,
        Control, Idle, Serving, Journaled, Requested, VersionAt
  <1>21. CASE Release
    BY <1>0, <1>21 DEF Release, history, Step, LauncherOnly, AsRequested,
        Control, Idle, Serving, Journaled, Requested, VersionAt
  <1>22. CASE LeaveOpen
    BY <1>0, <1>22 DEF LeaveOpen, disk, history, Step, LauncherOnly,
        AsRequested, Control, Idle, Serving, Journaled, Requested, VersionAt
  <1>23. CASE Unhealthy
    BY <1>0, <1>23 DEF Unhealthy, history, Step, Halt, Outcome, AsRequested,
        Control, Idle, Serving, Journaled, Requested, VersionAt
  <1>24. CASE Undo
    BY <1>0, <1>24 DEF Undo, history, Step, LauncherOnly, AsRequested,
        Control, Idle, Serving, Journaled, Requested, VersionAt
  <1>25. CASE UndoMove
    BY <1>0, <1>25 DEF UndoMove, history, Step, LauncherOnly, AsRequested,
        Control, Idle, Serving, Journaled, Requested, VersionAt
  <1>26. CASE UndoInstall
    BY <1>0, <1>26 DEF UndoInstall, history, Step, LauncherOnly, AsRequested,
        Control, Idle, Serving, Journaled, Requested, VersionAt
  <1>27. CASE UndoRecord
    BY <1>0, <1>27 DEF UndoRecord, history, Step, Halt, LauncherOnly,
        Backward, AsRequested, Control, Idle, Serving, Journaled, Requested,
        VersionAt
  <1>28. CASE UndoFails
    BY <1>0, <1>28 DEF UndoFails, history, Step, Halt, Outcome, AsRequested,
        Control, Idle, Serving, Journaled, Requested, VersionAt
  <1>29. CASE Consume
    <2>1. /\ UNCHANGED <<image, link, request>>
          /\ web' \in {"staged", "handed"} \/ launcher' \in Requested
               => web \in {"staged", "handed"} \/ launcher \in Requested
      BY <1>29 DEF Consume, history, LauncherOnly, Refuse, Requested
    <2>2. QED
      BY <1>0, <2>1, RequestUnchanged
  <1>30. CASE Finalize
    <2>1. /\ UNCHANGED <<image, link, request>>
          /\ web' \in {"staged", "handed"} \/ launcher' \in Requested
               => web \in {"staged", "handed"} \/ launcher \in Requested
      BY <1>30 DEF Finalize, history, LauncherOnly, Refuse, Requested
    <2>2. QED
      BY <1>0, <2>1, RequestUnchanged
  <1>31. CASE Apply
    <2>1. /\ UNCHANGED <<image, link, request>>
          /\ web' \in {"staged", "handed"} \/ launcher' \in Requested
               => web \in {"staged", "handed"} \/ launcher \in Requested
      BY <1>31 DEF Apply, history, LauncherOnly, Refuse, Requested
    <2>2. QED
      BY <1>0, <2>1, RequestUnchanged
  <1>32. CASE ApplySwitch
    BY <1>0, <1>32 DEF ApplySwitch, history, LauncherOnly, AsRequested,
        Control, Idle, Serving, Journaled, Requested, VersionAt
  <1>33. CASE Stop
    BY <1>0, <1>33 DEF Stop, disk, history, AsRequested, Control, Idle,
        Serving, Journaled, Requested, VersionAt
  <1>34. CASE ReplaceImage
    BY <1>0, <1>34 DEF ReplaceImage, memory, history, AsRequested, Control,
        Idle, Serving, Journaled, Requested, VersionAt
  <1>35. QED
    BY <1>1, <1>2, <1>3, <1>4, <1>5, <1>6, <1>7, <1>8, <1>9, <1>10, <1>11,
        <1>12, <1>13, <1>14, <1>15, <1>16, <1>17, <1>18, <1>19, <1>20, <1>21,
        <1>22, <1>23, <1>24, <1>25, <1>26, <1>27, <1>28, <1>29, <1>30, <1>31,
        <1>32, <1>33, <1>34 DEF Next

LEMMA ApplyingStep ==
  ASSUME IInv, Next
  PROVE  Applying'
  <1>0. Control /\ Applying
    BY DEF IInv
  <1>1. CASE Write
    BY <1>0, <1>1 DEF Write, memory, history, Applying, Control, Requested
  <1>2. CASE Begin
    BY <1>0, <1>2 DEF Begin, history, WebOnly, BeginFree, Applying, Control,
        Requested
  <1>3. CASE Stage
    BY <1>0, <1>3 DEF Stage, history, WebOnly, Applying, Control, Requested
  <1>4. CASE HandOff
    BY <1>0, <1>4 DEF HandOff, history, WebOnly, Applying, Control, Requested
  <1>5. CASE FailInstall
    BY <1>0, <1>5 DEF FailInstall, history, WebOnly, Applying, Control,
        Requested
  <1>6. CASE ExitForUpdate
    BY <1>0, <1>6 DEF ExitForUpdate, disk, Applying, Control, Requested
  <1>7. CASE Resume
    BY <1>0, <1>7 DEF Resume, history, Step, LauncherOnly, Applying, Control,
        Requested
  <1>8. CASE Boot
    BY <1>0, <1>8 DEF Boot, history, Step, LauncherOnly, Applying, Control,
        Requested
  <1>9. CASE Keep
    BY <1>0, <1>9 DEF Keep, history, Step, LauncherOnly, Incompatible,
        Promoted, Applying, Control, Requested
  <1>10. CASE SwitchToImage
    BY <1>0, <1>10 DEF SwitchToImage, Step, LauncherOnly, Incompatible,
        Promoted, FallsBack, Applying, Control, Requested
  <1>11. CASE Record
    BY <1>0, <1>11 DEF Record, history, Step, LauncherOnly, Applying, Control,
        Requested
  <1>12. CASE PassLock
    BY <1>0, <1>12 DEF PassLock, history, Step, LauncherOnly, Applying,
        Control, Requested
  <1>13. CASE GiveUp
    BY <1>0, <1>13 DEF GiveUp, history, Step, Halt, Applying, Control,
        Requested
  <1>14. CASE Prepare
    BY <1>0, <1>14 DEF Prepare, history, Step, LauncherOnly, Applying,
        Control, Requested
  <1>15. CASE Install
    BY <1>0, <1>15 DEF Install, history, Step, LauncherOnly, Applying,
        Control, Requested
  <1>16. CASE Switch
    BY <1>0, <1>16 DEF Switch, history, Step, LauncherOnly, Applying, Control,
        Requested
  <1>17. CASE Run
    BY <1>0, <1>17 DEF Run, history, Step, Applying, Control, Requested
  <1>18. CASE Healthy
    BY <1>0, <1>18 DEF Healthy, disk, Applying, Control, Requested
  <1>19. CASE Report
    BY <1>0, <1>19 DEF Report, history, Step, LauncherOnly, ReportedStatus,
        Outcome, Applying, Control, Requested
  <1>20. CASE Close
    BY <1>0, <1>20 DEF Close, history, Step, LauncherOnly, Applying, Control,
        Requested
  <1>21. CASE Release
    BY <1>0, <1>21 DEF Release, history, Step, LauncherOnly, Applying,
        Control, Requested
  <1>22. CASE LeaveOpen
    BY <1>0, <1>22 DEF LeaveOpen, disk, history, Step, LauncherOnly, Applying,
        Control, Requested
  <1>23. CASE Unhealthy
    BY <1>0, <1>23 DEF Unhealthy, history, Step, Halt, Outcome, Applying,
        Control, Requested
  <1>24. CASE Undo
    BY <1>0, <1>24 DEF Undo, history, Step, LauncherOnly, Applying, Control,
        Requested
  <1>25. CASE UndoMove
    BY <1>0, <1>25 DEF UndoMove, history, Step, LauncherOnly, Applying,
        Control, Requested
  <1>26. CASE UndoInstall
    BY <1>0, <1>26 DEF UndoInstall, history, Step, LauncherOnly, Applying,
        Control, Requested
  <1>27. CASE UndoRecord
    BY <1>0, <1>27 DEF UndoRecord, history, Step, Halt, LauncherOnly,
        Backward, Applying, Control, Requested
  <1>28. CASE UndoFails
    BY <1>0, <1>28 DEF UndoFails, history, Step, Halt, Outcome, Applying,
        Control, Requested
  <1>29. CASE Consume
    BY <1>0, <1>29 DEF Consume, history, LauncherOnly, Refuse, Applying,
        Control, Requested
  <1>30. CASE Finalize
    BY <1>0, <1>30 DEF Finalize, history, LauncherOnly, Refuse, Finalized,
        Applying, Control, Requested
  <1>31. CASE Apply
    BY <1>0, <1>31 DEF Apply, history, LauncherOnly, Refuse, Applied,
        RecordNow, Applying, Control, Requested
  <1>32. CASE ApplySwitch
    BY <1>0, <1>32 DEF ApplySwitch, history, LauncherOnly, Applying, Control,
        Requested
  <1>33. CASE Stop
    BY <1>0, <1>33 DEF Stop, disk, history, Applying, Control, Requested
  <1>34. CASE ReplaceImage
    BY <1>0, <1>34 DEF ReplaceImage, memory, history, Applying, Control,
        Requested
  <1>35. QED
    BY <1>1, <1>2, <1>3, <1>4, <1>5, <1>6, <1>7, <1>8, <1>9, <1>10, <1>11,
        <1>12, <1>13, <1>14, <1>15, <1>16, <1>17, <1>18, <1>19, <1>20, <1>21,
        <1>22, <1>23, <1>24, <1>25, <1>26, <1>27, <1>28, <1>29, <1>30, <1>31,
        <1>32, <1>33, <1>34 DEF Next

LEMMA LinkedStep ==
  ASSUME IInv, Next
  PROVE  Linked'
  <1>0. TypeOK /\ Control /\ Linked /\ Shapes
    BY DEF IInv
  <1>1. CASE Write
    BY <1>0, <1>1 DEF Write, memory, history, Linked, Control, Shapes, Shape,
        Idle, Serving, Journaled, Requested
  <1>2. CASE Begin
    BY <1>0, <1>2 DEF Begin, history, WebOnly, BeginFree, Linked, Control,
        Shapes, Shape, Idle, Serving, Journaled, Requested
  <1>3. CASE Stage
    BY <1>0, <1>3 DEF Stage, history, WebOnly, Linked, Control, Shapes, Shape,
        Idle, Serving, Journaled, Requested
  <1>4. CASE HandOff
    BY <1>0, <1>4 DEF HandOff, history, WebOnly, Linked, Control, Shapes,
        Shape, Idle, Serving, Journaled, Requested
  <1>5. CASE FailInstall
    BY <1>0, <1>5 DEF FailInstall, history, WebOnly, Linked, Control, Shapes,
        Shape, Idle, Serving, Journaled, Requested
  <1>6. CASE ExitForUpdate
    BY <1>0, <1>6 DEF ExitForUpdate, disk, Linked, Control, Shapes, Shape,
        Idle, Serving, Journaled, Requested
  <1>7. CASE Resume
    BY <1>0, <1>7 DEF Resume, history, Step, LauncherOnly, Linked, Control,
        Shapes, Shape, Idle, Serving, Journaled, Requested
  <1>8. CASE Boot
    BY <1>0, <1>8 DEF Boot, history, Step, LauncherOnly, Linked, Control,
        Shapes, Shape, Idle, Serving, Journaled, Requested
  <1>9. CASE Keep
    BY <1>0, <1>9 DEF Keep, history, Step, LauncherOnly, Incompatible,
        Promoted, Linked, Control, Shapes, Shape, Idle, Serving, Journaled,
        Requested
  <1>10. CASE SwitchToImage
    BY <1>0, <1>10 DEF SwitchToImage, Step, LauncherOnly, Incompatible,
        Promoted, FallsBack, Linked, Control, Shapes, Shape, Idle, Serving,
        Journaled, Requested
  <1>11. CASE Record
    BY <1>0, <1>11 DEF Record, history, Step, LauncherOnly, Linked, Control,
        Shapes, Shape, Idle, Serving, Journaled, Requested
  <1>12. CASE PassLock
    BY <1>0, <1>12 DEF PassLock, history, Step, LauncherOnly, Linked, Control,
        Shapes, Shape, Idle, Serving, Journaled, Requested
  <1>13. CASE GiveUp
    BY <1>0, <1>13 DEF GiveUp, history, Step, Halt, Linked, Control, Shapes,
        Shape, Idle, Serving, Journaled, Requested
  <1>14. CASE Prepare
    BY <1>0, <1>14 DEF Prepare, history, Step, LauncherOnly, Linked, Control,
        Shapes, Shape, Idle, Serving, Journaled, Requested
  <1>15. CASE Install
    BY <1>0, <1>15 DEF Install, history, Step, LauncherOnly, Linked, Control,
        Shapes, Shape, Idle, Serving, Journaled, Requested
  <1>16. CASE Switch
    BY <1>0, <1>16 DEF Switch, history, Step, LauncherOnly, Linked, Control,
        Shapes, Shape, Idle, Serving, Journaled, Requested
  <1>17. CASE Run
    BY <1>0, <1>17 DEF Run, history, Step, Linked, Control, Shapes, Shape,
        Idle, Serving, Journaled, Requested
  <1>18. CASE Healthy
    BY <1>0, <1>18 DEF Healthy, disk, Linked, Control, Shapes, Shape, Idle,
        Serving, Journaled, Requested
  <1>19. CASE Report
    BY <1>0, <1>19 DEF Report, history, Step, LauncherOnly, ReportedStatus,
        Outcome, Linked, Control, Shapes, Shape, Idle, Serving, Journaled,
        Requested
  <1>20. CASE Close
    BY <1>0, <1>20 DEF Close, history, Step, LauncherOnly, Linked, Control,
        Shapes, Shape, Idle, Serving, Journaled, Requested
  <1>21. CASE Release
    BY <1>0, <1>21 DEF Release, history, Step, LauncherOnly, Linked, Control,
        Shapes, Shape, Idle, Serving, Journaled, Requested
  <1>22. CASE LeaveOpen
    BY <1>0, <1>22 DEF LeaveOpen, disk, history, Step, LauncherOnly, Linked,
        Control, Shapes, Shape, Idle, Serving, Journaled, Requested
  <1>23. CASE Unhealthy
    BY <1>0, <1>23 DEF Unhealthy, history, Step, Halt, Outcome, Linked,
        Control, Shapes, Shape, Idle, Serving, Journaled, Requested
  <1>24. CASE Undo
    BY <1>0, <1>24 DEF Undo, history, Step, LauncherOnly, Linked, Control,
        Shapes, Shape, Idle, Serving, Journaled, Requested
  <1>25. CASE UndoMove
    BY <1>0, <1>25 DEF UndoMove, history, Step, LauncherOnly, Linked, Control,
        Shapes, Shape, Idle, Serving, Journaled, Requested
  <1>26. CASE UndoInstall
    BY <1>0, <1>26 DEF UndoInstall, history, Step, LauncherOnly, Linked,
        Control, Shapes, Shape, Idle, Serving, Journaled, Requested
  <1>27. CASE UndoRecord
    <2>1. /\ launcher = "undoRecord" /\ link' = link /\ launcher' \in {"off", "run"}
          /\ launcher' = "run" => pending' = Backward
      BY <1>27 DEF UndoRecord, Halt, Step
    <2>2. QED
      BY <2>1, BackwardJournal DEF Linked
  <1>28. CASE UndoFails
    BY <1>0, <1>28 DEF UndoFails, history, Step, Halt, Outcome, Linked,
        Control, Shapes, Shape, Idle, Serving, Journaled, Requested
  <1>29. CASE Consume
    BY <1>0, <1>29 DEF Consume, history, LauncherOnly, Refuse, Linked,
        Control, Shapes, Shape, Idle, Serving, Journaled, Requested
  <1>30. CASE Finalize
    BY <1>0, <1>30 DEF Finalize, history, LauncherOnly, Refuse, Finalized,
        Linked, Control, Shapes, Shape, Idle, Serving, Journaled, Requested
  <1>31. CASE Apply
    BY <1>0, <1>31 DEF Apply, history, LauncherOnly, Refuse, Applied,
        RecordNow, Linked, Control, Shapes, Shape, Idle, Serving, Journaled,
        Requested
  <1>32. CASE ApplySwitch
    BY <1>0, <1>32 DEF ApplySwitch, history, LauncherOnly, Linked, Control,
        Shapes, Shape, Idle, Serving, Journaled, Requested
  <1>33. CASE Stop
    BY <1>0, <1>33 DEF Stop, disk, history, Linked, Control, Shapes, Shape,
        Idle, Serving, Journaled, Requested
  <1>34. CASE ReplaceImage
    BY <1>0, <1>34 DEF ReplaceImage, memory, history, Linked, Control, Shapes,
        Shape, Idle, Serving, Journaled, Requested
  <1>35. QED
    BY <1>1, <1>2, <1>3, <1>4, <1>5, <1>6, <1>7, <1>8, <1>9, <1>10, <1>11,
        <1>12, <1>13, <1>14, <1>15, <1>16, <1>17, <1>18, <1>19, <1>20, <1>21,
        <1>22, <1>23, <1>24, <1>25, <1>26, <1>27, <1>28, <1>29, <1>30, <1>31,
        <1>32, <1>33, <1>34 DEF Next

LEMMA RestoresStep ==
  ASSUME IInv, Next
  PROVE  Restores'
  <1>0. TypeOK /\ Control /\ Shapes /\ Linked /\ AsRequested /\ Restores
    BY DEF IInv
  <1>1. CASE Write
    <2>1. /\ launcher \in Serving /\ UNCHANGED <<launcher, pending, journal, backup, request, stopped>>
          /\ db' = [db EXCEPT !.writes = @ + 1]
      BY <1>0, <1>1 DEF Write, Control, memory, history
    <2>2. db'.writes >= db.writes /\ db.writes \in Nat /\ db'.writes \in Nat /\ stopped.writes \in Nat
      <3>1. db \in Content /\ stopped \in Content /\ db'.writes = db.writes + 1
        BY <1>0, <2>1 DEF TypeOK, Content
      <3>2. QED
        BY <3>1, Contents
    <2>3. db.writes >= stopped.writes => db'.writes >= stopped.writes
      BY <2>2
    <2>4. QED
      BY <1>0, <2>1, <2>3 DEF Restores, Restorable, Serving
  <1>2. CASE Begin
    BY <1>0, <1>2 DEF Begin, history, WebOnly, BeginFree, Restores,
        Restorable, Control, Idle, Serving, Journaled, Requested
  <1>3. CASE Stage
    BY <1>0, <1>3 DEF Stage, history, WebOnly, Restores, Restorable, Control,
        Idle, Serving, Journaled, Requested
  <1>4. CASE HandOff
    BY <1>0, <1>4 DEF HandOff, history, WebOnly, Restores, Restorable,
        Control, Idle, Serving, Journaled, Requested
  <1>5. CASE FailInstall
    BY <1>0, <1>5 DEF FailInstall, history, WebOnly, Restores, Restorable,
        Control, Idle, Serving, Journaled, Requested
  <1>6. CASE ExitForUpdate
    BY <1>0, <1>6 DEF ExitForUpdate, disk, Restores, Restorable, Control,
        Idle, Serving, Journaled, Requested
  <1>7. CASE Resume
    BY <1>0, <1>7 DEF Resume, history, Step, LauncherOnly, Restores,
        Restorable, Control, Idle, Serving, Journaled, Requested
  <1>8. CASE Boot
    BY <1>0, <1>8 DEF Boot, history, Step, LauncherOnly, Restores, Restorable,
        Control, Idle, Serving, Journaled, Requested
  <1>9. CASE Keep
    BY <1>0, <1>9 DEF Keep, history, Step, LauncherOnly, Incompatible,
        Promoted, Restores, Restorable, Control, Idle, Serving, Journaled,
        Requested
  <1>10. CASE SwitchToImage
    <2>1. /\ launcher = "select" /\ launcher' = "record" /\ journal' = journal
          /\ journal = NoJournal /\ db' = db
      BY <1>0, <1>10 DEF SwitchToImage, Step, Control
    <2>2. /\ backup'[pending'.backup] = db /\ stopped' = db /\ ~pending'.recovery
          /\ pending'.from = link
      BY <1>10, SwitchJournal
    <2>3. db.by <= link
      <3>1. Readable /\ link # Image
        BY <1>0, <1>10 DEF IInv, SwitchToImage, Incompatible, Promoted
      <3>2. QED
        BY <2>1, <3>1 DEF Readable, VersionAt
    <2>4. QED
      BY <2>1, <2>2, <2>3 DEF Restores, Restorable
  <1>11. CASE Record
    BY <1>0, <1>11 DEF Record, history, Step, LauncherOnly, Restores,
        Restorable, Control, Idle, Serving, Journaled, Requested
  <1>12. CASE PassLock
    BY <1>0, <1>12 DEF PassLock, history, Step, LauncherOnly, Restores,
        Restorable, Control, Idle, Serving, Journaled, Requested
  <1>13. CASE GiveUp
    BY <1>0, <1>13 DEF GiveUp, history, Step, Halt, Restores, Restorable,
        Control, Idle, Serving, Journaled, Requested
  <1>14. CASE Prepare
    <2>1. /\ launcher = "prepare" /\ launcher' \in {"install", "switch"}
          /\ UNCHANGED <<journal, pending, backup, stopped, request>>
          /\ launcher' = "install" => pending.targetDb
          /\ ~pending.targetDb => db' = db
      BY <1>14 DEF Prepare, Step, history
    <2>2. /\ pending # NoJournal /\ journal = pending
          /\ pending.targetDb => ~pending.recovery
      BY <1>0, <2>1 DEF Control, Journaled, Shapes, Shape
    <2>3. QED
      BY <1>0, <2>1, <2>2 DEF Restores, Restorable
  <1>15. CASE Install
    <2>1. /\ launcher = "install" /\ launcher' = "switch"
          /\ UNCHANGED <<journal, pending, backup, stopped, request>>
      BY <1>15 DEF Install, Step, history
    <2>2. pending # NoJournal /\ journal = pending /\ ~pending.recovery
      BY <1>0, <2>1 DEF Control, Journaled, Shapes, Shape, Restores
    <2>3. QED
      BY <1>0, <2>1, <2>2 DEF Restores, Restorable
  <1>16. CASE Switch
    BY <1>0, <1>16 DEF Switch, history, Step, LauncherOnly, Restores,
        Restorable, Control, Idle, Serving, Journaled, Requested
  <1>17. CASE Run
    <2>1. /\ launcher = "run" /\ launcher' = "watch"
          /\ UNCHANGED <<journal, pending, backup, stopped, request>>
          /\ db' = Opened(db, VersionAt(link))
      BY <1>17 DEF Run, Step, history
    <2>2. db'.writes = db.writes
      BY <1>0, <2>1, Opening, Directories DEF TypeOK, Dir, VersionAt
    <2>3. QED
      BY <1>0, <2>1, <2>2 DEF Restores, Restorable
  <1>18. CASE Healthy
    BY <1>0, <1>18 DEF Healthy, disk, Restores, Restorable, Control, Idle,
        Serving, Journaled, Requested
  <1>19. CASE Report
    BY <1>0, <1>19 DEF Report, history, Step, LauncherOnly, ReportedStatus,
        Outcome, Restores, Restorable, Control, Idle, Serving, Journaled,
        Requested
  <1>20. CASE Close
    BY <1>0, <1>20 DEF Close, history, Step, LauncherOnly, Restores,
        Restorable, Control, Idle, Serving, Journaled, Requested
  <1>21. CASE Release
    BY <1>0, <1>21 DEF Release, history, Step, LauncherOnly, Restores,
        Restorable, Control, Idle, Serving, Journaled, Requested
  <1>22. CASE LeaveOpen
    BY <1>0, <1>22 DEF LeaveOpen, disk, history, Step, LauncherOnly, Restores,
        Restorable, Control, Idle, Serving, Journaled, Requested
  <1>23. CASE Unhealthy
    BY <1>0, <1>23 DEF Unhealthy, history, Step, Halt, Outcome, Restores,
        Restorable, Control, Idle, Serving, Journaled, Requested
  <1>24. CASE Undo
    BY <1>0, <1>24 DEF Undo, history, Step, LauncherOnly, Restores,
        Restorable, Control, Idle, Serving, Journaled, Requested
  <1>25. CASE UndoMove
    <2>1. /\ launcher = "undoMove"
          /\ UNCHANGED <<journal, pending, backup, stopped, request>>
          /\ \/ launcher' = "undoInstall"
             \/ launcher' = "undoRecord" /\ pending.backup = NoBackup
      BY <1>25 DEF UndoMove, Step, history
    <2>2. pending # NoJournal /\ journal = pending /\ ~pending.recovery
      BY <1>0, <2>1 DEF Control, Journaled, Restores
    <2>3. pending.backup # NoBackup
      BY <1>0, <2>2, Directories DEF Shapes, Shape, Recovery, Image
    <2>4. QED
      BY <1>0, <2>1, <2>2, <2>3 DEF Restores, Restorable
  <1>26. CASE UndoInstall
    <2>1. /\ launcher = "undoInstall" /\ launcher' = "undoRecord"
          /\ UNCHANGED <<journal, pending, backup, stopped, request>>
          /\ db' = backup[pending.backup]
      BY <1>26 DEF UndoInstall, Step, history
    <2>2. pending # NoJournal /\ journal = pending /\ ~pending.recovery
      BY <1>0, <2>1 DEF Control, Journaled, Restores
    <2>3. db' = stopped
      BY <1>0, <2>1, <2>2 DEF Restores, Restorable
    <2>4. QED
      BY <1>0, <2>1, <2>2, <2>3 DEF Restores, Restorable
  <1>27. CASE UndoRecord
    <2>1. /\ launcher = "undoRecord" /\ launcher' \in {"off", "run"}
          /\ journal' = Backward /\ pending' \in {Backward, NoJournal}
          /\ UNCHANGED <<db, backup, stopped, request>>
      BY <1>27 DEF UndoRecord, Step, Halt, history
    <2>2. Restorable(Backward) /\ db = stopped
      BY <2>1, BackwardJournal
    <2>3. db.writes >= stopped.writes
      BY <1>0, <2>2, Contents DEF TypeOK
    <2>4. QED
      BY <2>1, <2>2, <2>3 DEF Restores, Restorable
  <1>28. CASE UndoFails
    BY <1>0, <1>28 DEF UndoFails, history, Step, Halt, Outcome, Restores,
        Restorable, Control, Idle, Serving, Journaled, Requested
  <1>29. CASE Consume
    BY <1>0, <1>29 DEF Consume, history, LauncherOnly, Refuse, Restores,
        Restorable, Control, Idle, Serving, Journaled, Requested
  <1>30. CASE Finalize
    <2>1. /\ launcher = "finalize" /\ db = stopped /\ journal = NoJournal
          /\ UNCHANGED <<db, journal, pending, stopped, request>>
      BY <1>0, <1>30 DEF Finalize, Refuse, history, Restores, Control, Idle
    <2>2. CASE launcher' = "run"
      BY <1>0, <2>1, <2>2 DEF Restores, Control, Idle
    <2>3. CASE launcher' = "apply" /\ backup' = Finalized
      <3>1. backup'[request.from] = db
        <4>1. backup \in [Dir -> Content] /\ request.from \in Dir
          <5>1. VersionAt(link) \in Version
            BY <1>0, Directories DEF TypeOK, Dir, VersionAt
          <5>2. QED
            BY <1>0, <2>1, <5>1, Directories DEF TypeOK, AsRequested, Requested
        <4>2. QED
          BY <2>3, <4>1 DEF Finalized
      <3>2. QED
        BY <1>0, <2>1, <2>3, <3>1 DEF Restores, Control, Idle
    <2>4. QED
      BY <1>30, <2>2, <2>3 DEF Finalize, Refuse
  <1>31. CASE Apply
    <2>1. /\ launcher = "apply"
          /\ UNCHANGED <<db, backup, stopped, request>>
      BY <1>31 DEF Apply, Refuse, history
    <2>2. CASE launcher' = "run" /\ UNCHANGED <<journal, pending>>
      BY <1>0, <2>1, <2>2 DEF Restores, Restorable
    <2>3. CASE launcher' = "applySwitch" /\ journal' = Applied /\ pending' = Applied
      BY <1>0, <2>1, <2>3, InstallJournal DEF Restores, Restorable
    <2>4. QED
      BY <1>31, <2>2, <2>3 DEF Apply, Refuse, RecordNow
  <1>32. CASE ApplySwitch
    BY <1>0, <1>32 DEF ApplySwitch, history, LauncherOnly, Restores,
        Restorable, Control, Idle, Serving, Journaled, Requested
  <1>33. CASE Stop
    BY <1>0, <1>33 DEF Stop, disk, history, Restores, Restorable, Control,
        Idle, Serving, Journaled, Requested
  <1>34. CASE ReplaceImage
    BY <1>0, <1>34 DEF ReplaceImage, memory, history, Restores, Restorable,
        Control, Idle, Serving, Journaled, Requested
  <1>35. QED
    BY <1>1, <1>2, <1>3, <1>4, <1>5, <1>6, <1>7, <1>8, <1>9, <1>10, <1>11,
        <1>12, <1>13, <1>14, <1>15, <1>16, <1>17, <1>18, <1>19, <1>20, <1>21,
        <1>22, <1>23, <1>24, <1>25, <1>26, <1>27, <1>28, <1>29, <1>30, <1>31,
        <1>32, <1>33, <1>34 DEF Next

LEMMA ReadableStep ==
  ASSUME IInv, Next
  PROVE  Readable'
  <1>0. TypeOK /\ Control /\ Shapes /\ Linked /\ AsRequested /\ Restores /\ Readable /\ Applying
    BY DEF IInv
  <1>1. CASE Write
    BY <1>0, <1>1, Directories DEF Write, memory, history, Readable, Control,
        Idle, Serving, Journaled, Requested, VersionAt
  <1>2. CASE Begin
    BY <1>0, <1>2, Directories DEF Begin, history, WebOnly, BeginFree,
        Readable, Control, Idle, Serving, Journaled, Requested, VersionAt
  <1>3. CASE Stage
    BY <1>0, <1>3, Directories DEF Stage, history, WebOnly, Readable, Control,
        Idle, Serving, Journaled, Requested, VersionAt
  <1>4. CASE HandOff
    BY <1>0, <1>4, Directories DEF HandOff, history, WebOnly, Readable,
        Control, Idle, Serving, Journaled, Requested, VersionAt
  <1>5. CASE FailInstall
    BY <1>0, <1>5, Directories DEF FailInstall, history, WebOnly, Readable,
        Control, Idle, Serving, Journaled, Requested, VersionAt
  <1>6. CASE ExitForUpdate
    BY <1>0, <1>6, Directories DEF ExitForUpdate, disk, Readable, Control,
        Idle, Serving, Journaled, Requested, VersionAt
  <1>7. CASE Resume
    BY <1>0, <1>7, Directories DEF Resume, history, Step, LauncherOnly,
        Readable, Control, Idle, Serving, Journaled, Requested, VersionAt
  <1>8. CASE Boot
    BY <1>0, <1>8, Directories DEF Boot, history, Step, LauncherOnly,
        Readable, Control, Idle, Serving, Journaled, Requested, VersionAt
  <1>9. CASE Keep
    BY <1>0, <1>9, Directories DEF Keep, history, Step, LauncherOnly,
        Incompatible, Promoted, Readable, Control, Idle, Serving, Journaled,
        Requested, VersionAt
  <1>10. CASE SwitchToImage
    <2>1. /\ launcher = "select" /\ launcher' = "record" /\ journal = NoJournal
          /\ UNCHANGED <<image, link, db, journal>>
      BY <1>0, <1>10 DEF SwitchToImage, Step, Control
    <2>2. \A v \in Version : backup'[v].by <= v
      BY <1>10, SwitchJournal
    <2>3. QED
      BY <1>0, <2>1, <2>2 DEF Readable, Serving, VersionAt
  <1>11. CASE Record
    <2>1. /\ launcher = "record" /\ launcher' = "handoff" /\ journal = NoJournal
          /\ journal' = pending /\ UNCHANGED <<image, link, db, backup>>
      BY <1>0, <1>11 DEF Record, Step, Control
    <2>2. /\ pending # NoJournal /\ link = pending.previous
          /\ pending.previous = pending.from
          /\ ~pending.noFallback => pending.from < pending.to
      BY <1>0, <2>1 DEF Control, Journaled, Linked, Shapes, Shape
    <2>3. /\ VersionAt(link) = pending.from
          /\ pending.from \in Nat /\ pending.to \in Nat
      BY <2>2, TargetVersion, Directories
    <2>4. db.by <= pending.from /\ db.by \in Nat
      BY <1>0, <2>1, <2>3, CurrentVersion DEF Readable
    <2>5. ~pending.noFallback => db.by <= pending.to
      BY <2>2, <2>3, <2>4
    <2>6. QED
      BY <1>0, <2>1, <2>2, <2>4, <2>5 DEF Readable, Serving
  <1>12. CASE PassLock
    BY <1>0, <1>12, Directories DEF PassLock, history, Step, LauncherOnly,
        Readable, Control, Idle, Serving, Journaled, Requested, VersionAt
  <1>13. CASE GiveUp
    BY <1>0, <1>13, Directories DEF GiveUp, history, Step, Halt, Readable,
        Control, Idle, Serving, Journaled, Requested, VersionAt
  <1>14. CASE Prepare
    <2>1. /\ launcher = "prepare" /\ launcher' \in {"install", "switch"}
          /\ UNCHANGED <<image, link, backup, journal, pending>>
          /\ \/ launcher' = "install" /\ pending.targetDb /\ db' = Missing
             \/ launcher' = "switch" /\ ~pending.targetDb /\ db' = db
      BY <1>14 DEF Prepare, Step
    <2>2. /\ pending # NoJournal /\ journal = pending
          /\ pending.targetDb <=> pending.noFallback /\ ~pending.recovery
      BY <1>0, <2>1 DEF Control, Journaled, Shapes, Shape
    <2>3. CASE launcher' = "install"
      BY <1>0, <2>1, <2>2, <2>3, TargetVersion DEF Readable, Serving, Missing
    <2>4. CASE launcher' = "switch"
      <3>1. ~pending.noFallback \/ pending.recovery
        BY <2>1, <2>2, <2>4
      <3>2. db.by <= VersionAt(pending.target)
        BY <1>0, <2>2, <3>1, TargetVersion DEF Readable
      <3>3. VersionAt(pending.target)' = VersionAt(pending.target)
        BY <2>1 DEF VersionAt
      <3>4. QED
        BY <1>0, <2>1, <2>2, <2>4, <3>2, <3>3 DEF Readable, Serving
    <2>5. QED
      BY <2>1, <2>3, <2>4
  <1>15. CASE Install
    <2>1. /\ launcher = "install" /\ launcher' = "switch"
          /\ UNCHANGED <<image, link, backup, journal, pending>>
          /\ db' = backup[pending.to]
      BY <1>15 DEF Install, Step
    <2>2. pending # NoJournal /\ journal = pending /\ ~pending.recovery
      BY <1>0, <2>1 DEF Control, Journaled, Shapes, Shape, Restores
    <2>3. pending.to \in Version /\ VersionAt(pending.target) = pending.to
      BY <2>2, TargetVersion
    <2>4. db'.by <= pending.to
      BY <1>0, <2>1, <2>3 DEF Readable
    <2>5. VersionAt(pending.target)' = VersionAt(pending.target)
      BY <2>1 DEF VersionAt
    <2>6. QED
      BY <1>0, <2>1, <2>2, <2>3, <2>4, <2>5 DEF Readable, Serving
  <1>16. CASE Switch
    BY <1>0, <1>16, Directories DEF Switch, history, Step, LauncherOnly,
        Readable, Control, Idle, Serving, Journaled, Requested, VersionAt
  <1>17. CASE Run
    <2>1. /\ launcher = "run" /\ launcher' = "watch"
          /\ UNCHANGED <<image, link, backup, journal, pending>>
          /\ db' = Opened(db, VersionAt(link))
      BY <1>17 DEF Run, Step
    <2>2. db.by <= VersionAt(link)
      BY <1>0, <2>1 DEF Readable
    <2>3. db'.by = VersionAt(link) /\ VersionAt(link) > 0
      BY <1>0, <2>1, <2>2, Opening, CurrentVersion DEF TypeOK, Version
    <2>4. journal = pending
      BY <1>0, <2>1 DEF Control
    <2>5. ASSUME journal # NoJournal
          PROVE  VersionAt(link) = IF journal.recovery THEN journal.from ELSE journal.to
      BY <1>0, <2>1, <2>4, <2>5, TargetVersion DEF Linked
    <2>6. VersionAt(link)' = VersionAt(link)
      BY <2>1 DEF VersionAt
    <2>7. ASSUME journal # NoJournal
          PROVE  /\ ~journal.recovery => db'.by <= journal.to
                 /\ journal.recovery => db'.by <= journal.from
      BY <1>0, <2>3, <2>5, <2>7, CurrentVersion
    <2>8. db'.by <= VersionAt(link)
      BY <1>0, <2>3, CurrentVersion
    <2>9. QED
      BY <1>0, <2>1, <2>3, <2>6, <2>7, <2>8 DEF Readable, Serving
  <1>18. CASE Healthy
    BY <1>0, <1>18, Directories DEF Healthy, disk, Readable, Control, Idle,
        Serving, Journaled, Requested, VersionAt
  <1>19. CASE Report
    BY <1>0, <1>19, Directories DEF Report, history, Step, LauncherOnly,
        ReportedStatus, Outcome, Readable, Control, Idle, Serving, Journaled,
        Requested, VersionAt
  <1>20. CASE Close
    <2>1. /\ launcher = "close" /\ launcher' = "release" /\ journal' = NoJournal
          /\ UNCHANGED <<image, link, db, backup>>
      BY <1>20 DEF Close, Step
    <2>2. db.by = VersionAt(link) /\ VersionAt(link) > 0
      BY <1>0, <2>1, CurrentVersion DEF Readable, Serving, Version
    <2>3. VersionAt(link)' = VersionAt(link)
      BY <2>1 DEF VersionAt
    <2>4. db.by > 0 /\ db.by <= VersionAt(link)
      BY <1>0, <2>2, CurrentVersion
    <2>5. QED
      BY <1>0, <2>1, <2>2, <2>3, <2>4 DEF Readable
  <1>21. CASE Release
    BY <1>0, <1>21, Directories DEF Release, history, Step, LauncherOnly,
        Readable, Control, Idle, Serving, Journaled, Requested, VersionAt
  <1>22. CASE LeaveOpen
    BY <1>0, <1>22, Directories DEF LeaveOpen, disk, history, Step,
        LauncherOnly, Readable, Control, Idle, Serving, Journaled, Requested,
        VersionAt
  <1>23. CASE Unhealthy
    BY <1>0, <1>23, Directories DEF Unhealthy, history, Step, Halt, Outcome,
        Readable, Control, Idle, Serving, Journaled, Requested, VersionAt
  <1>24. CASE Undo
    BY <1>0, <1>24, Directories DEF Undo, history, Step, LauncherOnly,
        Readable, Control, Idle, Serving, Journaled, Requested, VersionAt
  <1>25. CASE UndoMove
    <2>1. /\ launcher = "undoMove" /\ launcher' \in {"undoInstall", "undoRecord"}
          /\ UNCHANGED <<image, link, backup, journal, pending>>
          /\ db' \in {db, Missing}
      BY <1>25 DEF UndoMove, Step
    <2>2. pending # NoJournal /\ journal = pending
      BY <1>0, <2>1 DEF Control, Journaled
    <2>3. CASE db' = db
      BY <1>0, <2>1, <2>2, <2>3 DEF Readable, Serving
    <2>4. CASE db' = Missing
      BY <1>0, <2>1, <2>2, <2>4, TargetVersion DEF Readable, Serving, Missing
    <2>5. QED
      BY <2>1, <2>3, <2>4
  <1>26. CASE UndoInstall
    <2>1. /\ launcher = "undoInstall" /\ launcher' = "undoRecord"
          /\ UNCHANGED <<image, link, backup, journal, pending>>
          /\ db' = backup[pending.backup]
      BY <1>26 DEF UndoInstall, Step
    <2>2. pending # NoJournal /\ journal = pending /\ ~pending.recovery
      BY <1>0, <2>1 DEF Control, Journaled, Restores
    <2>3. /\ db' = stopped /\ stopped.by <= pending.from
          /\ ~pending.noFallback => pending.from < pending.to
      BY <1>0, <2>1, <2>2 DEF Restores, Restorable, Shapes, Shape
    <2>4. stopped.by \in Nat /\ pending.from \in Nat /\ pending.to \in Nat
      BY <1>0, <2>2, Contents, TargetVersion DEF TypeOK
    <2>5. ASSUME ~pending.noFallback
          PROVE  db'.by <= pending.to
      <3>1. stopped.by <= pending.from /\ pending.from < pending.to
        BY <2>3, <2>5
      <3>2. stopped.by <= pending.to
        BY <2>4, <3>1
      <3>3. QED
        BY <2>3, <3>2
    <2>6. QED
      BY <1>0, <2>1, <2>2, <2>5 DEF Readable, Serving
  <1>27. CASE UndoRecord
    <2>1. /\ launcher = "undoRecord" /\ launcher' \in {"off", "run"}
          /\ journal' = Backward /\ UNCHANGED <<image, link, db, backup>>
      BY <1>27 DEF UndoRecord, Step, Halt
    <2>2. /\ Backward # NoJournal /\ Backward.recovery
          /\ link = Backward.from /\ link \in Version /\ db.by <= Backward.from
      BY <2>1, BackwardJournal, NoneOfThem
    <2>3. VersionAt(link)' = link
      BY <2>1, <2>2, Directories DEF VersionAt
    <2>4. QED
      BY <1>0, <2>1, <2>2, <2>3 DEF Readable, Serving
  <1>28. CASE UndoFails
    BY <1>0, <1>28, Directories DEF UndoFails, history, Step, Halt, Outcome,
        Readable, Control, Idle, Serving, Journaled, Requested, VersionAt
  <1>29. CASE Consume
    BY <1>0, <1>29, Directories DEF Consume, history, LauncherOnly, Refuse,
        Readable, Control, Idle, Serving, Journaled, Requested, VersionAt
  <1>30. CASE Finalize
    <2>1. /\ launcher = "finalize" /\ launcher' \in {"run", "apply"}
          /\ UNCHANGED <<image, link, db, journal>>
          /\ backup' \in {backup, Finalized} /\ journal = NoJournal
      BY <1>0, <1>30 DEF Finalize, Refuse, Control, Idle
    <2>2. request.from = VersionAt(link) /\ db.by <= VersionAt(link)
      BY <1>0, <2>1 DEF AsRequested, Requested, Readable
    <2>3. ASSUME NEW v \in Version
          PROVE  backup'[v].by <= v
      <3>1. backup \in [Dir -> Content] /\ v \in Dir
        BY <1>0, Directories DEF TypeOK
      <3>2. backup[v].by <= v
        BY <1>0 DEF Readable
      <3>3. QED
        BY <2>1, <2>2, <3>1, <3>2 DEF Finalized
    <2>4. QED
      BY <1>0, <2>1, <2>3 DEF Readable, Serving, VersionAt
  <1>31. CASE Apply
    <2>1. /\ launcher = "apply" /\ launcher' \in {"run", "applySwitch"}
          /\ UNCHANGED <<image, link, db, backup>> /\ journal = NoJournal
          /\ \/ launcher' = "run" /\ journal' = journal
             \/ launcher' = "applySwitch" /\ journal' = Applied
      BY <1>0, <1>31 DEF Apply, Refuse, RecordNow, Control, Idle
    <2>2. ~Applied.recovery /\ ~Applied.noFallback /\ db.by <= Applied.to
      BY <2>1, InstallJournal
    <2>3. QED
      BY <1>0, <2>1, <2>2 DEF Readable, Serving, VersionAt
  <1>32. CASE ApplySwitch
    <2>1. launcher = "applySwitch" /\ launcher' = "run" /\ UNCHANGED <<image, db, backup>>
      BY <1>32 DEF ApplySwitch
    <2>2. CASE link' = link /\ journal' = NoJournal
      BY <1>0, <2>1, <2>2 DEF Readable, Serving, VersionAt
    <2>3. CASE link' = pending.target /\ journal' = journal
      <3>1. /\ pending # NoJournal /\ journal = pending /\ ~pending.recovery
            /\ pending.from < pending.to
            /\ pending.noFallback => pending.to < pending.from
        BY <1>0, <2>1 DEF Control, Journaled, Applying, AsRequested, Requested, Shapes, Shape
      <3>2. VersionAt(pending.target) = pending.to /\ ~pending.noFallback
        <4>1. /\ VersionAt(pending.target) = pending.to
              /\ pending.from \in Nat /\ pending.to \in Nat
          BY <3>1, TargetVersion
        <4>2. ~(pending.to < pending.from)
          BY <3>1, <4>1
        <4>3. QED
          BY <3>1, <4>1, <4>2
      <3>3. db.by <= pending.to
        BY <1>0, <3>1, <3>2 DEF Readable
      <3>4. VersionAt(link)' = VersionAt(pending.target)
        BY <2>1, <2>3 DEF VersionAt
      <3>5. QED
        BY <1>0, <2>1, <2>3, <3>1, <3>2, <3>3, <3>4 DEF Readable, Serving
    <2>4. QED
      BY <1>32, <2>2, <2>3 DEF ApplySwitch
  <1>33. CASE Stop
    BY <1>0, <1>33, Directories DEF Stop, disk, history, Readable, Control,
        Idle, Serving, Journaled, Requested, VersionAt
  <1>34. CASE ReplaceImage
    <2>1. /\ launcher = "off" /\ UNCHANGED <<launcher, link, db, backup, journal>>
          /\ image' \in Version
          /\ link = Image => image' > image
      BY <1>34 DEF ReplaceImage, memory
    <2>2. ASSUME journal = NoJournal
          PROVE  db.by > 0 /\ db.by <= VersionAt(link)'
      <3>1. db.by > 0 /\ db.by <= VersionAt(link)
        BY <1>0, <2>2 DEF Readable
      <3>2. image' \in Nat
        BY <2>1, UpdateAssumption DEF Version
      <3>3. QED
        BY <1>0, <2>1, <3>1, <3>2, CurrentVersion DEF VersionAt
    <2>3. QED
      BY <1>0, <2>1, <2>2 DEF Readable, Serving
  <1>35. QED
    BY <1>1, <1>2, <1>3, <1>4, <1>5, <1>6, <1>7, <1>8, <1>9, <1>10, <1>11,
        <1>12, <1>13, <1>14, <1>15, <1>16, <1>17, <1>18, <1>19, <1>20, <1>21,
        <1>22, <1>23, <1>24, <1>25, <1>26, <1>27, <1>28, <1>29, <1>30, <1>31,
        <1>32, <1>33, <1>34 DEF Next

LEMMA TestedStep ==
  ASSUME IInv, Next
  PROVE  Tested'
  <1>0. TypeOK /\ Control /\ Linked /\ Tested
    BY DEF IInv
  <1>1. CASE Write
    BY <1>0, <1>1, Directories DEF Write, memory, history, Tested, Control,
        Idle, Serving, Journaled, Requested, VersionAt
  <1>2. CASE Begin
    BY <1>0, <1>2, Directories DEF Begin, history, WebOnly, BeginFree, Tested,
        Control, Idle, Serving, Journaled, Requested, VersionAt
  <1>3. CASE Stage
    BY <1>0, <1>3, Directories DEF Stage, history, WebOnly, Tested, Control,
        Idle, Serving, Journaled, Requested, VersionAt
  <1>4. CASE HandOff
    BY <1>0, <1>4, Directories DEF HandOff, history, WebOnly, Tested, Control,
        Idle, Serving, Journaled, Requested, VersionAt
  <1>5. CASE FailInstall
    BY <1>0, <1>5, Directories DEF FailInstall, history, WebOnly, Tested,
        Control, Idle, Serving, Journaled, Requested, VersionAt
  <1>6. CASE ExitForUpdate
    BY <1>0, <1>6, Directories DEF ExitForUpdate, disk, Tested, Control, Idle,
        Serving, Journaled, Requested, VersionAt
  <1>7. CASE Resume
    BY <1>0, <1>7, Directories DEF Resume, history, Step, LauncherOnly,
        Tested, Control, Idle, Serving, Journaled, Requested, VersionAt
  <1>8. CASE Boot
    BY <1>0, <1>8, Directories DEF Boot, history, Step, LauncherOnly, Tested,
        Control, Idle, Serving, Journaled, Requested, VersionAt
  <1>9. CASE Keep
    BY <1>0, <1>9, Directories DEF Keep, history, Step, LauncherOnly,
        Incompatible, Promoted, Tested, Control, Idle, Serving, Journaled,
        Requested, VersionAt
  <1>10. CASE SwitchToImage
    BY <1>0, <1>10, Directories DEF SwitchToImage, Step, LauncherOnly,
        Incompatible, Promoted, FallsBack, Tested, Control, Idle, Serving,
        Journaled, Requested, VersionAt
  <1>11. CASE Record
    BY <1>0, <1>11, Directories DEF Record, history, Step, LauncherOnly,
        Tested, Control, Idle, Serving, Journaled, Requested, VersionAt
  <1>12. CASE PassLock
    BY <1>0, <1>12, Directories DEF PassLock, history, Step, LauncherOnly,
        Tested, Control, Idle, Serving, Journaled, Requested, VersionAt
  <1>13. CASE GiveUp
    BY <1>0, <1>13, Directories DEF GiveUp, history, Step, Halt, Tested,
        Control, Idle, Serving, Journaled, Requested, VersionAt
  <1>14. CASE Prepare
    BY <1>0, <1>14, Directories DEF Prepare, history, Step, LauncherOnly,
        Tested, Control, Idle, Serving, Journaled, Requested, VersionAt
  <1>15. CASE Install
    BY <1>0, <1>15, Directories DEF Install, history, Step, LauncherOnly,
        Tested, Control, Idle, Serving, Journaled, Requested, VersionAt
  <1>16. CASE Switch
    BY <1>0, <1>16, Directories DEF Switch, history, Step, LauncherOnly,
        Tested, Control, Idle, Serving, Journaled, Requested, VersionAt
  <1>17. CASE Run
    BY <1>0, <1>17, Directories DEF Run, history, Step, Tested, Control, Idle,
        Serving, Journaled, Requested, VersionAt
  <1>18. CASE Healthy
    BY <1>0, <1>18, Directories DEF Healthy, disk, Tested, Control, Idle,
        Serving, Journaled, Requested, VersionAt
  <1>19. CASE Report
    BY <1>0, <1>19, Directories DEF Report, history, Step, LauncherOnly,
        ReportedStatus, Outcome, Tested, Control, Idle, Serving, Journaled,
        Requested, VersionAt
  <1>20. CASE Close
    BY <1>0, <1>20, Directories DEF Close, history, Step, LauncherOnly,
        Tested, Control, Idle, Serving, Journaled, Requested, VersionAt
  <1>21. CASE Release
    BY <1>0, <1>21, Directories DEF Release, history, Step, LauncherOnly,
        Tested, Control, Idle, Serving, Journaled, Requested, VersionAt
  <1>22. CASE LeaveOpen
    BY <1>0, <1>22, Directories DEF LeaveOpen, disk, history, Step,
        LauncherOnly, Tested, Control, Idle, Serving, Journaled, Requested,
        VersionAt
  <1>23. CASE Unhealthy
    BY <1>0, <1>23, Directories DEF Unhealthy, history, Step, Halt, Outcome,
        Tested, Control, Idle, Serving, Journaled, Requested, VersionAt
  <1>24. CASE Undo
    BY <1>0, <1>24, Directories DEF Undo, history, Step, LauncherOnly, Tested,
        Control, Idle, Serving, Journaled, Requested, VersionAt
  <1>25. CASE UndoMove
    BY <1>0, <1>25, Directories DEF UndoMove, history, Step, LauncherOnly,
        Tested, Control, Idle, Serving, Journaled, Requested, VersionAt
  <1>26. CASE UndoInstall
    BY <1>0, <1>26, Directories DEF UndoInstall, history, Step, LauncherOnly,
        Tested, Control, Idle, Serving, Journaled, Requested, VersionAt
  <1>27. CASE UndoRecord
    <2>1. launcher = "undoRecord" /\ journal' = Backward /\ launcher' \in {"off", "run"}
      BY <1>27 DEF UndoRecord, Halt, Step
    <2>2. QED
      BY <2>1, BackwardJournal, NoneOfThem DEF Tested
  <1>28. CASE UndoFails
    BY <1>0, <1>28, Directories DEF UndoFails, history, Step, Halt, Outcome,
        Tested, Control, Idle, Serving, Journaled, Requested, VersionAt
  <1>29. CASE Consume
    BY <1>0, <1>29, Directories DEF Consume, history, LauncherOnly, Refuse,
        Tested, Control, Idle, Serving, Journaled, Requested, VersionAt
  <1>30. CASE Finalize
    BY <1>0, <1>30, Directories DEF Finalize, history, LauncherOnly, Refuse,
        Finalized, Tested, Control, Idle, Serving, Journaled, Requested,
        VersionAt
  <1>31. CASE Apply
    BY <1>0, <1>31, Directories DEF Apply, history, LauncherOnly, Refuse,
        Applied, RecordNow, Tested, Control, Idle, Serving, Journaled,
        Requested, VersionAt
  <1>32. CASE ApplySwitch
    BY <1>0, <1>32, Directories DEF ApplySwitch, history, LauncherOnly,
        Tested, Control, Idle, Serving, Journaled, Requested, VersionAt
  <1>33. CASE Stop
    BY <1>0, <1>33, Directories DEF Stop, disk, history, Tested, Control,
        Idle, Serving, Journaled, Requested, VersionAt
  <1>34. CASE ReplaceImage
    BY <1>0, <1>34, Directories DEF ReplaceImage, memory, history, Tested,
        Control, Idle, Serving, Journaled, Requested, VersionAt
  <1>35. QED
    BY <1>1, <1>2, <1>3, <1>4, <1>5, <1>6, <1>7, <1>8, <1>9, <1>10, <1>11,
        <1>12, <1>13, <1>14, <1>15, <1>16, <1>17, <1>18, <1>19, <1>20, <1>21,
        <1>22, <1>23, <1>24, <1>25, <1>26, <1>27, <1>28, <1>29, <1>30, <1>31,
        <1>32, <1>33, <1>34 DEF Next

LEMMA ReportedStep ==
  ASSUME IInv, Next
  PROVE  Reported'
  <1>0. Control /\ Reported
    BY DEF IInv
  <1>1. CASE Write
    BY <1>0, <1>1 DEF Write, memory, history, Reported, Control, Outcome
  <1>2. CASE Begin
    BY <1>0, <1>2 DEF Begin, history, WebOnly, BeginFree, Reported, Control,
        Outcome
  <1>3. CASE Stage
    BY <1>0, <1>3 DEF Stage, history, WebOnly, Reported, Control, Outcome
  <1>4. CASE HandOff
    BY <1>0, <1>4 DEF HandOff, history, WebOnly, Reported, Control, Outcome
  <1>5. CASE FailInstall
    BY <1>0, <1>5 DEF FailInstall, history, WebOnly, Reported, Control,
        Outcome
  <1>6. CASE ExitForUpdate
    BY <1>0, <1>6 DEF ExitForUpdate, disk, Reported, Control, Outcome
  <1>7. CASE Resume
    BY <1>0, <1>7 DEF Resume, history, Step, LauncherOnly, Reported, Control,
        Outcome
  <1>8. CASE Boot
    BY <1>0, <1>8 DEF Boot, history, Step, LauncherOnly, Reported, Control,
        Outcome
  <1>9. CASE Keep
    BY <1>0, <1>9 DEF Keep, history, Step, LauncherOnly, Incompatible,
        Promoted, Reported, Control, Outcome
  <1>10. CASE SwitchToImage
    BY <1>0, <1>10 DEF SwitchToImage, Step, LauncherOnly, Incompatible,
        Promoted, FallsBack, Reported, Control, Outcome
  <1>11. CASE Record
    BY <1>0, <1>11 DEF Record, history, Step, LauncherOnly, Reported, Control,
        Outcome
  <1>12. CASE PassLock
    BY <1>0, <1>12 DEF PassLock, history, Step, LauncherOnly, Reported,
        Control, Outcome
  <1>13. CASE GiveUp
    BY <1>0, <1>13 DEF GiveUp, history, Step, Halt, Reported, Control, Outcome
  <1>14. CASE Prepare
    BY <1>0, <1>14 DEF Prepare, history, Step, LauncherOnly, Reported,
        Control, Outcome
  <1>15. CASE Install
    BY <1>0, <1>15 DEF Install, history, Step, LauncherOnly, Reported,
        Control, Outcome
  <1>16. CASE Switch
    BY <1>0, <1>16 DEF Switch, history, Step, LauncherOnly, Reported, Control,
        Outcome
  <1>17. CASE Run
    BY <1>0, <1>17 DEF Run, history, Step, Reported, Control, Outcome
  <1>18. CASE Healthy
    BY <1>0, <1>18 DEF Healthy, disk, Reported, Control, Outcome
  <1>19. CASE Report
    BY <1>0, <1>19 DEF Report, history, Step, LauncherOnly, ReportedStatus,
        Outcome, Reported, Control
  <1>20. CASE Close
    BY <1>0, <1>20 DEF Close, history, Step, LauncherOnly, Reported, Control,
        Outcome
  <1>21. CASE Release
    BY <1>0, <1>21 DEF Release, history, Step, LauncherOnly, Reported,
        Control, Outcome
  <1>22. CASE LeaveOpen
    BY <1>0, <1>22 DEF LeaveOpen, disk, history, Step, LauncherOnly, Reported,
        Control, Outcome
  <1>23. CASE Unhealthy
    BY <1>0, <1>23 DEF Unhealthy, history, Step, Halt, Outcome, Reported,
        Control
  <1>24. CASE Undo
    BY <1>0, <1>24 DEF Undo, history, Step, LauncherOnly, Reported, Control,
        Outcome
  <1>25. CASE UndoMove
    BY <1>0, <1>25 DEF UndoMove, history, Step, LauncherOnly, Reported,
        Control, Outcome
  <1>26. CASE UndoInstall
    BY <1>0, <1>26 DEF UndoInstall, history, Step, LauncherOnly, Reported,
        Control, Outcome
  <1>27. CASE UndoRecord
    BY <1>0, <1>27 DEF UndoRecord, history, Step, Halt, LauncherOnly,
        Backward, Reported, Control, Outcome
  <1>28. CASE UndoFails
    BY <1>0, <1>28 DEF UndoFails, history, Step, Halt, Outcome, Reported,
        Control
  <1>29. CASE Consume
    BY <1>0, <1>29 DEF Consume, history, LauncherOnly, Refuse, Reported,
        Control, Outcome
  <1>30. CASE Finalize
    BY <1>0, <1>30 DEF Finalize, history, LauncherOnly, Refuse, Finalized,
        Reported, Control, Outcome
  <1>31. CASE Apply
    BY <1>0, <1>31 DEF Apply, history, LauncherOnly, Refuse, Applied,
        RecordNow, Reported, Control, Outcome
  <1>32. CASE ApplySwitch
    BY <1>0, <1>32 DEF ApplySwitch, history, LauncherOnly, Reported, Control,
        Outcome
  <1>33. CASE Stop
    BY <1>0, <1>33 DEF Stop, disk, history, Reported, Control, Outcome
  <1>34. CASE ReplaceImage
    BY <1>0, <1>34 DEF ReplaceImage, memory, history, Reported, Control,
        Outcome
  <1>35. QED
    BY <1>1, <1>2, <1>3, <1>4, <1>5, <1>6, <1>7, <1>8, <1>9, <1>10, <1>11,
        <1>12, <1>13, <1>14, <1>15, <1>16, <1>17, <1>18, <1>19, <1>20, <1>21,
        <1>22, <1>23, <1>24, <1>25, <1>26, <1>27, <1>28, <1>29, <1>30, <1>31,
        <1>32, <1>33, <1>34 DEF Next

LEMMA ResultIsTrueStep ==
  ASSUME IInv, Next
  PROVE  ResultIsTrue'
  <1>0. TypeOK /\ Control /\ AsRequested /\ ResultIsTrue
    BY DEF IInv
  <1>1. CASE Write
    BY <1>0, <1>1 DEF Write, memory, history, ResultIsTrue, Control, Idle,
        Serving, Journaled, Requested
  <1>2. CASE Begin
    BY <1>0, <1>2 DEF Begin, history, WebOnly, BeginFree, ResultIsTrue,
        Control, Idle, Serving, Journaled, Requested
  <1>3. CASE Stage
    BY <1>0, <1>3 DEF Stage, history, WebOnly, ResultIsTrue, Control, Idle,
        Serving, Journaled, Requested
  <1>4. CASE HandOff
    BY <1>0, <1>4 DEF HandOff, history, WebOnly, ResultIsTrue, Control, Idle,
        Serving, Journaled, Requested
  <1>5. CASE FailInstall
    BY <1>0, <1>5 DEF FailInstall, history, WebOnly, ResultIsTrue, Control,
        Idle, Serving, Journaled, Requested
  <1>6. CASE ExitForUpdate
    BY <1>0, <1>6 DEF ExitForUpdate, disk, ResultIsTrue, Control, Idle,
        Serving, Journaled, Requested
  <1>7. CASE Resume
    BY <1>0, <1>7 DEF Resume, history, Step, LauncherOnly, ResultIsTrue,
        Control, Idle, Serving, Journaled, Requested
  <1>8. CASE Boot
    BY <1>0, <1>8 DEF Boot, history, Step, LauncherOnly, ResultIsTrue,
        Control, Idle, Serving, Journaled, Requested
  <1>9. CASE Keep
    BY <1>0, <1>9 DEF Keep, history, Step, LauncherOnly, Incompatible,
        Promoted, ResultIsTrue, Control, Idle, Serving, Journaled, Requested
  <1>10. CASE SwitchToImage
    BY <1>0, <1>10 DEF SwitchToImage, Step, LauncherOnly, Incompatible,
        Promoted, FallsBack, ResultIsTrue, Control, Idle, Serving, Journaled,
        Requested
  <1>11. CASE Record
    BY <1>0, <1>11 DEF Record, history, Step, LauncherOnly, ResultIsTrue,
        Control, Idle, Serving, Journaled, Requested
  <1>12. CASE PassLock
    BY <1>0, <1>12 DEF PassLock, history, Step, LauncherOnly, ResultIsTrue,
        Control, Idle, Serving, Journaled, Requested
  <1>13. CASE GiveUp
    BY <1>0, <1>13 DEF GiveUp, history, Step, Halt, ResultIsTrue, Control,
        Idle, Serving, Journaled, Requested
  <1>14. CASE Prepare
    BY <1>0, <1>14 DEF Prepare, history, Step, LauncherOnly, ResultIsTrue,
        Control, Idle, Serving, Journaled, Requested
  <1>15. CASE Install
    BY <1>0, <1>15 DEF Install, history, Step, LauncherOnly, ResultIsTrue,
        Control, Idle, Serving, Journaled, Requested
  <1>16. CASE Switch
    BY <1>0, <1>16 DEF Switch, history, Step, LauncherOnly, ResultIsTrue,
        Control, Idle, Serving, Journaled, Requested
  <1>17. CASE Run
    BY <1>0, <1>17 DEF Run, history, Step, ResultIsTrue, Control, Idle,
        Serving, Journaled, Requested
  <1>18. CASE Healthy
    BY <1>0, <1>18 DEF Healthy, disk, ResultIsTrue, Control, Idle, Serving,
        Journaled, Requested
  <1>19. CASE Report
    BY <1>0, <1>19 DEF Report, history, Step, LauncherOnly, ReportedStatus,
        Outcome, ResultIsTrue, Control, Idle, Serving, Journaled, Requested
  <1>20. CASE Close
    <2>1. /\ launcher = "close" /\ link' = link /\ result' = result
      BY <1>20 DEF Close, Step
    <2>2. pending \in Journal /\ link = pending.target /\ Shape(pending)
      BY <1>0, <2>1, LauncherKnows DEF IInv, Linked, Shapes, Control, Journaled
    <2>3. result = Outcome(pending.status)
      BY <2>1 DEF IInv, Reported
    <2>4. /\ pending.recovery => link = pending.from /\ pending.status # "success"
          /\ ~pending.recovery => link \in {Image, pending.to} /\ pending.status = "success"
      BY <2>2 DEF Shape
    <2>5. result.status = pending.status /\ result.from = pending.from /\ result.to = pending.to
      BY <2>3 DEF Outcome
    <2>6. QED
      BY <2>1, <2>4, <2>5 DEF ResultIsTrue
  <1>21. CASE Release
    BY <1>0, <1>21 DEF Release, history, Step, LauncherOnly, ResultIsTrue,
        Control, Idle, Serving, Journaled, Requested
  <1>22. CASE LeaveOpen
    BY <1>0, <1>22 DEF LeaveOpen, disk, history, Step, LauncherOnly,
        ResultIsTrue, Control, Idle, Serving, Journaled, Requested
  <1>23. CASE Unhealthy
    BY <1>0, <1>23 DEF Unhealthy, history, Step, Halt, Outcome, ResultIsTrue,
        Control, Idle, Serving, Journaled, Requested
  <1>24. CASE Undo
    BY <1>0, <1>24 DEF Undo, history, Step, LauncherOnly, ResultIsTrue,
        Control, Idle, Serving, Journaled, Requested
  <1>25. CASE UndoMove
    BY <1>0, <1>25 DEF UndoMove, history, Step, LauncherOnly, ResultIsTrue,
        Control, Idle, Serving, Journaled, Requested
  <1>26. CASE UndoInstall
    BY <1>0, <1>26 DEF UndoInstall, history, Step, LauncherOnly, ResultIsTrue,
        Control, Idle, Serving, Journaled, Requested
  <1>27. CASE UndoRecord
    <2>1. launcher = "undoRecord" /\ journal' = Backward
      BY <1>27 DEF UndoRecord
    <2>2. QED
      BY <2>1, BackwardJournal, NoneOfThem DEF ResultIsTrue
  <1>28. CASE UndoFails
    BY <1>0, <1>28 DEF UndoFails, history, Step, Halt, Outcome, ResultIsTrue,
        Control, Idle, Serving, Journaled, Requested
  <1>29. CASE Consume
    BY <1>0, <1>29 DEF Consume, history, LauncherOnly, Refuse, ResultIsTrue,
        Control, Idle, Serving, Journaled, Requested
  <1>30. CASE Finalize
    <2>1. launcher = "finalize" /\ link \in {Image, request.from}
      BY <1>0, <1>30 DEF Finalize, AsRequested, Requested, VersionAt
    <2>2. CASE /\ link' = link
               /\ result' = [status |-> "failed", from |-> request.from,
                             to |-> request.to]
      BY <2>1, <2>2 DEF ResultIsTrue

    <2>3. CASE UNCHANGED <<link, journal, result>>
      BY <2>3 DEF IInv, ResultIsTrue
    <2>4. QED
      BY <1>30, <2>2, <2>3 DEF Finalize, Refuse
  <1>31. CASE Apply
    <2>1. launcher = "apply" /\ link \in {Image, request.from}
      BY <1>0, <1>31 DEF Apply, AsRequested, Requested, VersionAt
    <2>2. CASE /\ link' = link
               /\ result' = [status |-> "failed", from |-> request.from,
                             to |-> request.to]
      BY <2>1, <2>2 DEF ResultIsTrue

    <2>3. CASE journal' = Applied
      BY <2>1, <2>3, InstallJournal, NoneOfThem DEF ResultIsTrue
    <2>4. QED
      BY <1>31, <2>2, <2>3 DEF Apply, Refuse, RecordNow
  <1>32. CASE ApplySwitch
    <2>1. launcher = "applySwitch" /\ link \in {Image, request.from}
      BY <1>0, <1>32 DEF ApplySwitch, AsRequested, Requested, VersionAt
    <2>2. CASE /\ link' = link
               /\ result' = [status |-> "failed", from |-> request.from,
                             to |-> request.to]
      BY <2>1, <2>2 DEF ResultIsTrue

    <2>3. CASE journal' = journal
      <3>1. journal # NoJournal
        BY <1>0, <2>1 DEF Control, Journaled
      <3>2. QED
        BY <2>3, <3>1 DEF ResultIsTrue
    <2>4. QED
      BY <1>32, <2>2, <2>3 DEF ApplySwitch
  <1>33. CASE Stop
    BY <1>0, <1>33 DEF Stop, disk, history, ResultIsTrue, Control, Idle,
        Serving, Journaled, Requested
  <1>34. CASE ReplaceImage
    BY <1>0, <1>34 DEF ReplaceImage, memory, history, ResultIsTrue, Control,
        Idle, Serving, Journaled, Requested
  <1>35. QED
    BY <1>1, <1>2, <1>3, <1>4, <1>5, <1>6, <1>7, <1>8, <1>9, <1>10, <1>11,
        <1>12, <1>13, <1>14, <1>15, <1>16, <1>17, <1>18, <1>19, <1>20, <1>21,
        <1>22, <1>23, <1>24, <1>25, <1>26, <1>27, <1>28, <1>29, <1>30, <1>31,
        <1>32, <1>33, <1>34 DEF Next

LEMMA TypeOKStep ==
  ASSUME IInv, Next
  PROVE  TypeOK'
  <1>0. TypeOK /\ Control
    BY DEF IInv
  <1>1. CASE Write
    <2>1. db' = [db EXCEPT !.writes = @ + 1] /\ db.writes < MaxWrites
      BY <1>1 DEF Write
    <2>2. db' \in Content
      <3>1. db.writes \in 0..MaxWrites /\ db \in Content
        BY <1>0 DEF TypeOK, Content
      <3>2. db.writes + 1 \in 0..MaxWrites
        BY <2>1, <3>1, UpdateAssumption
      <3>3. QED
        BY <2>1, <3>1, <3>2 DEF Content
    <2>3. QED
      BY <1>0, <1>1, <2>2 DEF Write, TypeOK, memory, history
  <1>2. CASE Begin
    BY <1>0, <1>2 DEF Begin, history, WebOnly, BeginFree, TypeOK, LauncherPC,
        Control, Idle, Serving, Journaled, Requested
  <1>3. CASE Stage
    <2>1. VersionAt(prog.dir) \in Version /\ VersionAt(prog.dir) \in Dir /\ prog.dir \in Dir
      BY <1>0, Directories DEF TypeOK, Dir, VersionAt
    <2>2. request' \in Request
      BY <1>3, <2>1 DEF Stage, Request
    <2>3. backup' \in [Dir -> Content]
      BY <1>0, <1>3, <2>1 DEF Stage, TypeOK
    <2>4. QED
      BY <1>0, <1>3, <2>2, <2>3 DEF Stage, WebOnly, TypeOK, history
  <1>4. CASE HandOff
    BY <1>0, <1>4 DEF HandOff, history, WebOnly, TypeOK, LauncherPC, Control,
        Idle, Serving, Journaled, Requested
  <1>5. CASE FailInstall
    BY <1>0, <1>5 DEF FailInstall, history, WebOnly, TypeOK, LauncherPC,
        Control, Idle, Serving, Journaled, Requested
  <1>6. CASE ExitForUpdate
    BY <1>0, <1>6 DEF ExitForUpdate, disk, TypeOK, LauncherPC, Control, Idle,
        Serving, Journaled, Requested
  <1>7. CASE Resume
    BY <1>0, <1>7 DEF Resume, history, Step, LauncherOnly, TypeOK, LauncherPC,
        Control, Idle, Serving, Journaled, Requested
  <1>8. CASE Boot
    BY <1>0, <1>8 DEF Boot, history, Step, LauncherOnly, TypeOK, LauncherPC,
        Control, Idle, Serving, Journaled, Requested
  <1>9. CASE Keep
    BY <1>0, <1>9 DEF Keep, history, Step, LauncherOnly, Incompatible,
        Promoted, TypeOK, LauncherPC, Control, Idle, Serving, Journaled,
        Requested
  <1>10. CASE SwitchToImage
    <2>1. pending' \in Journal /\ backup' \in [Dir -> Content]
      BY <1>10, SwitchJournal
    <2>2. QED
      BY <1>0, <1>10, <2>1
      DEF SwitchToImage, Step, LauncherOnly, TypeOK, LauncherPC
  <1>11. CASE Record
    BY <1>0, <1>11 DEF Record, history, Step, LauncherOnly, TypeOK,
        LauncherPC, Control, Idle, Serving, Journaled, Requested
  <1>12. CASE PassLock
    BY <1>0, <1>12 DEF PassLock, history, Step, LauncherOnly, TypeOK,
        LauncherPC, Control, Idle, Serving, Journaled, Requested
  <1>13. CASE GiveUp
    BY <1>0, <1>13 DEF GiveUp, history, Step, Halt, TypeOK, LauncherPC,
        Control, Idle, Serving, Journaled, Requested
  <1>14. CASE Prepare
    <2>1. db' \in Content
      BY <1>0, <1>14, MissingIsContent DEF Prepare, TypeOK
    <2>2. QED
      BY <1>0, <1>14, <2>1 DEF Prepare, Step, LauncherOnly, TypeOK, LauncherPC, history
  <1>15. CASE Install
    <2>1. pending.to \in Dir
      BY <1>0, <1>15, LauncherKnows, JournalFields, Directories
      DEF Install, Step, Journaled
    <2>2. db' \in Content
      BY <1>0, <1>15, <2>1 DEF Install, TypeOK
    <2>3. QED
      BY <1>0, <1>15, <2>2 DEF Install, Step, LauncherOnly, TypeOK, LauncherPC, history
  <1>16. CASE Switch
    <2>1. link' \in Dir
      BY <1>0, <1>16, LauncherKnows, JournalFields DEF Switch, Step, Journaled
    <2>2. QED
      BY <1>0, <1>16, <2>1 DEF Switch, Step, LauncherOnly, TypeOK, LauncherPC, history
  <1>17. CASE Run
    <2>1. db' \in Content
      BY <1>0, <1>17, Opening, CurrentVersion DEF Run, TypeOK
    <2>2. prog' \in [at : {"off", "starting", "up"}, dir : Dir]
      BY <1>0, <1>17 DEF Run, TypeOK
    <2>3. QED
      BY <1>0, <1>17, <2>1, <2>2 DEF Run, Step, TypeOK, LauncherPC, history
  <1>18. CASE Healthy
    <2>1. prog' \in [at : {"off", "starting", "up"}, dir : Dir]
      BY <1>0, <1>18 DEF Healthy, TypeOK
    <2>2. VersionAt(prog.dir) \in Version
      BY <1>0, Directories DEF TypeOK, Dir, VersionAt
    <2>3. QED
      BY <1>0, <1>18, <2>1, <2>2 DEF Healthy, TypeOK, LauncherPC, disk
  <1>19. CASE Report
    <2>1. pending \in Journal
      BY <1>0, <1>19, LauncherKnows DEF Report, Step, Journaled
    <2>2. result' \in Result
      BY <1>19, <2>1, Outcomes, JournalFields DEF Report, ReportedStatus
    <2>3. QED
      BY <1>0, <1>19, <2>2 DEF Report, Step, LauncherOnly, TypeOK, LauncherPC, history
  <1>20. CASE Close
    BY <1>0, <1>20 DEF Close, history, Step, LauncherOnly, TypeOK, LauncherPC,
        Control, Idle, Serving, Journaled, Requested
  <1>21. CASE Release
    BY <1>0, <1>21 DEF Release, history, Step, LauncherOnly, TypeOK,
        LauncherPC, Control, Idle, Serving, Journaled, Requested
  <1>22. CASE LeaveOpen
    BY <1>0, <1>22 DEF LeaveOpen, disk, history, Step, LauncherOnly, TypeOK,
        LauncherPC, Control, Idle, Serving, Journaled, Requested
  <1>23. CASE Unhealthy
    <2>1. result' \in Result \cup {NoResult}
      BY <1>0, <1>23, LauncherKnows, Outcomes DEF Unhealthy, TypeOK
    <2>2. prog' \in [at : {"off", "starting", "up"}, dir : Dir]
      BY <1>0, <1>23 DEF Unhealthy, Halt, TypeOK
    <2>3. QED
      BY <1>0, <1>23, <2>1, <2>2 DEF Unhealthy, Halt, Step, TypeOK, LauncherPC, history
  <1>24. CASE Undo
    <2>1. link' \in Dir
      BY <1>0, <1>24, LauncherKnows, JournalFields DEF Undo, Step, Journaled
    <2>2. QED
      BY <1>0, <1>24, <2>1 DEF Undo, Step, LauncherOnly, TypeOK, LauncherPC, history
  <1>25. CASE UndoMove
    <2>1. db' \in Content
      BY <1>0, <1>25, MissingIsContent DEF UndoMove, TypeOK
    <2>2. QED
      BY <1>0, <1>25, <2>1 DEF UndoMove, Step, LauncherOnly, TypeOK, LauncherPC, history
  <1>26. CASE UndoInstall
    <2>1. pending # NoJournal /\ journal = pending
      BY <1>0, <1>26 DEF UndoInstall, Step, Control, Journaled
    <2>2. db' = stopped
      BY <1>26, <2>1 DEF UndoInstall, IInv, Restores, Restorable
    <2>3. QED
      BY <1>0, <1>26, <2>2 DEF UndoInstall, Step, LauncherOnly, TypeOK, LauncherPC, history
  <1>27. CASE UndoRecord
    <2>1. Backward \in Journal
      BY <1>27, BackwardJournal DEF UndoRecord
    <2>2. prog' \in [at : {"off", "starting", "up"}, dir : Dir]
      BY <1>0, <1>27 DEF UndoRecord, Halt, LauncherOnly, TypeOK
    <2>3. QED
      BY <1>0, <1>27, <2>1, <2>2
      DEF UndoRecord, Halt, Step, LauncherOnly, TypeOK, LauncherPC, history
  <1>28. CASE UndoFails
    <2>1. result' \in Result \cup {NoResult}
      <3>1. pending \in Journal
        BY <1>0, <1>28, LauncherKnows DEF UndoFails, Halt, Step, Journaled
      <3>2. QED
        BY <1>0, <1>28, <3>1, Outcomes DEF UndoFails, TypeOK
    <2>2. prog' \in [at : {"off", "starting", "up"}, dir : Dir]
      BY <1>0, <1>28 DEF UndoFails, Halt, TypeOK
    <2>3. QED
      BY <1>0, <1>28, <2>1, <2>2 DEF UndoFails, Halt, Step, TypeOK, LauncherPC, history
  <1>29. CASE Consume
    BY <1>0, <1>29 DEF Consume, history, LauncherOnly, Refuse, TypeOK,
        LauncherPC, Control, Idle, Serving, Journaled, Requested
  <1>30. CASE Finalize
    <2>1. request # NoRequest /\ request \in Request
      BY <1>0, <1>30 DEF Finalize, IInv, AsRequested, Requested, TypeOK
    <2>2. request.from \in Dir /\ request.from \in Version /\ request.to \in Version
      BY <2>1, Directories DEF Request
    <2>3. [status |-> "failed", from |-> request.from, to |-> request.to] \in Result
      BY <2>2 DEF Result

    <2>4. backup' \in [Dir -> Content]
      BY <1>0, <1>30, <2>2 DEF Finalize, Finalized, TypeOK
    <2>5. QED
      BY <1>0, <1>30, <2>3, <2>4
      DEF Finalize, Refuse, LauncherOnly, TypeOK, LauncherPC, history
  <1>31. CASE Apply
    <2>1. request # NoRequest /\ request \in Request
      BY <1>0, <1>31 DEF Apply, IInv, AsRequested, Requested, TypeOK
    <2>2. request.from \in Dir /\ request.from \in Version /\ request.to \in Version
      BY <2>1, Directories DEF Request
    <2>3. [status |-> "failed", from |-> request.from, to |-> request.to] \in Result
      BY <2>2 DEF Result

    <2>4. Applied \in Journal
      BY <1>31, InstallJournal DEF Apply
    <2>5. QED
      BY <1>0, <1>31, <2>3, <2>4
      DEF Apply, RecordNow, Refuse, LauncherOnly, TypeOK, LauncherPC, history
  <1>32. CASE ApplySwitch
    <2>1. request # NoRequest /\ request \in Request
      BY <1>0, <1>32 DEF ApplySwitch, IInv, AsRequested, Requested, TypeOK
    <2>2. request.from \in Dir /\ request.from \in Version /\ request.to \in Version
      BY <2>1, Directories DEF Request
    <2>3. [status |-> "failed", from |-> request.from, to |-> request.to] \in Result
      BY <2>2 DEF Result

    <2>4. pending.target \in Dir
      BY <1>0, <1>32, LauncherKnows, JournalFields DEF ApplySwitch, Journaled
    <2>5. QED
      BY <1>0, <1>32, <2>3, <2>4
      DEF ApplySwitch, LauncherOnly, TypeOK, LauncherPC, history
  <1>33. CASE Stop
    BY <1>0, <1>33 DEF Stop, disk, history, TypeOK, LauncherPC, Control, Idle,
        Serving, Journaled, Requested
  <1>34. CASE ReplaceImage
    BY <1>0, <1>34 DEF ReplaceImage, memory, history, TypeOK, LauncherPC,
        Control, Idle, Serving, Journaled, Requested
  <1>35. QED
    BY <1>1, <1>2, <1>3, <1>4, <1>5, <1>6, <1>7, <1>8, <1>9, <1>10, <1>11,
        <1>12, <1>13, <1>14, <1>15, <1>16, <1>17, <1>18, <1>19, <1>20, <1>21,
        <1>22, <1>23, <1>24, <1>25, <1>26, <1>27, <1>28, <1>29, <1>30, <1>31,
        <1>32, <1>33, <1>34 DEF Next
-----------------------------------------------------------------------------
(* The theorems *)

LEMMA InitInvariant ==
  ASSUME Init
  PROVE  IInv
  <1>1. image \in Version /\ link \in Dir /\ VersionAt(link) \in Version
    BY Directories DEF Init, Dir, VersionAt
  <1>2. image \in 0..MaxVersion /\ VersionAt(link) \in 0..MaxVersion /\ 0 \in 0..MaxWrites
    BY <1>1, UpdateAssumption DEF Version
  <1>3. db \in Content /\ backup \in [Dir -> Content] /\ stopped \in Content
    <2>1. db \in Content /\ [by |-> image, writes |-> 0] \in Content
      BY <1>2 DEF Init, Content
    <2>2. QED
      BY <2>1, MissingIsContent DEF Init
  <1>4. TypeOK
    BY <1>1, <1>3 DEF Init, TypeOK, LauncherPC
  <1>5. Control /\ Shapes /\ AsRequested /\ Applying /\ Linked /\ Restores
    BY DEF Init, Control, Shapes, AsRequested, Applying, Linked, Restores,
           Idle, Serving, Journaled, Requested
  <1>6. Readable
    <2>1. db.by = VersionAt(link) /\ db.by > 0 /\ db.by <= VersionAt(link)
      BY <1>1, UpdateAssumption DEF Init, Version
    <2>2. ASSUME NEW v \in Version
          PROVE  backup[v].by <= v
      <3>1. v \in Nat /\ image \in Nat /\ v \in Dir
        BY <1>1, Directories, UpdateAssumption DEF Version
      <3>2. backup[v].by = 0 \/ (backup[v].by = image /\ v = image)
        BY <3>1 DEF Init, Missing
      <3>3. QED
        BY <3>1, <3>2
    <2>3. QED
      BY <2>1, <2>2 DEF Readable, Init, Serving
  <1>7. Tested /\ Reported /\ ResultIsTrue
    BY Directories DEF Init, Tested, Reported, ResultIsTrue, VersionAt
  <1>8. QED
    BY <1>4, <1>5, <1>6, <1>7 DEF IInv

LEMMA Stuttering ==
  ASSUME IInv, UNCHANGED vars
  PROVE  IInv'
  <1>1. UNCHANGED <<image, link, db, backup, lock, request, journal, result,
                    launcher, pending, prog, web, stopped, proven>>
    BY DEF vars, disk, memory, history
  <1>2. TypeOK' /\ Control' /\ Linked' /\ Applying' /\ Tested' /\ Reported'
    BY <1>1 DEF IInv, TypeOK, Control, Linked, Applying, Tested, Reported, Outcome
  <1>3. Shapes'
    BY <1>1 DEF IInv, Shapes, Valid, VersionAt, FirstInstallation, Runs
  <1>4. AsRequested'
    BY <1>1, RequestUnchanged DEF IInv
  <1>5. Restores' /\ Readable' /\ ResultIsTrue'
    BY <1>1 DEF IInv, Restores, Restorable, Readable, ResultIsTrue, VersionAt
  <1>6. QED
    BY <1>2, <1>3, <1>4, <1>5 DEF IInv

(* The invariant holds whatever the launcher, the program and the user do, *)
(* and wherever the container stops in between.                            *)
THEOREM Invariance == Spec => []IInv
  <1>1. ASSUME IInv, Next
        PROVE  IInv'
    BY <1>1, ControlStep, ShapesStep, AsRequestedStep, ApplyingStep,
       LinkedStep, RestoresStep, ReadableStep, TestedStep, ReportedStep,
       ResultIsTrueStep, TypeOKStep DEF IInv
  <1>2. IInv /\ [Next]_vars => IInv'
    BY <1>1, Stuttering
  <1>3. QED
    BY <1>2, InitInvariant, PTL DEF Spec

(* What is on the disk, the launcher and the program stay what they are    *)
(* read as.                                                                *)
THEOREM TypeCorrect == Spec => []TypeOK
  <1>1. IInv => TypeOK
    BY DEF IInv
  <1>2. QED
    BY <1>1, Invariance, PTL

(* No version ever runs on a database that a newer one has migrated: not   *)
(* after a rollback, a switch to the image, or one of them cut short.      *)
THEOREM NoDowngrades == Spec => []NoDowngrade
  <1>1. IInv => NoDowngrade
    BY Zenon DEF IInv, Control, Readable, NoDowngrade
  <1>2. QED
    BY <1>1, Invariance, PTL

(* The version an update goes back to runs on what the update found.       *)
THEOREM RollbacksRestore == Spec => []RollbackRestores
  <1>1. IInv => RollbackRestores
    BY DEF IInv, Restores, RollbackRestores
  <1>2. QED
    BY <1>1, Invariance, PTL

(* A version that has not passed a health check runs under a journal the   *)
(* next start can follow.                                                  *)
THEOREM UpdatesCanBeUndone == Spec => []UnprovenCanBeUndone
  <1>1. ASSUME IInv
        PROVE  UnprovenCanBeUndone
    <2>1. TypeOK /\ Control /\ Shapes /\ Tested
      BY <1>1 DEF IInv
    <2>2. ASSUME prog.at # "off", prog.dir \in Version \ proven
          PROVE  journal # NoJournal
      BY <2>1, <2>2 DEF Control, Tested
    <2>3. ASSUME launcher \notin {"off", "handoff"}, journal # NoJournal
          PROVE  Resumable \/ FirstInstallation(journal)
      <3>1. journal = pending /\ lock = "request"
        BY <2>1, <2>3 DEF Control
      <3>2. QED
        BY <2>1, <2>3, <3>1 DEF Shapes, Resumable
    <2>4. QED
      BY <2>2, <2>3 DEF UnprovenCanBeUndone
  <1>2. QED
    BY <1>1, Invariance, PTL

(* The result a user reads agrees with the version that is installed.      *)
THEOREM ResultsAreTrue == Spec => []ResultIsTrue
  <1>1. IInv => ResultIsTrue
    BY DEF IInv
  <1>2. QED
    BY <1>1, Invariance, PTL
-----------------------------------------------------------------------------
(* The promise of UpdateTrial, step by step                                *)

Follows == [Trial!Next]_(Trial!vars)

LEMMA Unseen ==
  ASSUME UNCHANGED <<Open, Installed, Trying, Running, db, Found, Passed>>
  PROVE  Follows
  BY DEF Follows, Trial!vars

(* Nothing of a trial is in the files of an installation, in the lock, nor *)
(* in what the launcher knows.                                             *)
LEMMA Outside ==
  ASSUME UNCHANGED <<image, link, db, journal, prog>>,
         stopped' = stopped \/ journal = NoJournal,
         launcher' \in {"report", "close"} <=> launcher \in {"report", "close"}
  PROVE  Follows
  <1>1. UNCHANGED <<VersionAt(link), VersionAt(prog.dir), Open>>
    BY DEF VersionAt, Open
  <1>2. UNCHANGED <<Installed, Trying, Running, Found, Passed>>
    BY <1>1 DEF Installed, Trying, Running, Found, Passed, Open
  <1>3. QED
    BY <1>1, <1>2, Unseen

(* The launcher or the program stops, and what it knows of a test is lost. *)
LEMMA StopFollows ==
  ASSUME UNCHANGED <<image, link, db, journal>>, prog' = prog \/ prog'.at = "off",
         stopped' = stopped \/ journal = NoJournal,
         launcher' \notin {"report", "close"}
  PROVE  Follows
  <1>1. UNCHANGED <<VersionAt(link), Open>> /\ (prog' = prog => Running' = Running)
    BY DEF VersionAt, Open, Running
  <1>2. UNCHANGED <<Installed, Trying, Found>>
    BY <1>1 DEF Installed, Trying, Found, Open
  <1>3. Running' \in {Running, 0} /\ Passed' = 0
    BY <1>1 DEF Running, Passed
  <1>4. Trial!Stop
    BY <1>1, <1>2, <1>3 DEF Trial!Stop, Trial!None
  <1>5. QED
    BY <1>4 DEF Follows, Trial!Next

(* The database changes on its way, under a journal and with no program.   *)
LEMMA ExchangeFollows ==
  ASSUME IInv, UNCHANGED <<image, link, journal, prog, stopped>>, db' \in Content,
         launcher \in {"prepare", "install", "undoMove", "undoInstall"},
         launcher' \notin {"report", "close"}
  PROVE  Follows
  <1>1. journal # NoJournal /\ prog.at = "off"
    BY DEF IInv, Control, Journaled, Serving
  <1>2. UNCHANGED <<Installed, Trying, Running, Found, Passed, Open>>
    BY <1>1 DEF Installed, Trying, Running, Found, Passed, Open
  <1>3. db' \in Trial!Data
    BY UpdateAssumption DEF Content, Trial!Data
  <1>4. Trial!Exchange
    BY <1>1, <1>2, <1>3 DEF Trial!Exchange, Trial!None, Open, Running
  <1>5. QED
    BY <1>4 DEF Follows, Trial!Next

(* A journal is written: from the version kept to another.                 *)
LEMMA TryFollows ==
  ASSUME IInv, journal = NoJournal, journal' # NoJournal, prog.at = "off",
         journal'.from = VersionAt(link), journal'.to \in Version,
         journal'.to # journal'.from, db = stopped,
         UNCHANGED <<image, link, db, prog, stopped>>,
         launcher \notin {"report", "close"}, launcher' \notin {"report", "close"}
  PROVE  Follows
  <1>1. ~Open /\ Open'
    BY DEF Open
  <1>2. /\ Running = 0 /\ Running' = 0 /\ Passed = 0 /\ Passed' = 0
        /\ Installed' = Installed /\ Trying' = journal'.to /\ Found' = db
    BY <1>1 DEF Running, Passed, Installed, Trying, Found
  <1>3. Trial!Try(journal'.to)
    BY <1>1, <1>2 DEF Trial!Try, Trial!None, Installed
  <1>4. QED
    BY <1>3 DEF Follows, Trial!Next

(* The current version starts; under a journal it is the one on trial, or  *)
(* the one before on what the update found.                                *)
LEMMA RunFollows ==
  ASSUME IInv, Run
  PROVE  Follows
  <1>1. TypeOK /\ Control /\ Linked /\ Restores /\ Readable
    BY DEF IInv
  <1>2. /\ launcher = "run" /\ launcher' = "watch"
        /\ prog' = [at |-> "starting", dir |-> link]
        /\ db' = Opened(db, VersionAt(link))
        /\ UNCHANGED <<image, link, journal, pending, stopped>>
    BY DEF Run, Step, history
  <1>3. prog.at = "off" /\ journal = pending
    BY <1>1, <1>2 DEF Control, Serving
  <1> DEFINE v == VersionAt(link)
  <1>4. v \in Version /\ v \in Nat /\ db.by \in Nat /\ db.by <= v /\ v' = v
    BY <1>1, <1>2, CurrentVersion DEF Readable, VersionAt
  <1>5. UNCHANGED <<Installed, Trying, Found, Passed, Open>>
    BY <1>2, <1>4 DEF Installed, Trying, Found, Passed, Open
  <1>6. Running = 0 /\ Running' = v
    BY <1>2, <1>3, <1>4 DEF Running, VersionAt
  <1>7. db' = [db EXCEPT !.by = v]
    <2>1. db \in Content
      BY <1>1 DEF TypeOK
    <2>2. CASE db.by < v
      BY <1>2, <2>2 DEF Opened
    <2>3. CASE db.by = v
      BY <1>2, <2>1, <2>3 DEF Opened, Content
    <2>4. QED
      BY <1>4, <2>2, <2>3
  <1>8. ~Open => v = Installed
    BY DEF Installed
  <1>9. Open => v = Trying \/ (v = Installed /\ db.writes >= Found.writes)
    <2>1. SUFFICES ASSUME Open PROVE v = Trying \/ (v = Installed /\ db.writes >= Found.writes)
      OBVIOUS
    <2>2. pending # NoJournal /\ link = pending.target
      BY <1>1, <1>2, <1>3, <2>1 DEF Open, Linked
    <2>3. v = IF pending.recovery THEN pending.from ELSE pending.to
      BY <2>2, TargetVersion
    <2>4. pending.recovery => db.writes >= stopped.writes
      BY <1>1, <2>2 DEF Restores
    <2>5. QED
      BY <1>3, <2>1, <2>3, <2>4 DEF Installed, Trying, Found
  <1> HIDE DEF v
  <1>10. Trial!Start(v)
    BY <1>4, <1>5, <1>6, <1>7, <1>8, <1>9 DEF Trial!Start, Trial!None
  <1>11. QED
    BY <1>4, <1>10 DEF Follows, Trial!Next

LEMMA HealthyFollows ==
  ASSUME IInv, Healthy
  PROVE  Follows
  <1>1. Control
    BY DEF IInv
  <1>2. /\ prog.at = "starting" /\ prog' = [prog EXCEPT !.at = "up"]
        /\ launcher = "watch" /\ UNCHANGED <<image, link, db, journal, pending, stopped>>
        /\ launcher' = IF pending = NoJournal THEN "watch" ELSE "report"
    BY DEF Healthy, disk
  <1>3. prog \in [at : {"off", "starting", "up"}, dir : Dir]
    BY DEF IInv, TypeOK
  <1>4. prog.dir = link /\ journal = pending
    BY <1>1, <1>2 DEF Control, Serving
  <1>5. /\ UNCHANGED <<Installed, Trying, Found, Open, VersionAt(link)>>
        /\ Running = VersionAt(link) /\ Running' = VersionAt(link) /\ Passed = 0
    BY <1>2, <1>3, <1>4
    DEF Installed, Trying, Found, Open, Running, Passed, VersionAt
  <1>6. CASE pending = NoJournal
    BY <1>2, <1>5, <1>6, Unseen DEF Passed
  <1>7. CASE pending # NoJournal
    <2>1. Passed' = Running /\ Running # 0
      BY <1>2, <1>5, <1>7, CurrentVersion DEF Passed, Version, IInv
    <2>2. Trial!Test
      BY <1>2, <1>4, <1>5, <1>7, <2>1 DEF Trial!Test, Trial!None, Open
    <2>3. QED
      BY <2>2 DEF Follows, Trial!Next
  <1>8. QED
    BY <1>6, <1>7

(* Only a version that has passed its health check is kept.                *)
LEMMA CloseFollows ==
  ASSUME IInv, Close
  PROVE  Follows
  <1>1. TypeOK /\ Control /\ Linked
    BY DEF IInv
  <1>2. /\ launcher = "close" /\ launcher' = "release" /\ journal' = NoJournal
        /\ UNCHANGED <<image, link, db, prog, pending, stopped>>
    BY DEF Close, Step, LauncherOnly, history
  <1>3. journal = pending /\ pending # NoJournal /\ link = pending.target
    BY <1>1, <1>2 DEF Control, Journaled, Linked
  <1>4. VersionAt(link) \in {pending.from, pending.to}
    BY <1>3, TargetVersion
  <1>5. Open /\ ~Open' /\ UNCHANGED <<VersionAt(link), Running>>
    BY <1>2, <1>3 DEF Open, VersionAt, Running
  <1>6. /\ Passed = VersionAt(link) /\ Passed \in {Installed, Trying}
        /\ Installed' = Passed
        /\ Trying' = 0 /\ Found' = Missing /\ Passed' = 0
    BY <1>2, <1>3, <1>4, <1>5 DEF Passed, Installed, Trying, Found
  <1>7. Trial!Decide
    BY <1>2, <1>5, <1>6
    DEF Trial!Decide, Trial!Ended, Trial!None, Trial!Empty, Missing
  <1>8. QED
    BY <1>7 DEF Follows, Trial!Next

(* A switch that fails at the link leaves everything as it was found.      *)
LEMMA ApplySwitchFollows ==
  ASSUME IInv, ApplySwitch
  PROVE  Follows
  <1>1. Control /\ Applying /\ AsRequested /\ Restores
    BY DEF IInv
  <1>2. /\ launcher = "applySwitch" /\ launcher' = "run"
        /\ UNCHANGED <<image, db, prog, stopped>>
    BY DEF ApplySwitch, LauncherOnly, history
  <1>3. /\ journal = pending /\ pending # NoJournal /\ prog.at = "off"
        /\ pending.from = VersionAt(link) /\ db = stopped
    BY <1>1, <1>2
    DEF Control, Journaled, Serving, Applying, AsRequested, Requested, Restores
  <1>4. Open /\ Running = 0 /\ Running' = 0 /\ Passed = 0 /\ Passed' = 0
    BY <1>2, <1>3 DEF Open, Running, Passed
  <1>5. CASE journal' = journal
    <2>1. UNCHANGED <<Open, Installed, Trying, Found>>
      BY <1>2, <1>4, <1>5 DEF Open, Installed, Trying, Found
    <2>2. QED
      BY <1>2, <1>4, <2>1, Unseen
  <1>6. CASE journal' = NoJournal /\ link' = link
    <2>1. /\ ~Open' /\ VersionAt(link)' = VersionAt(link)
          /\ Installed' = Installed /\ Trying' = 0 /\ Found' = Missing /\ Found = db
      BY <1>2, <1>3, <1>4, <1>6 DEF Open, VersionAt, Installed, Trying, Found
    <2>2. Trial!Cancel
      BY <1>2, <1>4, <2>1
      DEF Trial!Cancel, Trial!Ended, Trial!None, Trial!Empty, Missing
    <2>3. QED
      BY <2>2 DEF Follows, Trial!Next
  <1>7. QED
    BY <1>5, <1>6 DEF ApplySwitch

LEMMA ReplaceImageFollows ==
  ASSUME IInv, ReplaceImage
  PROVE  Follows
  <1>1. TypeOK /\ Control
    BY DEF IInv
  <1>2. /\ launcher = "off" /\ UNCHANGED <<link, db, journal, prog, launcher, stopped>>
        /\ image' \in Version /\ (link = Image => image' > image)
    BY DEF ReplaceImage, memory, history
  <1>3. prog.at = "off" /\ Running = 0 /\ Running' = 0 /\ Passed = 0 /\ Passed' = 0
    BY <1>1, <1>2 DEF Control, Serving, Running, Passed
  <1>4. UNCHANGED <<Open, Trying, Found>>
    BY <1>2 DEF Open, Trying, Found
  <1>5. CASE Open \/ link # Image
    <2>1. Installed' = Installed
      BY <1>2, <1>4, <1>5 DEF Installed, VersionAt, Open
    <2>2. QED
      BY <1>2, <1>3, <1>4, <2>1, Unseen
  <1>6. CASE ~Open /\ link = Image
    <2>1. Installed = image /\ Installed' = image'
      BY <1>2, <1>4, <1>6 DEF Installed, VersionAt
    <2>2. Trial!Deliver
      BY <1>2, <1>3, <1>4, <1>6, <2>1 DEF Trial!Deliver, Trial!None
    <2>3. QED
      BY <2>2 DEF Follows, Trial!Next
  <1>7. QED
    BY <1>5, <1>6

LEMMA TrialInit == Init => Trial!Init
  <1> SUFFICES ASSUME Init PROVE Trial!Init
    OBVIOUS
  <1>1. /\ ~Open /\ Passed = 0 /\ VersionAt(link) \in Version
        /\ Running = VersionAt(link)
    BY Directories DEF Init, Open, Passed, VersionAt, Running, Dir
  <1>2. Installed = VersionAt(link) /\ Trying = 0 /\ Found = Missing
    BY <1>1 DEF Installed, Trying, Found
  <1>3. QED
    BY <1>1, <1>2 DEF Init, Trial!Init, Trial!None, Trial!Empty, Missing

LEMMA TrialFollows ==
  ASSUME IInv, Next
  PROVE  Follows
  <1>0. TypeOK /\ Control /\ Shapes /\ Linked /\ Restores /\ AsRequested
    BY DEF IInv
  <1>1. CASE Write
    <2>1. /\ prog.at # "off" /\ db' = [db EXCEPT !.writes = @ + 1]
          /\ UNCHANGED <<image, link, journal, launcher, prog, stopped>>
      BY <1>1 DEF Write, memory, history
    <2>2. UNCHANGED <<Installed, Trying, Running, Found, Passed, Open>>
      BY <2>1 DEF Installed, Trying, Running, Found, Passed, Open, VersionAt
    <2>3. Running # 0
      <3>1. Running = VersionAt(link)
        BY <1>0, <2>1 DEF Control, Running
      <3>2. QED
        BY <1>0, <3>1, CurrentVersion DEF Version
    <2>4. Trial!Write
      BY <2>1, <2>2, <2>3 DEF Trial!Write, Trial!None
    <2>5. QED
      BY <2>4 DEF Follows, Trial!Next
  <1>2. CASE Begin \/ Stage \/ HandOff \/ FailInstall
    <2>1. UNCHANGED <<image, link, db, journal, launcher, stopped>>
      BY <1>2 DEF Begin, Stage, HandOff, FailInstall, WebOnly, history
    <2>2. prog' = prog
      BY <1>2 DEF Begin, Stage, HandOff, FailInstall
    <2>3. QED
      BY <2>1, <2>2, Outside
  <1>3. CASE Resume \/ Boot \/ Keep \/ PassLock
    BY <1>3, Outside
    DEF Resume, Boot, Keep, PassLock, Step, LauncherOnly, history
  <1>4. CASE SwitchToImage
    BY <1>0, <1>4, Outside DEF SwitchToImage, Step, LauncherOnly, Control
  <1>5. CASE Record
    <2>1. /\ launcher = "record" /\ launcher' = "handoff" /\ journal' = pending
          /\ UNCHANGED <<image, link, db, prog, stopped>>
      BY <1>5 DEF Record, Step, LauncherOnly, history
    <2>2. /\ journal = NoJournal /\ pending # NoJournal /\ prog.at = "off"
          /\ link = pending.previous /\ db = stopped
      BY <1>0, <2>1 DEF Control, Journaled, Serving, Linked, Restores
    <2>3. Shape(pending) /\ pending.from \in Version /\ pending.to \in Version
          /\ pending.from \in Nat /\ pending.to \in Nat
      BY <1>0, <2>2, TargetVersion DEF Shapes
    <2>4. VersionAt(link) = pending.from /\ pending.to # pending.from
      BY <2>2, <2>3, Directories DEF Shape
    <2>5. QED
      BY <2>1, <2>2, <2>3, <2>4, TryFollows
  <1>6. CASE GiveUp \/ UndoFails
    <2>1. /\ UNCHANGED <<image, link, db, journal, stopped>>
          /\ prog'.at = "off" /\ launcher' = "off"
      BY <1>0, <1>6 DEF GiveUp, UndoFails, Halt, Step, history, TypeOK
    <2>2. QED
      BY <2>1, StopFollows
  <1>7. CASE Prepare \/ Install \/ UndoMove \/ UndoInstall
    <2>1. /\ launcher \in {"prepare", "install", "undoMove", "undoInstall"}
          /\ launcher' \notin {"report", "close"}
          /\ UNCHANGED <<image, link, journal, prog, stopped>>
      BY <1>7
      DEF Prepare, Install, UndoMove, UndoInstall, Step, LauncherOnly, history
    <2>2. db' \in Content
      BY <1>7, TypeOKStep DEF TypeOK
    <2>3. QED
      BY <2>1, <2>2, ExchangeFollows
  <1>8. CASE Switch \/ Undo
    <2>1. /\ launcher \in {"switch", "undo"} /\ launcher' \in {"run", "undoMove"}
          /\ UNCHANGED <<image, db, journal, prog, stopped>>
      BY <1>8 DEF Switch, Undo, Step, LauncherOnly, history
    <2>2. Open /\ Open' /\ prog.at = "off"
      BY <1>0, <2>1 DEF Control, Journaled, Serving, Open
    <2>3. UNCHANGED <<Installed, Trying, Running, Found, Passed>>
      BY <2>1, <2>2 DEF Installed, Trying, Running, Found, Passed
    <2>4. QED
      BY <2>1, <2>2, <2>3, Unseen
  <1>9. CASE Report \/ Release
    BY <1>9, Outside DEF Report, Release, Step, LauncherOnly, history
  <1>10. CASE ExitForUpdate
    <2>1. journal = NoJournal
      BY <1>0, <1>10 DEF ExitForUpdate, Control
    <2>2. prog'.at = "off" /\ launcher' = "consume"
          /\ UNCHANGED <<image, link, db, journal>>
      BY <1>0, <1>10 DEF ExitForUpdate, disk, TypeOK
    <2>3. QED
      BY <2>1, <2>2, StopFollows
  <1>11. CASE LeaveOpen \/ Unhealthy \/ Stop
    <2>1. UNCHANGED <<image, link, db, journal, stopped>>
          /\ launcher' \notin {"report", "close"}
      BY <1>11 DEF LeaveOpen, Unhealthy, Stop, Halt, Step, disk, history
    <2>2. prog' = prog \/ prog'.at = "off"
      BY <1>0, <1>11 DEF LeaveOpen, LauncherOnly, Unhealthy, Stop, Halt, TypeOK
    <2>3. QED
      BY <2>1, <2>2, StopFollows
  <1>12. CASE UndoRecord
    <2>1. /\ launcher = "undoRecord" /\ launcher' \in {"off", "run"}
          /\ journal' = Backward /\ UNCHANGED <<image, link, db, stopped>>
          /\ prog.at = "off" /\ prog'.at = "off"
      <3>1. launcher = "undoRecord" /\ prog.at = "off"
        BY <1>0, <1>12 DEF UndoRecord, Control, Serving
      <3>2. QED
        BY <1>0, <1>12, <3>1 DEF UndoRecord, Halt, Step, LauncherOnly, history, TypeOK
    <2>2. journal = pending /\ pending \in Journal /\ journal # NoJournal
      BY <1>0, <2>1, LauncherKnows DEF Journaled
    <2>3. /\ Backward.from = journal.from /\ Backward.to = journal.to
          /\ journal' # NoJournal
      BY <2>1, <2>2, BackwardJournal, NoneOfThem DEF Backward, Journal
    <2>4. UNCHANGED <<Open, Installed, Trying, Running, Found, Passed>>
      BY <2>1, <2>2, <2>3 DEF Open, Installed, Trying, Running, Found, Passed
    <2>5. QED
      BY <2>1, <2>4, Unseen
  <1>13. CASE Consume \/ Finalize
    BY <1>13, Outside DEF Consume, Finalize, Refuse, LauncherOnly, history
  <1>14. CASE Apply
    <2>1. /\ launcher = "apply" /\ UNCHANGED <<image, link, db, prog, stopped>>
      BY <1>14 DEF Apply, Refuse, LauncherOnly, history
    <2>2. CASE launcher' = "run" /\ journal' = journal
      BY <2>1, <2>2, Outside
    <2>3. CASE launcher' = "applySwitch" /\ journal' = Applied
      <3>1. journal = NoJournal /\ prog.at = "off" /\ db = stopped
            /\ request.from = VersionAt(link) /\ request.from < request.to
        BY <1>0, <2>1
        DEF Control, Idle, Serving, Restores, AsRequested, Requested
      <3>2. Applied \in Journal /\ Applied.from = request.from /\ Applied.to = request.to
        BY <2>1, InstallJournal
      <3>3. journal' # NoJournal /\ journal'.to \in Version /\ journal'.from \in Version
        BY <2>3, <3>2, NoneOfThem, JournalFields
      <3>4. journal'.to # journal'.from
        BY <2>3, <3>1, <3>2, <3>3, UpdateAssumption DEF Version
      <3>5. QED
        BY <2>1, <2>3, <3>1, <3>2, <3>3, <3>4, TryFollows
    <2>4. QED
      BY <1>14, <2>2, <2>3 DEF Apply, Refuse, RecordNow
  <1>15. QED
    BY <1>1, <1>2, <1>3, <1>4, <1>5, <1>6, <1>7, <1>8, <1>9, <1>10, <1>11,
       <1>12, <1>13, <1>14, RunFollows, HealthyFollows, CloseFollows,
       ApplySwitchFollows, ReplaceImageFollows DEF Next

(* However often the container stops, and whatever fails: a new version is *)
(* kept after it has passed a health check, or the version before it is,   *)
(* which starts again on what the update found.                            *)
THEOREM UpdateImplementsTrial == Spec => ImplementsTrial
  <1>1. IInv /\ UNCHANGED vars => Follows
    <2>1. SUFFICES ASSUME UNCHANGED vars PROVE Follows
      OBVIOUS
    <2>2. QED
      BY <2>1, Outside DEF vars, disk, memory, history
  <1>2. IInv /\ [Next]_vars => Follows
    BY <1>1, TrialFollows
  <1>3. QED
    BY <1>2, TrialInit, Invariance, PTL
    DEF Spec, ImplementsTrial, Trial!Spec, Follows
=============================================================================
