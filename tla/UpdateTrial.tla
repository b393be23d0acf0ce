----------------------------- MODULE UpdateTrial -----------------------------
(***************************************************************************)
(* What an update promises, in a container and on Windows alike, without   *)
(* the files, the locks, the launcher and the helper.  A new version is on *)
(* trial until it, or the version before it, has passed a health check;    *)
(* that one is kept.  Meanwhile either may be started, any number of times,*)
(* and the database taken back and forth; but the version before starts    *)
(* again on nothing less than what the trial found, and no version ever    *)
(* starts on a database that a newer one has migrated.                     *)
(***************************************************************************)
EXTENDS Naturals

CONSTANT Version

VARIABLES
  installed, \* the version kept
  trying,    \* the version on trial, or None
  trial,     \* "none", "open", or "lost": nobody can decide it any more
  running,   \* the version that runs, or None
  data,      \* the database: who has migrated it, and what was written to it
  found,     \* the database when the trial began
  tested     \* the version that has passed a health check of the trial

vars == <<installed, trying, trial, running, data, found, tested>>

None == 0
Data == [by : Nat, writes : Nat]
Empty == [by |-> 0, writes |-> 0]

Init ==
  /\ installed \in Version /\ trying = None /\ trial = "none"
  /\ running \in {None, installed}
  /\ data = [by |-> installed, writes |-> 0] /\ found = Empty
  /\ tested = None

Write ==
  /\ running # None /\ data' = [data EXCEPT !.writes = @ + 1]
  /\ UNCHANGED <<installed, trying, trial, running, found, tested>>

Start(v) ==
  /\ running = None /\ running' = v
  /\ trial = "none" => v = installed
  /\ trial = "open" =>
       v = trying \/ (v = installed /\ data.writes >= found.writes)
  /\ data.by <= v /\ data' = [data EXCEPT !.by = v]
  /\ UNCHANGED <<installed, trying, trial, found, tested>>

(* The program or whoever watches it stops, and forgets what it has seen.  *)
Stop ==
  /\ running' \in {running, None} /\ tested' \in {tested, None}
  /\ UNCHANGED <<installed, trying, trial, data, found>>

(* A trial that is lost tells nothing of what runs; another may follow it. *)
Try(v) ==
  /\ running = None /\ trial # "open"
  /\ trial' = "open" /\ trying' = v /\ found' = data
  /\ IF trial = "none" THEN UNCHANGED installed ELSE installed' \in Version
  /\ v # installed'
  /\ UNCHANGED <<running, data, tested>>

(* Nothing runs on a database that is on its way.                          *)
Exchange ==
  /\ trial = "open" /\ running = None /\ data' \in Data
  /\ UNCHANGED <<installed, trying, trial, running, found, tested>>

Test ==
  /\ trial = "open" /\ running # None /\ tested' = running
  /\ UNCHANGED <<installed, trying, trial, running, data, found>>

Ended == trial' = "none" /\ trying' = None /\ found' = Empty /\ tested' = None

Decide ==
  /\ trial = "open" /\ tested \in {installed, trying} /\ installed' = tested
  /\ Ended /\ UNCHANGED <<running, data>>

(* Without a test a trial ends only as it began.                           *)
Cancel ==
  /\ trial = "open" /\ running = None /\ data = found
  /\ Ended /\ UNCHANGED <<installed, running, data>>

Lose ==
  /\ trial = "open" /\ trial' = "lost" /\ found' = Empty /\ tested' = None
  /\ UNCHANGED <<installed, trying, running, data>>

(* A container starts with another image.                                  *)
Deliver ==
  /\ trial = "none" /\ running = None
  /\ installed' \in Version /\ installed' > installed
  /\ UNCHANGED <<trying, trial, running, data, found, tested>>

Next ==
  \/ Write \/ Stop \/ Exchange \/ Test \/ Decide \/ Cancel \/ Lose \/ Deliver
  \/ \E v \in Version : Start(v) \/ Try(v)

Spec == Init /\ [][Next]_vars
=============================================================================
