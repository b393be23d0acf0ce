------------------------------ MODULE RunLedger ------------------------------
(***************************************************************************)
(* What the task runner promises about the task_runs table: a run is       *)
(* queued, admitted to the working set or refused, executed, given one     *)
(* final status and only then taken out of the working set; two admitted   *)
(* runs never share a slot; a final status never changes, and what a dead  *)
(* process left unfinished is marked interrupted before anything else.     *)
(* One write of a run's status may be missed.  If it is the last, the run  *)
(* leaves with its row open, and only the next start closes it.            *)
(***************************************************************************)
CONSTANTS Run, Slot, NoSlot

VARIABLES
  row,      \* [Run -> Status]: the stored status
  slot,     \* [Run -> Slot \cup {NoSlot}]: the account and task type
  working,  \* SUBSET Run: the admitted runs
  missed,   \* SUBSET Run: runs whose final status could not be written
  alive     \* whether the process is up

vars == <<row, slot, working, missed, alive>>

Final == {"success", "failed", "stopped"}
Status == {"none", "queued", "running", "interrupted"} \cup Final

TypeOK ==
  /\ row \in [Run -> Status]
  /\ slot \in [Run -> Slot \cup {NoSlot}]
  /\ working \subseteq Run /\ missed \subseteq Run
  /\ alive \in BOOLEAN

Init ==
  /\ row = [r \in Run |-> "none"]
  /\ slot = [r \in Run |-> NoSlot]
  /\ working = {} /\ missed = {}
  /\ alive = TRUE

Open == {"queued", "running"}

SetRow(r, from, to) ==
  /\ alive /\ row[r] \in from
  /\ row' = [row EXCEPT ![r] = to]
  /\ UNCHANGED missed

(* The write of a final status fails: nobody will write it again.          *)
Miss(r) ==
  /\ alive /\ row[r] \in Open
  /\ missed' = missed \cup {r}
  /\ UNCHANGED row

Queue(r, k) ==
  /\ SetRow(r, {"none"}, "queued")
  /\ slot' = [slot EXCEPT ![r] = k]
  /\ UNCHANGED <<working, alive>>

Admit(r) ==
  /\ alive /\ row[r] = "queued" /\ r \notin working \cup missed
  /\ \A q \in working : slot[q] # slot[r]
  /\ working' = working \cup {r}
  /\ UNCHANGED <<row, slot, missed, alive>>

Refuse(r) ==
  /\ r \notin working \cup missed
  /\ SetRow(r, {"queued"}, "interrupted") \/ Miss(r)
  /\ UNCHANGED <<slot, working, alive>>

(* A run whose 'running' is missed goes on as a queued row.                *)
Begin(r) ==
  /\ r \in working \ missed
  /\ SetRow(r, {"queued"}, "running")
  /\ UNCHANGED <<slot, working, alive>>

Finish(r) ==
  /\ r \in working \ missed
  /\ (\E status \in Final : SetRow(r, Open, status)) \/ Miss(r)
  /\ UNCHANGED <<slot, working, alive>>

Leave(r) ==
  /\ alive /\ r \in working
  /\ row[r] \in Final \/ r \in missed
  /\ working' = working \ {r}
  /\ UNCHANGED <<row, slot, missed, alive>>

Die ==
  /\ alive /\ alive' = FALSE
  /\ working' = {}
  /\ UNCHANGED <<row, slot, missed>>

Recover ==
  /\ ~alive /\ alive' = TRUE
  /\ row' = [r \in Run |-> IF row[r] \in Open THEN "interrupted" ELSE row[r]]
  /\ missed' = {}
  /\ UNCHANGED <<slot, working>>

Next ==
  \/ \E r \in Run : \/ \E k \in Slot : Queue(r, k)
                    \/ Admit(r) \/ Refuse(r) \/ Begin(r) \/ Finish(r) \/ Leave(r)
  \/ Die \/ Recover

Spec == Init /\ [][Next]_vars

-----------------------------------------------------------------------------
(* Two admitted runs never share a slot.                                   *)
Exclusive ==
  \A r, q \in working : slot[r] = slot[q] => r = q

(* A final status never changes, not even by a restart.                    *)
FinalForever ==
  [][\A r \in Run : row[r] \in Final \cup {"interrupted"} => row'[r] = row[r]]_row
=============================================================================
