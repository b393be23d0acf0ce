----------------------------- MODULE PowerLedger -----------------------------
(***************************************************************************)
(* What a power batch promises about the history the power page shows      *)
(* (power_jobs and power_items), without its holds, its sessions and its   *)
(* worker.  One batch runs at a time, and takes an item when no other of   *)
(* its items is out; the row says "submitting" before the request leaves,  *)
(* and the request of a row leaves once; an outcome is never rewritten;    *)
(* only a batch whose items have all had their turn is finished.  A batch  *)
(* that ends otherwise, and the start after a crash, close what is open:   *)
(* what waited is cancelled, what may have left is unknown.                *)
(***************************************************************************)
EXTENDS Naturals

CONSTANTS Job, Target, Action, NoJob

VARIABLES
  job,   \* [Job -> [action, status]]
  item,  \* [Job -> [Target -> status]]
  sent,  \* [Job -> [Target -> Nat]]: requests the platform has received
  batch, \* the job that runs, or NoJob
  alive  \* the process is there

vars == <<job, item, sent, batch, alive>>

Init ==
  /\ job = [j \in Job |-> [action |-> "none", status |-> "none"]]
  /\ item = [j \in Job |-> [t \in Target |-> "none"]]
  /\ sent = [j \in Job |-> [t \in Target |-> 0]]
  /\ batch = NoJob /\ alive = TRUE

Start(j) ==
  /\ alive /\ batch = NoJob /\ job[j].status = "none"
  /\ \E action \in Action :
       job' = [job EXCEPT ![j] = [action |-> action, status |-> "running"]]
  /\ \E targets \in (SUBSET Target) \ {{}} :
       item' = [item EXCEPT ![j] =
                  [t \in Target |-> IF t \in targets THEN "queued" ELSE "none"]]
  /\ batch' = j
  /\ UNCHANGED <<sent, alive>>

(* The rows of the batch that runs.                                        *)
Row(t, from, to) ==
  /\ batch # NoJob /\ item[batch][t] = from
  /\ item' = [item EXCEPT ![batch][t] = to]
  /\ UNCHANGED <<job, sent, batch, alive>>

Validate(t) ==
  /\ Row(t, "queued", "validating")
  /\ \A u \in Target : item[batch][u] # "submitting"
Reject(t) == Row(t, "validating", "failed")
Submit(t) == Row(t, "validating", "submitting")
Answer(t) ==
  \/ Row(t, "submitting", "accepted") /\ sent[batch][t] = 1
  \/ Row(t, "submitting", "failed") \/ Row(t, "submitting", "unknown")

Deliver(t) ==
  /\ batch # NoJob /\ item[batch][t] = "submitting" /\ sent[batch][t] = 0
  /\ sent' = [sent EXCEPT ![batch][t] = 1]
  /\ UNCHANGED <<job, item, batch, alive>>

Busy == batch # NoJob /\ job[batch].status = "running"
Mark(status) == job' = [job EXCEPT ![batch].status = status]

Finish ==
  /\ Busy /\ Mark("finished")
  /\ \A t \in Target : item[batch][t] \notin {"queued", "submitting"}
  /\ UNCHANGED <<item, sent, batch, alive>>

(* A statement of the store may fail: what it was to close stays open.     *)
Closed(status) == IF status = "submitting" THEN "unknown" ELSE "cancelled"
Close(j, lost) ==
  [t \in Target |-> IF item[j][t] \in lost \/ item[j][t] \notin
                         {"queued", "validating", "submitting"}
                    THEN item[j][t] ELSE Closed(item[j][t])]
Interrupt ==
  /\ Busy /\ (Mark("interrupted") \/ UNCHANGED job)
  /\ \E lost \in SUBSET {"queued", "validating", "submitting"} :
       item' = [item EXCEPT ![batch] = Close(batch, lost)]
  /\ UNCHANGED <<sent, batch, alive>>

End ==
  /\ batch # NoJob /\ batch' = NoJob
  /\ UNCHANGED <<job, item, sent, alive>>

Die ==
  /\ alive /\ alive' = FALSE /\ batch' = NoJob
  /\ UNCHANGED <<job, item, sent>>

Recover ==
  /\ ~alive /\ alive' = TRUE
  /\ \/ /\ item' = [j \in Job |-> Close(j, {})]
        /\ job' = [j \in Job |-> IF job[j].status = "running"
                                 THEN [job[j] EXCEPT !.status = "interrupted"]
                                 ELSE job[j]]
     \/ UNCHANGED <<job, item>>
  /\ UNCHANGED <<sent, batch>>

Next ==
  \/ \E j \in Job : Start(j)
  \/ \E t \in Target :
       Validate(t) \/ Reject(t) \/ Submit(t) \/ Deliver(t) \/ Answer(t)
  \/ Finish \/ Interrupt \/ End \/ Die \/ Recover

Spec == Init /\ [][Next]_vars
=============================================================================
