---------------------------- MODULE JobLifecycle ----------------------------
(* What the local executor promises about a Job, whoever calls, retries or *)
(* crashes: it is submitted once, a worker's result needs the queue, an    *)
(* accepted cancellation leaves no other end, and an end is final.         *)
CONSTANTS Job, Terminal

VARIABLE job

Init == job = [j \in Job |-> "NONE"]

Move(j, from, to) == job[j] \in from /\ job' = [job EXCEPT ![j] = to]

Submit(j) == Move(j, {"NONE"}, "SUBMITTED")
Queue(j) == Move(j, {"SUBMITTED"}, "QUEUED")
RequestCancellation(j) == Move(j, {"SUBMITTED", "QUEUED"}, "CANCEL_REQUESTED")
Finish(j, end) == Move(j, {"QUEUED"}, end)
Cancelled(j) == Move(j, {"CANCEL_REQUESTED"}, "CANCELLED")

Next == \E j \in Job :
  \/ Submit(j) \/ Queue(j) \/ RequestCancellation(j) \/ Cancelled(j)
  \/ \E end \in Terminal : Finish(j, end)

Spec == Init /\ [][Next]_job
=============================================================================
