------------------------------ MODULE JobSpec ------------------------------
(***************************************************************************)
(* What the background-job library promises the editor that polls          *)
(* background_jobs: a submitted job begins at most once, is decided at     *)
(* most once, and a decision is never taken back.                          *)
(***************************************************************************)
CONSTANT Jobs
VARIABLE status

Terminal == {"completed", "failed", "cancelled"}

Active == {"queued", "running"}

Init == status = [j \in Jobs |-> "absent"]

Submit(j) == /\ status[j] = "absent"
             /\ status' = [status EXCEPT ![j] = "queued"]

Begin(j) == /\ status[j] = "queued"
            /\ status' = [status EXCEPT ![j] = "running"]

\* The job's own outcome, or a failure recorded for a worker that is gone.
Decide(j) == /\ status[j] = "running"
             /\ \E s \in Terminal : status' = [status EXCEPT ![j] = s]

\* A job that never got to run can only be failed.
Discard(j) == /\ status[j] = "queued"
              /\ status' = [status EXCEPT ![j] = "failed"]

Next == \E j \in Jobs : Submit(j) \/ Begin(j) \/ Decide(j) \/ Discard(j)

Spec == Init /\ [][Next]_status
=============================================================================
