---------------------------- MODULE RemixColumn ----------------------------
(***************************************************************************)
(* Everybody who touches one stage column of one remix: enqueue requests,  *)
(* the handlers of one job type, the reaper, the editor and DELETE. It     *)
(* composes the workers of JobRunner (semaphore, start, commit, reaper) and*)
(* the load and write of StageJob with the routes, at the grain of one SQL *)
(* statement; sheets, hooks and cancels are left to those modules.         *)
(*                                                                         *)
(* The content of the column is the set of writers whose work is in it:    *)
(* every writer reads the whole column and writes it back whole.           *)
(***************************************************************************)
EXTENDS Integers, FiniteSets

CONSTANTS Jobs,     \* enqueue requests of one (remix, type), one job each at most
          Edits,    \* saves of the editor
          Cap,      \* semaphore cap of the job type
          MaxStops, \* bound: process restarts
          MaxFaults \* bound: failed column writes

ASSUME WritersAssumption == IsFiniteSet(Jobs) /\ Jobs \cap Edits = {}
ASSUME NumbersAssumption == Cap \in Nat \ {0} /\ MaxStops \in Nat /\ MaxFaults \in Nat

VARIABLES
  remix,    \* the remix row
  column,   \* the writers whose work is in the column
  request,  \* where the enqueue request of the job stands
  status,   \* background_jobs.status
  task,     \* where the handler stands
  copy,     \* the column as the handler loaded it
  acked,    \* jobs whose work was written and which returned it as processed
  draft,    \* the column as the editor loaded it
  saved,    \* where the save stands
  deletion, \* the DELETE request
  late,     \* jobs inserted since DELETE looked for active jobs
  stops, faults

rows == <<status, late>>
handler == <<task, copy, acked>>
editor == <<draft, saved>>
stored == <<remix, column>>
limits == <<stops, faults>>
vars == <<stored, request, rows, handler, editor, deletion, limits>>

Active == {"queued", "running"}
ActiveJobs == {j \in Jobs : status[j] \in Active}
Holding == {"starting", "loading", "working", "completing", "failing"}
Holders == {j \in Jobs : task[j] \in Holding}

Init ==
  /\ remix = "present"
  /\ column = {}
  /\ request = [j \in Jobs |-> "idle"]
  /\ status = [j \in Jobs |-> "absent"]
  /\ task = [j \in Jobs |-> "none"]
  /\ copy = [j \in Jobs |-> {}]
  /\ acked = {}
  /\ draft = [e \in Edits |-> {}]
  /\ saved = [e \in Edits |-> "idle"]
  /\ deletion = "idle"
  /\ late = {}
  /\ stops = 0 /\ faults = 0

-----------------------------------------------------------------------------
(* The enqueue route                                                       *)

\* Refused: no remix, no batch of that id, or nothing in scope.
RequestLoad(j) ==
  /\ request[j] = "idle"
  /\ \/ remix = "present" /\ request' = [request EXCEPT ![j] = "loaded"]
     \/ request' = [request EXCEPT ![j] = "refused"]
  /\ UNCHANGED <<stored, rows, handler, editor, deletion, limits>>

\* find_active_job.
RequestCheck(j) ==
  /\ request[j] = "loaded"
  /\ request' = [request EXCEPT ![j] = IF ActiveJobs = {} THEN "checked" ELSE "deduped"]
  /\ UNCHANGED <<stored, rows, handler, editor, deletion, limits>>

\* The INSERT has no condition: nothing ties it to the check.
RequestInsert(j) ==
  /\ request[j] = "checked"
  /\ request' = [request EXCEPT ![j] = "enqueued"]
  /\ status' = [status EXCEPT ![j] = "queued"]
  /\ late' = late \cup {j}
  /\ task' = [task EXCEPT ![j] = "waiting"]
  /\ UNCHANGED <<stored, copy, acked, editor, deletion, limits>>

-----------------------------------------------------------------------------
(* The handler                                                             *)

Goto(j, pc) == task' = [task EXCEPT ![j] = pc]

\* Mutant: the permit of a job the reaper has failed is free for the next one.
AcquireReaped(j) ==
  /\ task[j] = "waiting" /\ Cardinality({k \in Holders : status[k] \in Active}) < Cap
  /\ Goto(j, "starting")
  /\ UNCHANGED <<stored, request, rows, copy, acked, editor, deletion, limits>>

Acquire(j) ==
  /\ task[j] = "waiting" /\ Cardinality(Holders) < Cap
  /\ Goto(j, "starting")
  /\ UNCHANGED <<stored, request, rows, copy, acked, editor, deletion, limits>>

\* A row the reaper failed during the wait is not started.
Start(j) ==
  /\ task[j] = "starting"
  /\ \/ status[j] = "queued" /\ status' = [status EXCEPT ![j] = "running"] /\ Goto(j, "loading")
     \/ status[j] # "queued" /\ Goto(j, "done") /\ UNCHANGED status
  /\ UNCHANGED <<stored, request, late, copy, acked, editor, deletion, limits>>

Load(j) ==
  /\ task[j] = "loading"
  /\ \/ remix = "present" /\ copy' = [copy EXCEPT ![j] = column] /\ Goto(j, "working")
     \/ remix = "deleted" /\ Goto(j, "failing") /\ UNCHANGED copy
  /\ UNCHANGED <<stored, request, rows, acked, editor, deletion, limits>>

\* Nothing done, a cancel or an exception: no write.
GiveUp(j) ==
  /\ task[j] \in {"loading", "working"}
  /\ \E pc \in {"completing", "failing"} : Goto(j, pc)
  /\ UNCHANGED <<stored, request, rows, copy, acked, editor, deletion, limits>>

\* Mutant: the write is an upsert.
PersistUpserts(j) ==
  /\ task[j] = "working"
  /\ column' = copy[j] \cup {j}
  /\ acked' = acked \cup {j}
  /\ Goto(j, "completing")
  /\ UNCHANGED <<remix, request, rows, copy, editor, deletion, limits>>

\* The rowcount of the UPDATE is not looked at: on a deleted remix it writes nothing.
Persist(j) ==
  /\ task[j] = "working"
  /\ column' = IF remix = "present" THEN copy[j] \cup {j} ELSE column
  /\ acked' = acked \cup {j}
  /\ Goto(j, "completing")
  /\ UNCHANGED <<remix, request, rows, copy, editor, deletion, limits>>

\* Mutant: the error is logged and the work returned as processed.
PersistFaultAcked(j) ==
  /\ task[j] = "working" /\ faults < MaxFaults
  /\ column' \in {column, IF remix = "present" THEN copy[j] \cup {j} ELSE column}
  /\ acked' = acked \cup {j}
  /\ faults' = faults + 1
  /\ Goto(j, "completing")
  /\ UNCHANGED <<remix, request, rows, copy, editor, deletion, stops>>

\* The write failed, whatever the server did: the sheets are demoted.
PersistFault(j) ==
  /\ task[j] = "working" /\ faults < MaxFaults
  /\ column' \in {column, IF remix = "present" THEN copy[j] \cup {j} ELSE column}
  /\ faults' = faults + 1
  /\ Goto(j, "completing")
  /\ UNCHANGED <<remix, request, rows, copy, acked, editor, deletion, stops>>

\* The CAS of the runner; the permit is released whether it wins or not. A job that ends as
\* cancelled is in "completing" here and counts as completed.
Commit(j) ==
  /\ task[j] \in {"completing", "failing"}
  /\ status' = IF status[j] # "running" THEN status
               ELSE [status EXCEPT ![j] = IF task[j] = "completing" THEN "completed" ELSE "failed"]
  /\ Goto(j, "done")
  /\ UNCHANGED <<stored, request, late, copy, acked, editor, deletion, limits>>

\* An error of the start or of the commit ends the task; its UPDATE may be lost or done.
RunnerFault(j) ==
  /\ task[j] \in {"starting", "completing", "failing"} /\ faults < MaxFaults
  /\ faults' = faults + 1
  /\ \/ UNCHANGED status
     \/ task[j] = "starting" /\ status[j] = "queued"
        /\ status' = [status EXCEPT ![j] = "running"]
     \/ task[j] # "starting" /\ status[j] = "running"
        /\ \E verdict \in {"completed", "failed"} : status' = [status EXCEPT ![j] = verdict]
  /\ Goto(j, "done")
  /\ UNCHANGED <<stored, request, late, copy, acked, editor, deletion, stops>>

\* The reaper takes a row for stale; the handler, if there is one, is not told.
Reap(j) ==
  /\ status[j] \in Active
  /\ status' = [status EXCEPT ![j] = "failed"]
  /\ UNCHANGED <<stored, request, late, handler, editor, deletion, limits>>

\* The process dies and starts again: tasks, permits and requests in flight are gone.
Restart ==
  /\ stops < MaxStops
  /\ stops' = stops + 1
  /\ task' = [j \in Jobs |-> IF task[j] = "none" THEN "none" ELSE "done"]
  /\ request' = [j \in Jobs |-> IF request[j] \in {"loaded", "checked"} THEN "refused"
                                ELSE request[j]]
  /\ deletion' = IF deletion = "checked" THEN "idle" ELSE deletion
  /\ UNCHANGED <<stored, rows, copy, acked, editor, faults>>

-----------------------------------------------------------------------------
(* The editor and DELETE                                                   *)

\* External: the editor loads the remix.
EditorLoad(e) ==
  /\ remix = "present" /\ saved[e] = "idle"
  /\ draft' = [draft EXCEPT ![e] = column]
  /\ saved' = [saved EXCEPT ![e] = "loaded"]
  /\ UNCHANGED <<stored, request, rows, handler, deletion, limits>>

\* The whole-column PATCH of what the editor made of its draft. The editor holds it back while it
\* sees an active job (the gate the comments of the adapter count on); the route does not.
EditorSave(e) ==
  /\ saved[e] = "loaded" /\ ActiveJobs = {}
  /\ column' = IF remix = "present" THEN draft[e] \cup {e} ELSE column
  /\ saved' = [saved EXCEPT ![e] = "saved"]
  /\ UNCHANGED <<remix, request, rows, handler, draft, deletion, limits>>

\* Mutant: only a running job keeps DELETE from going on.
DeleteCheckRunning ==
  /\ deletion = "idle"
  /\ ~\E j \in Jobs : status[j] = "running"
  /\ deletion' = "checked"
  /\ late' = {}
  /\ UNCHANGED <<stored, request, status, handler, editor, limits>>

\* has_active_job; with an active job the request ends in REMIX_BUSY.
DeleteCheck ==
  /\ deletion = "idle" /\ ActiveJobs = {}
  /\ deletion' = "checked"
  /\ late' = {}
  /\ UNCHANGED <<stored, request, status, handler, editor, limits>>

\* The DELETE statement, a statement of its own.
DeleteRow ==
  /\ deletion = "checked"
  /\ deletion' = "done"
  /\ remix' = "deleted"
  /\ column' = {}
  /\ UNCHANGED <<request, rows, handler, editor, limits>>

Request(j) == RequestLoad(j) \/ RequestCheck(j) \/ RequestInsert(j)
Handler(j) ==
  \/ Acquire(j) \/ Start(j) \/ Load(j) \/ GiveUp(j) \/ Persist(j) \/ PersistFault(j)
  \/ Commit(j) \/ RunnerFault(j)
Editor(e) == EditorLoad(e) \/ EditorSave(e)

Next == \/ \E j \in Jobs : Request(j) \/ Handler(j) \/ Reap(j)
        \/ \E e \in Edits : Editor(e)
        \/ DeleteCheck \/ DeleteRow
        \/ Restart

Spec == Init /\ [][Next]_vars

-----------------------------------------------------------------------------
(* Properties                                                              *)

TypeOK ==
  /\ remix \in {"present", "deleted"}
  /\ column \subseteq Jobs \cup Edits /\ (remix = "deleted" => column = {})
  /\ request \in [Jobs -> {"idle", "loaded", "checked", "enqueued", "deduped", "refused"}]
  /\ status \in [Jobs -> Active \cup {"absent", "completed", "failed"}]
  /\ task \in [Jobs -> Holding \cup {"none", "waiting", "done"}]
  /\ copy \in [Jobs -> SUBSET (Jobs \cup Edits)]
  /\ acked \subseteq Jobs
  /\ draft \in [Edits -> SUBSET (Jobs \cup Edits)]
  /\ saved \in [Edits -> {"idle", "loaded", "saved"}]
  /\ deletion \in {"idle", "checked", "done"}
  /\ late \subseteq Jobs
  /\ stops \in Nat /\ faults \in Nat

\* The write of a job whose row is still running loses nobody's work, neither another job's nor
\* the editor's, although two jobs may be active at once and a reaped one may still be at work:
\* the load and the write happen under the same permit of a semaphore of one.
LiveJobLosesNothing ==
  [][\A j \in Jobs :
       task[j] = "working" /\ task'[j] = "completing" /\ status[j] = "running" /\ remix = "present"
         => column \subseteq column']_vars

\* Work returned as processed is in the column as long as nobody else but jobs wrote it: no
\* zombie, duplicate or restart loses it, even one that is not allowed to commit any more.
AckedIsStored ==
  remix = "present" /\ (\A e \in Edits : saved[e] # "saved") => acked \subseteq column

\* DELETE takes the remix away only from jobs inserted after its look at the job rows.
DeleteSparesOlderJobs ==
  [][remix = "present" /\ remix' = "deleted" => ActiveJobs \subseteq late]_vars
=============================================================================
