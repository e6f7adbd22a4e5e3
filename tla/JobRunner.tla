----------------------------- MODULE JobRunner -----------------------------
(***************************************************************************)
(* The background-job library of the service (src/jobs) over the rows of   *)
(* background_jobs: enqueue, the per-type semaphore, the worker task, the  *)
(* reaper, the cancel route, the lifespan shutdown, crashes and restarts.  *)
(*                                                                         *)
(* One action is one event-loop turn that ends at an await or one SQL      *)
(* statement: the asyncio process is single-threaded, and every adapter    *)
(* method is a single autocommitted statement.                             *)
(*                                                                         *)
(* Abstractions: timestamps are only "older than the reaper's threshold or *)
(* not"; step_details and results are left out; a waiter of the semaphore  *)
(* may be served in any order (asyncio serves FIFO, one of these orders).  *)
(***************************************************************************)
EXTENDS Integers, FiniteSets

CONSTANTS Jobs,        \* ids of background_jobs rows this service inserts
          Types,       \* registered job types
          TypeOf,      \* Jobs -> Types
          SemCap,      \* Types -> concurrency cap (config.SEMS_BY_TYPE)
          Cancellable, \* bound: jobs a client may ask to cancel, once each
          MaxReports,  \* bound: progress reports of one handler run
          MaxFaults,   \* bound: database errors
          MaxShutdowns, \* bound: graceful shutdowns
          MaxCrashes    \* bound: crashes

ASSUME JobsAssumption == IsFiniteSet(Jobs)
ASSUME TypeOfAssumption == TypeOf \in [Jobs -> Types]
ASSUME SemCapAssumption == SemCap \in [Types -> Nat \ {0}]
ASSUME BoundsAssumption ==
  /\ Cancellable \subseteq Jobs
  /\ MaxReports \in Nat /\ MaxFaults \in Nat /\ MaxShutdowns \in Nat /\ MaxCrashes \in Nat

VARIABLES
  row,        \* background_jobs.status, "absent" before the INSERT
  cancelReq,  \* background_jobs.cancel_requested
  stale,      \* queued: created_at older than REAPER_QUEUED_STALE_SEC;
              \* running: updated_at older than REAPER_STALE_SEC
  hooked,     \* statuses the finalize hook of the job was called with
  task,       \* where the job's coroutine stands
  verdict,    \* the terminal status the coroutine is about to commit
  seenCancel, \* a check_cancel poll of the handler returned True
  permits,    \* free permits of the semaphore of each type
  sweep,      \* rows the reaper listed and has not dealt with yet
  canceller,  \* the cancel request in flight for the job
  proc,       \* the process
  aborted,    \* jobs whose task the shutdown cancelled
  reports,    \* progress reports of the handler run
  faults, shutdowns, crashes

rowVars == <<row, cancelReq, stale>>
locals == <<verdict, seenCancel, reports>>
taskVars == <<task, permits, locals>>
stops == <<shutdowns, crashes>>
counters == <<faults, stops>>
vars == <<rowVars, hooked, taskVars, sweep, canceller, proc, aborted, counters>>

Spc == INSTANCE JobSpec WITH status <- row

Terminal == Spc!Terminal
Status == {"absent", "queued", "running"} \cup Terminal

\* Places where the coroutine holds a permit: inside `async with sem`.
Holding == {"starting", "handling", "finalizing", "committing", "rescuing", "recommitting"}
TaskPC == {"none", "inserted", "waiting", "done"} \cup Holding
ProcState == {"up", "draining", "cancelling", "down"}
SweepState == {"none", "queued", "running", "won"}

Holders(t) == {j \in Jobs : TypeOf[j] = t /\ task[j] \in Holding}

\* A cancelled task runs nothing but the delivery of its CancelledError first.
CanStep(j) == proc \in {"up", "draining"} \/ (proc = "cancelling" /\ j \in aborted)

-----------------------------------------------------------------------------
(* Statements                                                              *)

\* Mutant: the UPDATE loses its "AND status = ..." clause.
CasUnguarded(j, from, to) ==
  /\ row' = [row EXCEPT ![j] = to]
  /\ stale' = [stale EXCEPT ![j] = FALSE]

\* UPDATE ... WHERE id = j AND status = from: `to` is written, updated_at bumped, or nothing.
Cas(j, from, to) ==
  IF row[j] = from
  THEN /\ row' = [row EXCEPT ![j] = to]
       /\ stale' = [stale EXCEPT ![j] = FALSE]
  ELSE UNCHANGED <<row, stale>>

\* The statement failed or was cancelled on the client: the server may have run it.
MaybeCas(j, from, to) == Cas(j, from, to) \/ UNCHANGED <<row, stale>>

\* Any other UPDATE of the row: it bumps updated_at and leaves created_at alone.
Touch(j) == stale' = [stale EXCEPT ![j] = @ /\ row[j] # "running"]

Goto(j, pc) == task' = [task EXCEPT ![j] = pc]

\* Leaving `async with sem` by return or by exception.
Release(j) == permits' = [permits EXCEPT ![TypeOf[j]] = @ + 1]

\* Mutant: acquire without `async with`, no release on the way out.
EndLeaks(j) ==
  /\ Goto(j, "done") /\ UNCHANGED permits
  /\ verdict' = [verdict EXCEPT ![j] = "failed"]
  /\ seenCancel' = [seenCancel EXCEPT ![j] = FALSE]
  /\ reports' = [reports EXCEPT ![j] = 0]

End(j) ==
  /\ Goto(j, "done") /\ Release(j)
  /\ verdict' = [verdict EXCEPT ![j] = "failed"]
  /\ seenCancel' = [seenCancel EXCEPT ![j] = FALSE]
  /\ reports' = [reports EXCEPT ![j] = 0]

RunHook(j) == hooked' = [hooked EXCEPT ![j] = @ \cup {verdict[j]}]

Fault == faults < MaxFaults /\ faults' = faults + 1

-----------------------------------------------------------------------------
Init ==
  /\ row = [j \in Jobs |-> "absent"]
  /\ cancelReq = [j \in Jobs |-> FALSE]
  /\ stale = [j \in Jobs |-> FALSE]
  /\ hooked = [j \in Jobs |-> {}]
  /\ task = [j \in Jobs |-> "none"]
  /\ verdict = [j \in Jobs |-> "failed"]
  /\ seenCancel = [j \in Jobs |-> FALSE]
  /\ permits = SemCap
  /\ sweep = [j \in Jobs |-> "none"]
  /\ canceller = [j \in Jobs |-> "idle"]
  /\ proc = "up"
  /\ aborted = {}
  /\ reports = [j \in Jobs |-> 0]
  /\ faults = 0
  /\ shutdowns = 0
  /\ crashes = 0

-----------------------------------------------------------------------------
(* enqueue: INSERT, then create_task                                       *)

Insert(j) ==
  /\ proc = "up" /\ row[j] = "absent"
  /\ row' = [row EXCEPT ![j] = "queued"]
  /\ Goto(j, "inserted")
  /\ UNCHANGED <<cancelReq, stale, hooked, locals, permits, sweep, canceller, proc, aborted,
                 counters>>

Spawn(j) ==
  /\ task[j] = "inserted"
  /\ Goto(j, "waiting")
  /\ UNCHANGED <<rowVars, hooked, locals, permits, sweep, canceller, proc, aborted, counters>>

-----------------------------------------------------------------------------
(* _run and _execute                                                       *)

Acquire(j) ==
  /\ CanStep(j) /\ task[j] = "waiting" /\ permits[TypeOf[j]] > 0
  /\ permits' = [permits EXCEPT ![TypeOf[j]] = @ - 1]
  /\ Goto(j, "starting")
  /\ UNCHANGED <<rowVars, hooked, locals, sweep, canceller, proc, aborted, counters>>

\* Mutant: `if not started` is missing.
StartUnchecked(j) ==
  /\ CanStep(j) /\ task[j] = "starting"
  /\ Cas(j, "queued", "running")
  /\ Goto(j, "handling")
  /\ UNCHANGED <<permits, locals, cancelReq, hooked, sweep, canceller, proc, aborted, counters>>

Start(j) ==
  /\ CanStep(j) /\ task[j] = "starting"
  /\ Cas(j, "queued", "running")
  /\ IF row[j] = "queued" THEN Goto(j, "handling") /\ UNCHANGED <<permits, locals>> ELSE End(j)
  /\ UNCHANGED <<cancelReq, hooked, sweep, canceller, proc, aborted, counters>>

\* The start UPDATE is outside the try block: its error ends the task.
StartFault(j) ==
  /\ CanStep(j) /\ task[j] = "starting" /\ Fault
  /\ MaybeCas(j, "queued", "running")
  /\ End(j)
  /\ UNCHANGED <<cancelReq, hooked, sweep, canceller, proc, aborted, stops>>

\* ctx.report: an unconditional UPDATE, whatever the row's status is by now.
Report(j) ==
  /\ CanStep(j) /\ task[j] = "handling" /\ reports[j] < MaxReports
  /\ Touch(j)
  /\ reports' = [reports EXCEPT ![j] = @ + 1]
  /\ UNCHANGED <<row, cancelReq, hooked, task, verdict, seenCancel, permits, sweep, canceller, proc,
                 aborted, counters>>

PollCancel(j) ==
  /\ CanStep(j) /\ task[j] = "handling"
  /\ seenCancel' = [seenCancel EXCEPT ![j] = cancelReq[j]]
  /\ UNCHANGED <<rowVars, hooked, task, verdict, reports, permits, sweep, canceller, proc, aborted,
                 counters>>

\* Mutant: a handler reports "cancelled" without having polled the flag.
ReturnsUnpolled(j) ==
  /\ CanStep(j) /\ task[j] = "handling"
  /\ \E v \in Terminal : verdict' = [verdict EXCEPT ![j] = v]
  /\ Goto(j, "finalizing")
  /\ UNCHANGED <<rowVars, hooked, seenCancel, reports, permits, sweep, canceller, proc, aborted,
                 counters>>

\* Mutant: status first, hook never (the "optimization" the docstring warns of).
ReturnsToCommit(j) ==
  /\ CanStep(j) /\ task[j] = "handling"
  /\ \E v \in Terminal :
       /\ v = "cancelled" => seenCancel[j]
       /\ verdict' = [verdict EXCEPT ![j] = v]
  /\ Goto(j, "committing")
  /\ UNCHANGED <<rowVars, hooked, seenCancel, reports, permits, sweep, canceller, proc, aborted,
                 counters>>

\* Every handler returns "cancelled" only after a poll that saw the flag.
HandlerReturns(j) ==
  /\ CanStep(j) /\ task[j] = "handling"
  /\ \E v \in Terminal :
       /\ v = "cancelled" => seenCancel[j]
       /\ verdict' = [verdict EXCEPT ![j] = v]
  /\ Goto(j, "finalizing")
  /\ UNCHANGED <<rowVars, hooked, seenCancel, reports, permits, sweep, canceller, proc, aborted,
                 counters>>

\* The try block is left with `v` as the outcome the except block will commit.
ToRescue(j, v) ==
  /\ Goto(j, "rescuing")
  /\ verdict' = [verdict EXCEPT ![j] = v]
  /\ UNCHANGED <<seenCancel, reports, permits>>

\* Mutant: an exception ends the task without a commit.
RaisesUncommitted(j) ==
  /\ CanStep(j) /\ task[j] = "handling"
  /\ End(j)
  /\ UNCHANGED <<rowVars, hooked, sweep, canceller, proc, aborted, counters>>

\* The handler raises, or returns something that is not (terminal status, payload).
HandlerRaises(j) ==
  /\ CanStep(j) /\ task[j] = "handling"
  /\ ToRescue(j, "failed")
  /\ UNCHANGED <<rowVars, hooked, sweep, canceller, proc, aborted, counters>>

\* _finalize_then_commit, first half: the hook; its errors are swallowed.
Finalize(j) ==
  /\ CanStep(j)
  /\ \/ task[j] = "finalizing" /\ Goto(j, "committing")
     \/ task[j] = "rescuing" /\ Goto(j, "recommitting")
  /\ RunHook(j)
  /\ UNCHANGED <<rowVars, locals, permits, sweep, canceller, proc, aborted, counters>>

\* _finalize_then_commit, second half: the CAS running -> verdict; a lost CAS ends the task too.
Commit(j) ==
  /\ CanStep(j) /\ task[j] \in {"committing", "recommitting"}
  /\ Cas(j, "running", verdict[j])
  /\ End(j)
  /\ UNCHANGED <<cancelReq, hooked, sweep, canceller, proc, aborted, counters>>

\* An error of the commit inside the try block counts as the handler's failure; one in the
\* except block ends the task.
CommitFault(j) ==
  /\ CanStep(j) /\ Fault
  /\ \/ task[j] = "committing" /\ ToRescue(j, "failed")
     \/ task[j] = "recommitting" /\ End(j)
  /\ MaybeCas(j, "running", verdict[j])
  /\ UNCHANGED <<cancelReq, hooked, sweep, canceller, proc, aborted, stops>>

-----------------------------------------------------------------------------
(* The reaper                                                              *)

ReaperIdle == \A j \in Jobs : sweep[j] = "none"

\* The row gets older than the threshold of its status.
Ages(j) ==
  /\ row[j] \in Spc!Active /\ ~stale[j]
  /\ stale' = [stale EXCEPT ![j] = TRUE]
  /\ UNCHANGED <<row, cancelReq, hooked, taskVars, sweep, canceller, proc, aborted, counters>>

\* Mutant: the SELECT has no status condition.
ReapListAnyStatus ==
  /\ proc = "up" /\ ReaperIdle /\ \E j \in Jobs : stale[j]
  /\ sweep' = row
  /\ UNCHANGED <<rowVars, hooked, taskVars, canceller, proc, aborted, counters>>

\* Mutant: the sweep looks for the spawn race only.
ReapListQueuedOnly ==
  /\ proc = "up" /\ ReaperIdle /\ \E j \in Jobs : stale[j] /\ row[j] = "queued"
  /\ sweep' = [j \in Jobs |-> IF stale[j] /\ row[j] = "queued" THEN "queued" ELSE "none"]
  /\ UNCHANGED <<rowVars, hooked, taskVars, canceller, proc, aborted, counters>>

\* list_stale_jobs: one SELECT.
ReapList ==
  /\ proc = "up" /\ ReaperIdle /\ \E j \in Jobs : stale[j]
  /\ sweep' = [j \in Jobs |-> IF stale[j] THEN row[j] ELSE "none"]
  /\ UNCHANGED <<rowVars, hooked, taskVars, canceller, proc, aborted, counters>>

\* Mutant: the reaper forgets the finalize hook of the rows it failed.
ReapRowSilently(j) ==
  /\ proc = "up" /\ sweep[j] \in {"queued", "running"} /\ \A k \in Jobs : sweep[k] # "won"
  /\ Cas(j, sweep[j], "failed")
  /\ sweep' = [sweep EXCEPT ![j] = "none"]
  /\ UNCHANGED <<cancelReq, hooked, taskVars, canceller, proc, aborted, counters>>

\* The CAS is guarded on the listed status alone, not on the timestamp.
ReapRow(j) ==
  /\ proc = "up" /\ sweep[j] \in {"queued", "running"} /\ \A k \in Jobs : sweep[k] # "won"
  /\ Cas(j, sweep[j], "failed")
  /\ sweep' = [sweep EXCEPT ![j] = IF row[j] = sweep[j] THEN "won" ELSE "none"]
  /\ UNCHANGED <<cancelReq, hooked, taskVars, canceller, proc, aborted, counters>>

ReapHook(j) ==
  /\ proc = "up" /\ sweep[j] = "won"
  /\ hooked' = [hooked EXCEPT ![j] = @ \cup {"failed"}]
  /\ sweep' = [sweep EXCEPT ![j] = "none"]
  /\ UNCHANGED <<rowVars, taskVars, canceller, proc, aborted, counters>>

\* A database error ends the sweep: the rest of the list waits for the next one.
ReapFault ==
  /\ proc = "up" /\ Fault /\ \A k \in Jobs : sweep[k] # "won"
  /\ \E j \in Jobs : sweep[j] \in {"queued", "running"} /\ MaybeCas(j, sweep[j], "failed")
  /\ sweep' = [j \in Jobs |-> "none"]
  /\ UNCHANGED <<cancelReq, hooked, taskVars, canceller, proc, aborted, stops>>

-----------------------------------------------------------------------------
(* POST /jobs/{id}/cancel: read, then write unconditionally                *)

CancelCheck(j) ==
  /\ proc = "up" /\ j \in Cancellable /\ canceller[j] = "idle" /\ row[j] \in Spc!Active
  /\ canceller' = [canceller EXCEPT ![j] = "checked"]
  /\ UNCHANGED <<rowVars, hooked, taskVars, sweep, proc, aborted, counters>>

CancelWrite(j) ==
  /\ canceller[j] = "checked"
  /\ cancelReq' = [cancelReq EXCEPT ![j] = TRUE]
  /\ Touch(j)
  /\ canceller' = [canceller EXCEPT ![j] = "done"]
  /\ UNCHANGED <<row, hooked, taskVars, sweep, proc, aborted, counters>>

-----------------------------------------------------------------------------
(* The process: shutdown, crash, restart                                   *)

\* uvicorn lets requests in flight finish first; then the reaper is cancelled, perhaps in
\* the middle of a row, and wait_all starts.
BeginShutdown ==
  /\ proc = "up" /\ shutdowns < MaxShutdowns
  /\ \A j \in Jobs : task[j] # "inserted" /\ canceller[j] # "checked"
  /\ \/ UNCHANGED <<row, stale>>
     \/ \E j \in Jobs : /\ \A k \in Jobs : sweep[k] # "won"
                        /\ sweep[j] \in {"queued", "running"} /\ Cas(j, sweep[j], "failed")
  /\ proc' = "draining"
  /\ sweep' = [j \in Jobs |-> "none"]
  /\ shutdowns' = shutdowns + 1
  /\ UNCHANGED <<cancelReq, hooked, taskVars, canceller, aborted, faults, crashes>>

DrainTimeout ==
  /\ proc = "draining" /\ \E j \in Jobs : task[j] \notin {"none", "done"}
  /\ proc' = "cancelling"
  /\ UNCHANGED <<rowVars, hooked, taskVars, sweep, canceller, aborted, counters>>

\* CancelledError is thrown at the await where the task stands: the semaphore, a statement or a
\* hook outside the try block, or one inside it.
Abort(j) ==
  /\ proc = "cancelling" /\ j \notin aborted
  /\ \/ task[j] = "waiting" /\ Goto(j, "done") /\ UNCHANGED <<permits, locals>>
     \/ task[j] \in {"starting", "rescuing", "recommitting"} /\ End(j)
     \/ task[j] \in {"handling", "finalizing", "committing"} /\ ToRescue(j, "cancelled")
  /\ \/ UNCHANGED <<row, stale>>
     \/ task[j] = "starting" /\ Cas(j, "queued", "running")
     \/ task[j] \in {"committing", "recommitting"} /\ Cas(j, "running", verdict[j])
  /\ \/ UNCHANGED hooked
     \/ task[j] \in {"finalizing", "rescuing"} /\ RunHook(j)
  /\ aborted' = aborted \cup {j}
  /\ UNCHANGED <<cancelReq, sweep, canceller, proc, counters>>

\* All that the process holds in taskVars is gone.
Forget ==
  /\ proc' = "down"
  /\ task' = [j \in Jobs |-> "none"]
  /\ verdict' = [j \in Jobs |-> "failed"]
  /\ seenCancel' = [j \in Jobs |-> FALSE]
  /\ reports' = [j \in Jobs |-> 0]
  /\ permits' = SemCap
  /\ sweep' = [j \in Jobs |-> "none"]
  /\ canceller' = [j \in Jobs |-> IF canceller[j] = "checked" THEN "done" ELSE canceller[j]]
  /\ UNCHANGED <<rowVars, hooked, aborted, faults>>

Exit ==
  /\ proc \in {"draining", "cancelling"}
  /\ \A j \in Jobs : task[j] \in {"none", "done"}
  /\ Forget /\ UNCHANGED stops

Crash ==
  /\ proc # "down" /\ crashes < MaxCrashes
  /\ Forget /\ crashes' = crashes + 1 /\ UNCHANGED shutdowns

Restart ==
  /\ proc = "down"
  /\ proc' = "up"
  /\ UNCHANGED <<rowVars, hooked, taskVars, sweep, canceller, aborted, counters>>

-----------------------------------------------------------------------------
Enqueue(j) == Insert(j) \/ Spawn(j)
Handler(j) == Report(j) \/ PollCancel(j) \/ HandlerReturns(j) \/ HandlerRaises(j)
Settle(j) == Finalize(j) \/ Commit(j) \/ CommitFault(j)
Worker(j) == Acquire(j) \/ Start(j) \/ StartFault(j) \/ Handler(j) \/ Settle(j) \/ Abort(j)
Reaper == ReapList \/ ReapFault \/ \E j \in Jobs : ReapRow(j) \/ ReapHook(j)
Client(j) == CancelCheck(j) \/ CancelWrite(j)
Process == BeginShutdown \/ DrainTimeout \/ Exit \/ Crash \/ Restart

Next == \/ \E j \in Jobs : Enqueue(j) \/ Worker(j) \/ Ages(j) \/ Client(j)
        \/ Reaper
        \/ Process

Spec == Init /\ [][Next]_vars

-----------------------------------------------------------------------------
(* Safety                                                                  *)

TypeOK ==
  /\ row \in [Jobs -> Status]
  /\ cancelReq \in [Jobs -> BOOLEAN]
  /\ stale \in [Jobs -> BOOLEAN]
  /\ hooked \in [Jobs -> SUBSET Terminal]
  /\ task \in [Jobs -> TaskPC]
  /\ verdict \in [Jobs -> Terminal]
  /\ seenCancel \in [Jobs -> BOOLEAN]
  /\ permits \in [Types -> Nat]
  /\ sweep \in [Jobs -> SweepState]
  /\ canceller \in [Jobs -> {"idle", "checked", "done"}]
  /\ proc \in ProcState
  /\ aborted \subseteq Jobs
  /\ reports \in [Jobs -> Nat]
  /\ faults \in Nat /\ shutdowns \in Nat /\ crashes \in Nat

\* No exit path of a worker, be it an abort, a lost CAS or an error of any statement, leaks a
\* semaphore permit or returns one twice: free permits and permit holders add up to the cap.
PermitsBalance == \A t \in Types : permits[t] + Cardinality(Holders(t)) = SemCap[t]

\* A job ends cancelled only when a client asked for it or the shutdown aborted its task.
CancelledHasCause == \A j \in Jobs : row[j] = "cancelled" => cancelReq[j] \/ j \in aborted

\* Without database errors and crashes a running row always has its worker: every way out of
\* the handler commits an outcome. Only an abort at the start or in the except block may not.
RunningHasWorker ==
  faults = 0 /\ crashes = 0 =>
    \A j \in Jobs : row[j] = "running" => task[j] \in Holding \ {"starting"} \/ j \in aborted

\* While nothing stops or fails, whoever decided the row also told the hook that decision, or
\* is the reaper between its CAS and its hook call.
HookHearsVerdict ==
  faults = 0 /\ crashes = 0 /\ shutdowns = 0 =>
    \A j \in Jobs : row[j] \in Terminal => row[j] \in hooked[j] \/ sweep[j] = "won"

\* A handler is entered only in the step that takes its row from queued to running, so a row
\* the reaper failed during the semaphore wait is never resurrected or run twice.
EnterOnlyByStart ==
  [][\A j \in Jobs : task'[j] = "handling" /\ task[j] # "handling"
                        => row[j] = "queued" /\ row'[j] = "running"]_vars

\* Finalize before status: a poller never sees completed or cancelled before the job's hook
\* has been told that very status, even when the commit is retried after an error or an abort.
HookBeforeStatus ==
  [][\A j \in Jobs : row'[j] # row[j] /\ row'[j] \in {"completed", "cancelled"}
                        => row'[j] \in hooked[j]]_vars

\* The rows behave as JobSpec says: begun at most once, decided at most once, never undone, for
\* every interleaving of worker, reaper, zombie, cancel, shutdown and crash.
RefinesJobSpec == Spc!Spec

\* The docstring of register_finalize: the hook "never double-fires for the same job".
HookFiresOnce == \A j \in Jobs : Cardinality(hooked[j]) <= 1

-----------------------------------------------------------------------------
(* Liveness                                                                *)

\* The event loop runs every ready coroutine, time passes, the reaper loops, the supervisor
\* restarts the process. Nothing is assumed of handlers: an AI call may hang for ever.
Fairness ==
  /\ \A j \in Jobs :
       /\ WF_vars(Spawn(j)) /\ WF_vars(Acquire(j)) /\ WF_vars(Start(j))
       /\ WF_vars(Finalize(j)) /\ WF_vars(Commit(j)) /\ WF_vars(Abort(j))
       /\ WF_vars(Ages(j)) /\ WF_vars(ReapRow(j)) /\ WF_vars(ReapHook(j)) /\ WF_vars(CancelWrite(j))
  /\ WF_vars(ReapList) /\ WF_vars(DrainTimeout) /\ WF_vars(Exit) /\ WF_vars(Restart)

FairSpec == Spec /\ Fairness

\* Every submitted job is decided in the end, although nothing ever re-runs a job whose
\* process died and a handler may hang: the reaper is the safety net for both.
JobsSettle == \A j \in Jobs : row[j] = "queued" ~> row[j] \in Terminal

\* While handlers keep returning, every spawned task gets its permit and ends.
WaitersServed ==
  (\A j \in Jobs : []<>(task[j] # "handling"))
    => \A j \in Jobs : task[j] = "waiting" ~> task[j] \in {"none", "done"}
=============================================================================
