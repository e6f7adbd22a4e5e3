------------------------------ MODULE StageJob ------------------------------
(***************************************************************************)
(* One crop-pipeline stage column of a remix (rmbgs, shaped like mixes and *)
(* upscales) and the handler runs over it: remix_rmbg in full; remix_mix_  *)
(* swap and remix_upscale share its skeleton.                              *)
(*                                                                         *)
(* A handler loads the whole column, works sheet by sheet on its copy, and *)
(* writes the whole column once at the end. A sheet's AI and storage calls *)
(* are one step that succeeds or fails. Runs of one column do not overlap  *)
(* here (the dedup of the enqueue route), and the editor writes the column *)
(* between runs only, as update_remix_job_column says of its callers.      *)
(***************************************************************************)
EXTENDS Integers, Sequences, FiniteSets

CONSTANTS Batches,    \* batch entries of the column
          Sheets,     \* crop_sheets indices of a batch
          Keys,       \* layer positions (spread_id, id)
          CropsOf,    \* Batches -> Sheets -> keys of original_crops; {}: no crops
          SheetCap,   \* MAX_CONCURRENT_SHEETS
          MaxJobs,    \* bound: handler runs
          MaxFaults,  \* bound: database errors
          MaxPatches, \* bound: editor writes of the column
          MaxAborts   \* bound: shutdown aborts or crashes

ASSUME SheetsAssumption == IsFiniteSet(Sheets) /\ SheetCap \in Nat \ {0}
ASSUME LayoutAssumption ==
  /\ CropsOf \in [Batches -> [Sheets -> SUBSET Keys]]
  /\ \A b \in Batches, s, t \in Sheets : s # t => CropsOf[b][s] \cap CropsOf[b][t] = {}
ASSUME LimitsAssumption ==
  MaxJobs \in Nat /\ MaxFaults \in Nat /\ MaxPatches \in Nat /\ MaxAborts \in Nat

VARIABLES
  column,     \* the column in the database: swap_results of every sheet of every batch
  mem,        \* the handler's copy
  phase,      \* where the handler stands, or how it ended
  target, force, cancelReq, \* the run: batch, force_resweep, cancel_requested
  sheet,      \* where do_sheet stands
  mark,       \* sheets_block: the state of each sheet in step_details
  tally,      \* processed, skipped, failed, done_count
  jobs, faults, patches, aborts

request == <<target, force>>
work == <<sheet, mark, tally>>
limits == <<jobs, patches, aborts>>
vars == <<column, mem, phase, request, cancelReq, work, faults, limits>>

Result == [sel : BOOLEAN, crops : SUBSET Keys, final : SUBSET Keys]
Column == [Batches -> [Sheets -> Seq(Result)]]
Returned == {"completed", "cancelled", "failed"}
Ended == Returned \cup {"raised"}
Running == {"queued", "polling", "gathering", "persisting", "demoting", "settling"}
Entered == {"working", "polling", "cutting", "finishing"}
Marks == {"none", "pending", "running", "rmbg_done", "done", "failed", "cancelled"}

Marked(m) == {s \in Sheets : mark[s] = m}
At(pc) == {s \in Sheets : sheet[s] = pc}

-----------------------------------------------------------------------------
(* The column                                                              *)

HasSelected(results) == \E i \in DOMAIN results : results[i].sel

\* collect_stage_scope, and the handler's own rebuild of the scope.
Scope(col, b, f) == {s \in Sheets : CropsOf[b][s] # {} /\ (f \/ ~HasSelected(col[b][s]))}

Unselect(results) == [i \in DOMAIN results |-> [results[i] EXCEPT !.sel = FALSE]]

\* The new result comes after the unselected history, which force_resweep drops.
AddResult(results, f, crops) ==
  Append(IF f THEN << >> ELSE Unselect(results), [sel |-> TRUE, crops |-> crops, final |-> {}])

Clear(results, keys) == [i \in DOMAIN results |-> [results[i] EXCEPT !.final = @ \ keys]]

FirstSelected(results) ==
  CHOOSE i \in DOMAIN results : results[i].sel /\ \A k \in 1 .. (i - 1) : ~results[k].sel

\* Mutant: the winners of other batches keep their flag.
PromoteOwnOnly(col, b, s) ==
  LET i == FirstSelected(col[b][s]) IN
  [col EXCEPT ![b][s][i].final = col[b][s][i].crops]

\* promote_is_final_for_sheet: the sheet's selected crops win their positions from the other
\* batches, history included; the sheet's own batch is not walked.
Promote(col, b, s) ==
  LET i == FirstSelected(col[b][s])
      keys == col[b][s][i].crops
  IN [c \in Batches |->
        IF c = b THEN [col[b] EXCEPT ![s][i].final = keys]
        ELSE [t \in Sheets |-> Clear(col[c][t], keys)]]

Store(col, b, s, f, crops) == Promote([col EXCEPT ![b][s] = AddResult(@, f, crops)], b, s)

-----------------------------------------------------------------------------
Fault == faults < MaxFaults /\ faults' = faults + 1

Count(field, n) == tally' = [tally EXCEPT ![field] = @ + n]

\* do_sheet of s settles on m, counted in field, and enters its finally block.
Settled(s, m, field) ==
  /\ sheet' = [sheet EXCEPT ![s] = "finishing"]
  /\ mark' = [mark EXCEPT ![s] = m]
  /\ Count(field, 1)

Init ==
  /\ column = [b \in Batches |-> [s \in Sheets |-> << >>]]
  /\ mem = column
  /\ phase = "idle"
  /\ target \in Batches
  /\ force = FALSE
  /\ cancelReq = FALSE
  /\ sheet = [s \in Sheets |-> "none"]
  /\ mark = [s \in Sheets |-> "none"]
  /\ tally = [processed |-> 0, skipped |-> 0, failed |-> 0, done |-> 0]
  /\ jobs = 0 /\ faults = 0 /\ patches = 0 /\ aborts = 0

\* The route starts a run only for a batch with sheets in scope.
Enqueue ==
  /\ phase \in Ended \cup {"idle"} /\ jobs < MaxJobs
  /\ \A s \in Sheets : sheet[s] \in {"none", "finished"}
  /\ \E b \in Batches, f \in BOOLEAN :
       Scope(column, b, f) # {} /\ target' = b /\ force' = f
  /\ phase' = "queued"
  /\ cancelReq' = FALSE
  /\ sheet' = [s \in Sheets |-> "none"]
  /\ mark' = [s \in Sheets |-> "none"]
  /\ tally' = [processed |-> 0, skipped |-> 0, failed |-> 0, done |-> 0]
  /\ jobs' = jobs + 1
  /\ UNCHANGED <<column, mem, faults, patches, aborts>>

\* External, the editor's whole-column PATCH: it takes back the selection of a sheet.
Patch ==
  /\ phase \in Ended /\ patches < MaxPatches
  /\ \E b \in Batches, s \in Sheets :
       /\ HasSelected(column[b][s])
       /\ column' = [column EXCEPT ![b][s] = Unselect(@)]
  /\ patches' = patches + 1
  /\ UNCHANGED <<mem, phase, request, cancelReq, work, faults, jobs, aborts>>

RequestCancel ==
  /\ phase \in Running /\ ~cancelReq
  /\ cancelReq' = TRUE
  /\ UNCHANGED <<column, mem, phase, request, work, faults, limits>>

-----------------------------------------------------------------------------
(* The handler before the sheets                                           *)

Load ==
  /\ phase = "queued"
  /\ mem' = column
  /\ mark' = [s \in Sheets |-> IF s \in Scope(column, target, force) THEN "pending" ELSE "none"]
  /\ phase' = IF Scope(column, target, force) = {} THEN "completed" ELSE "polling"
  /\ UNCHANGED <<column, request, cancelReq, sheet, tally, faults, limits>>

\* A failed load is a returned failure, not an exception.
LoadFault ==
  /\ phase = "queued" /\ Fault
  /\ phase' = "failed"
  /\ UNCHANGED <<column, mem, request, cancelReq, work, limits>>

FirstPoll ==
  /\ phase = "polling"
  /\ IF cancelReq
     THEN phase' = "cancelled" /\ UNCHANGED sheet
     ELSE /\ phase' = "gathering"
          /\ sheet' = [s \in Sheets |-> IF mark[s] = "pending" THEN "waiting" ELSE "none"]
  /\ UNCHANGED <<column, mem, request, cancelReq, mark, tally, faults, limits>>

-----------------------------------------------------------------------------
(* do_sheet                                                                *)

\* Mutant: force_resweep empties swap_results up front.
SheetBeginsEmpty(s) ==
  /\ sheet[s] = "waiting" /\ \A t \in Sheets : sheet[t] \notin Entered
  /\ sheet' = [sheet EXCEPT ![s] = "working"]
  /\ mark' = [mark EXCEPT ![s] = "running"]
  /\ mem' = [mem EXCEPT ![target][s] = IF force THEN << >> ELSE @]
  /\ UNCHANGED <<column, phase, request, cancelReq, tally, faults, limits>>

SheetBegins(s) ==
  /\ sheet[s] = "waiting"
  /\ Cardinality({t \in Sheets : sheet[t] \in Entered}) < SheetCap
  /\ sheet' = [sheet EXCEPT ![s] = "working"]
  /\ mark' = [mark EXCEPT ![s] = "running"]
  /\ UNCHANGED <<column, mem, phase, request, cancelReq, tally, faults, limits>>

\* Compose, remove-bg or cut failed, or anything unexpected: the sheet alone fails.
SheetFails(s) ==
  /\ sheet[s] \in {"working", "cutting"}
  /\ Settled(s, "failed", "failed")
  /\ UNCHANGED <<column, mem, phase, request, cancelReq, faults, limits>>

\* The remove-bg call is over: report before the poll.
Heartbeat(s) ==
  /\ sheet[s] = "working"
  /\ sheet' = [sheet EXCEPT ![s] = "polling"]
  /\ mark' = [mark EXCEPT ![s] = "rmbg_done"]
  /\ UNCHANGED <<column, mem, phase, request, cancelReq, tally, faults, limits>>

\* Mutant: a cancelled sheet is not counted as skipped.
PollUncounted(s) ==
  /\ sheet[s] = "polling"
  /\ IF cancelReq
     THEN /\ sheet' = [sheet EXCEPT ![s] = "finishing"]
          /\ mark' = [mark EXCEPT ![s] = "cancelled"]
     ELSE sheet' = [sheet EXCEPT ![s] = "cutting"] /\ UNCHANGED mark
  /\ UNCHANGED <<column, mem, phase, request, cancelReq, tally, faults, limits>>

PollSheet(s) ==
  /\ sheet[s] = "polling"
  /\ \/ cancelReq /\ Settled(s, "cancelled", "skipped")
     \/ ~cancelReq /\ sheet' = [sheet EXCEPT ![s] = "cutting"] /\ UNCHANGED <<mark, tally>>
  /\ UNCHANGED <<column, mem, phase, request, cancelReq, faults, limits>>

\* An error of the heartbeat's report or poll is caught by the sheet's own except block.
PollFault(s) ==
  /\ sheet[s] \in {"working", "polling"} /\ Fault
  /\ Settled(s, "failed", "failed")
  /\ UNCHANGED <<column, mem, phase, request, cancelReq, limits>>

\* Mutant: the result is applied without waiting for the poll.
ApplyUnpolled(s) ==
  /\ sheet[s] \in {"polling", "cutting"}
  /\ \E crops \in SUBSET CropsOf[target][s] \ {{}} : mem' = Store(mem, target, s, force, crops)
  /\ Settled(s, "done", "processed")
  /\ UNCHANGED <<column, phase, request, cancelReq, faults, limits>>

\* Cut and upload dropped some pieces, never all; then apply and promote without an await.
Apply(s) ==
  /\ sheet[s] = "cutting"
  /\ \E crops \in SUBSET CropsOf[target][s] \ {{}} : mem' = Store(mem, target, s, force, crops)
  /\ Settled(s, "done", "processed")
  /\ UNCHANGED <<column, phase, request, cancelReq, faults, limits>>

\* The finally block: count, then report. Nothing catches an error of this report: gather raises
\* it at once, and the other sheets run on without anyone waiting for them.
Finish(s) ==
  /\ sheet[s] = "finishing"
  /\ sheet' = [sheet EXCEPT ![s] = "finished"]
  /\ Count("done", 1)
  /\ \/ UNCHANGED <<phase, faults>>
     \/ Fault /\ phase' = "raised"
  /\ UNCHANGED <<column, mem, request, cancelReq, mark, limits>>

-----------------------------------------------------------------------------
(* After the gather                                                        *)

Gathered ==
  /\ phase = "gathering" /\ \A s \in Sheets : sheet[s] \in {"none", "finished"}
  /\ phase' = IF tally.processed > 0 THEN "persisting" ELSE "settling"
  /\ UNCHANGED <<column, mem, request, cancelReq, work, faults, limits>>

\* The one write of the run: the whole column.
Persist ==
  /\ phase = "persisting"
  /\ column' = mem
  /\ phase' = "settling"
  /\ UNCHANGED <<mem, request, cancelReq, work, faults, limits>>

\* Mutant: the error is logged and the sheets stay done.
PersistFaultKept ==
  /\ phase = "persisting" /\ Fault
  /\ column' \in {column, mem}
  /\ phase' = "settling"
  /\ UNCHANGED <<mem, request, cancelReq, work, limits>>

\* Mutant: every sheet of the run is demoted, not only the done ones.
PersistFaultAll ==
  /\ phase = "persisting" /\ Fault
  /\ column' \in {column, mem}
  /\ mark' = [s \in Sheets |-> IF mark[s] = "none" THEN "none" ELSE "failed"]
  /\ tally' = [tally EXCEPT !.processed = @ - Cardinality(Sheets \ Marked("none")),
                            !.failed = @ + Cardinality(Sheets \ Marked("none"))]
  /\ phase' = "demoting"
  /\ UNCHANGED <<mem, request, cancelReq, sheet, limits>>

\* The write failed for the client, whatever the server did: the done sheets are demoted.
\* The handler also restores its copy, which nothing reads any more.
PersistFault ==
  /\ phase = "persisting" /\ Fault
  /\ column' \in {column, mem}
  /\ mark' = [s \in Sheets |-> IF mark[s] = "done" THEN "failed" ELSE mark[s]]
  /\ tally' = [tally EXCEPT !.processed = @ - Cardinality(Marked("done")),
                            !.failed = @ + Cardinality(Marked("done"))]
  /\ phase' = "demoting"
  /\ UNCHANGED <<mem, request, cancelReq, sheet, limits>>

\* The report of the demoted sheets.
ReportDemoted ==
  /\ phase = "demoting"
  /\ phase' = "settling"
  /\ UNCHANGED <<column, mem, request, cancelReq, work, faults, limits>>

\* Mutant: "cancelled" only when nothing was processed.
SettleOnWork ==
  /\ phase = "settling"
  /\ phase' = IF cancelReq /\ tally.processed = 0 THEN "cancelled" ELSE "completed"
  /\ UNCHANGED <<column, mem, request, cancelReq, work, faults, limits>>

\* A late cancel is reported although the work above stays persisted.
Settle ==
  /\ phase = "settling"
  /\ phase' = IF cancelReq THEN "cancelled" ELSE "completed"
  /\ UNCHANGED <<column, mem, request, cancelReq, work, faults, limits>>

\* Polls and reports of the handler itself, outside any try block.
HandlerFault ==
  /\ phase \in {"polling", "demoting", "settling"} /\ Fault
  /\ phase' = "raised"
  /\ UNCHANGED <<column, mem, request, cancelReq, work, limits>>

\* The shutdown cancels the task, or the process dies: the sheets past the semaphore run their
\* finally block at most, a write in flight may have reached the server.
Abort ==
  /\ aborts < MaxAborts
  /\ phase \in Running \/ \E s \in Sheets : sheet[s] \in Entered \cup {"waiting"}
  /\ phase' = "raised"
  /\ sheet' = [s \in Sheets |-> CASE sheet[s] \in Entered -> "finished"
                                  [] sheet[s] = "waiting" -> "none"
                                  [] OTHER -> sheet[s]]
  /\ Count("done", Cardinality({s \in Sheets : sheet[s] \in Entered}))
  /\ IF phase = "persisting" THEN column' \in {column, mem} ELSE UNCHANGED column
  /\ aborts' = aborts + 1
  /\ UNCHANGED <<mem, request, cancelReq, mark, faults, jobs, patches>>

DoSheet(s) ==
  \/ SheetBegins(s) \/ SheetFails(s) \/ Heartbeat(s) \/ PollSheet(s) \/ PollFault(s)
  \/ Apply(s) \/ Finish(s)
Before == Load \/ LoadFault \/ FirstPoll
After == Gathered \/ Persist \/ PersistFault \/ ReportDemoted \/ Settle
Client == Enqueue \/ Patch \/ RequestCancel

Next == \/ Client \/ Before \/ After \/ HandlerFault \/ Abort
        \/ \E s \in Sheets : DoSheet(s)

Spec == Init /\ [][Next]_vars

-----------------------------------------------------------------------------
(* Properties                                                              *)

TypeOK ==
  /\ column \in Column /\ mem \in Column
  /\ phase \in Running \cup Ended \cup {"idle"}
  /\ target \in Batches /\ force \in BOOLEAN /\ cancelReq \in BOOLEAN
  /\ sheet \in [Sheets -> {"none", "waiting", "finished"} \cup Entered]
  /\ mark \in [Sheets -> Marks]
  /\ tally \in [processed : Nat, skipped : Nat, failed : Nat, done : Nat]
  /\ jobs \in Nat /\ faults \in Nat /\ patches \in Nat /\ aborts \in Nat

\* The counts of the result say what step_details says sheet by sheet, through failures, cancels
\* and the demotion of a failed write; done_count is the number of sheets that are over.
TallyMatchesMarks ==
  /\ tally.processed = Cardinality(Marked("done"))
  /\ tally.skipped = Cardinality(Marked("cancelled"))
  /\ tally.failed = Cardinality(Marked("failed"))
  /\ tally.done = Cardinality(At("finished"))

\* The i-th result of sheet s of batch b is selected and has position k among its crops; and its
\* crop is the final one.
Holds(k, b, s, i) == column[b][s][i].sel /\ k \in column[b][s][i].crops
Wins(k, b, s, i) == column[b][s][i].sel /\ k \in column[b][s][i].final

\* No two selected crops both claim to be the final of one layer position, in whatever order
\* batches are run, re-swept, cancelled half-way or fail to be written.
OneFinalPerKey ==
  \A k \in Keys, b, c \in Batches, s, t \in Sheets :
    \A i \in DOMAIN column[b][s], j \in DOMAIN column[c][t] :
      Wins(k, b, s, i) /\ Wins(k, c, t, j) => b = c /\ s = t /\ i = j

\* The docstring of promote_is_final: in a steady state every position with a selected crop
\* has EXACTLY one final crop.
ExactlyOneFinal ==
  /\ OneFinalPerKey
  /\ phase \in Ended \cup {"idle"} =>
       \A k \in Keys :
         (\E b \in Batches, s \in Sheets : \E i \in DOMAIN column[b][s] : Holds(k, b, s, i))
           => \E b \in Batches, s \in Sheets : \E i \in DOMAIN column[b][s] : Wins(k, b, s, i)

\* Once a sheet was cancelled no later sheet of the run is done: the flag is never taken back
\* and every sheet polls it before it touches the column.
NoWorkAfterCancel ==
  [][\A s, t \in Sheets :
       mark[s] = "cancelled" /\ mark[t] # "done" => mark'[t] # "done"]_vars

\* A run that cancelled a sheet does not end as completed, even with work persisted.
CancelSticks == Marked("cancelled") # {} => phase # "completed"

\* What a run returns as done is in the database when it returns.
ReportedIsStored ==
  [][(phase \in Running /\ phase' \in Returned) =>
       \A s \in Sheets : mark'[s] = "done" =>
         HasSelected(column'[target][s]) /\ column'[target][s] = mem'[target][s]]_vars

Drained(results) == [i \in DOMAIN results |-> [results[i] EXCEPT !.final = {}]]

\* A sheet that failed, was cancelled or was not in scope keeps its stored results; a run may
\* only move their final flag. So a failed re-sweep never costs the result it was to replace.
UntouchedUnlessDone ==
  [][(phase \in Running) =>
       \A b \in Batches, s \in Sheets :
         b # target \/ mark[s] # "done" => Drained(column'[b][s]) = Drained(column[b][s])]_vars

\* The guard comment of the sheets: a failure of one sheet "fails ONLY this sheet, not the whole
\* job", so with no abort the handler never raises once it has started its sheets.
SheetFailsAlone ==
  [][phase = "gathering" /\ aborts' = aborts => phase' # "raised"]_vars
=============================================================================
