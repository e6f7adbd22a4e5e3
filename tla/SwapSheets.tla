----------------------------- MODULE SwapSheets -----------------------------
(***************************************************************************)
(* One run of remix_mix_swap, remix_sprite_swap or remix_upscale over the  *)
(* sheets of one batch (or sprite): the stages of a sheet, the crop tasks  *)
(* of an upscale sheet, and the reports all of them send under one lock.   *)
(*                                                                         *)
(* StageJob follows the column through many runs; here one run is followed *)
(* through its own tasks. An error that escapes a sheet ends the gather    *)
(* and the run, and the tasks the gather had started run on as orphans.    *)
(***************************************************************************)
EXTENDS Integers, Sequences, FiniteSets

CONSTANTS Sheets,     \* crop_sheets indices of the batch
          Keys,       \* positions (spread_id, id), or cells (type, object_key, variant_key)
          CropsOf,    \* kind -> Sheets -> keys of original_crops
          Targets,    \* swap targets, or sprite objects
          Located,    \* targets with a target_base
          Elsewhere,  \* keys another batch may hold the final crop of
          Tagged,     \* the target sets of the sheets, as the instance offers them
          MaxTargets, \* MAX_SWAP_TARGETS, MAX_SWAP_OBJECTS
          SheetCap,   \* MAX_CONCURRENT_SHEETS
          CropCap,    \* MAX_CONCURRENT_UPSCALE_CROPS
          Whole,      \* a sheet's own reports, as opposed to its crops'
          MaxFaults   \* bound: database errors

ASSUME CapsAssumption ==
  /\ IsFiniteSet(Sheets) /\ IsFiniteSet(Keys) /\ IsFiniteSet(Targets)
  /\ SheetCap \in Nat \ {0} /\ CropCap \in Nat \ {0} /\ MaxTargets \in Nat /\ MaxFaults \in Nat
ASSUME LayoutAssumption ==
  /\ CropsOf \in [{"mix", "sprite", "upscale"} -> [Sheets -> SUBSET Keys]]
  /\ \A k \in {"mix", "upscale"}, s, t \in Sheets : s # t => CropsOf[k][s] \cap CropsOf[k][t] = {}
  /\ Tagged \subseteq [Sheets -> SUBSET Targets] /\ Located \subseteq Targets
  /\ Elsewhere \subseteq Keys /\ Whole \notin Keys

VARIABLES
  kind, force, tagged, \* the run
  cancelReq, \* cancel_requested of the job row
  column,    \* swap_results of the sheets, in the database
  rest,      \* keys whose final crop is in another batch, in the database
  gone,      \* sheets removed from the batch since the enqueue
  mem,       \* the handler's copy: [column, rest]
  phase,     \* where the handler stands, or how it ended
  sheet,     \* where do_sheet stands
  crop,      \* where do_crop stands (upscale)
  cut,       \* the pieces of a sheet that were cut and stored
  broken,    \* sprite sheets an exception is leaving
  mark,      \* sheets_block
  tally,     \* swapped, skipped, failed, done_count
  wires,     \* reports on their way
  row,       \* current_step and step_details of the job row
  faults

run == <<kind, force, tagged>>
db == <<column, rest, gone>>
work == <<sheet, crop, cut, broken, mark, tally>>
told == <<wires, row>>
vars == <<run, cancelReq, db, mem, phase, work, told, faults>>

Kinds == {"mix", "sprite", "upscale"}
Result == [sel : BOOLEAN, crops : SUBSET Keys, final : SUBSET Keys]
Marks == {"none", "pending", "running", "swap_done", "processing", "skipped", "failed",
          "cancelled", "done"}
Stages == {"fetching", "composing", "collecting", "arranging", "guarding", "calling", "uploading",
           "telling", "polling", "cutting", "retelling", "repolling", "cropping", "judging",
           "closing"}
SheetStates == Stages \cup {"none", "waiting", "finished"}
CropStates == {"none", "waiting", "working", "keeping", "dropping", "kept", "dropped",
               "lost"}
Returned == {"completed", "cancelled", "failed"}
Phases == Returned \cup {"raised", "queued", "polling", "gathering", "persisting", "demoting",
                         "settling"}
Handler == <<"handler">>
Reporters == {Handler} \cup (Sheets \X (Keys \cup {Whole}))

Crops(s) == CropsOf[kind][s]
Marked(m) == {s \in Sheets : mark[s] = m}
Busy(states) == {s \in Sheets : sheet[s] \in states}

-----------------------------------------------------------------------------
(* The column                                                              *)

HasSelected(results) == \E i \in DOMAIN results : results[i].sel

\* The sheets a run works on: with crops, and without a selected result unless forced.
Scope(col, f) == {s \in Sheets : Crops(s) # {} /\ (f \/ ~HasSelected(col[s]))}

Unselect(results) == [i \in DOMAIN results |-> [results[i] EXCEPT !.sel = FALSE]]

\* The new result after the unselected history, which force_resweep drops.
AddResult(results, f, crops, final) ==
  Append(IF f THEN << >> ELSE Unselect(results), [sel |-> TRUE, crops |-> crops, final |-> final])

\* The flags another sheet's crops take away.
Cleared(results, keys) == [i \in DOMAIN results |-> [results[i] EXCEPT !.final = @ \ keys]]

\* promote_is_final_for_sheet: the crops win their positions from the other batches.
StoreMix(m, s, f, crops) ==
  [column |-> [m.column EXCEPT ![s] = AddResult(@, f, crops, crops)], rest |-> m.rest \ crops]

\* Mutant: the winner of another sheet keeps its flag.
StoreSpriteOwnOnly(m, s, f, crops) ==
  [m EXCEPT !.column[s] = AddResult(@, f, crops, crops)]

\* clear_foreign_finals: the crops win their cells from the other sheets of the sprite, history
\* included; the sheet's own history keeps its flags.
StoreSprite(m, s, f, crops) ==
  [m EXCEPT !.column =
     [t \in Sheets |->
        IF t = s THEN AddResult(m.column[s], f, crops, crops) ELSE Cleared(m.column[t], crops)]]

Store(s, crops) ==
  IF kind = "sprite" THEN StoreSprite(mem, s, force, crops) ELSE StoreMix(mem, s, force, crops)

-----------------------------------------------------------------------------
Fault == faults < MaxFaults /\ faults' = faults + 1

\* do_sheet of s settles on m, counts it in field and reaches its finally block, which counts the
\* sheet as over before it waits for the report lock.
Settled(s, m, field) ==
  /\ sheet' = [sheet EXCEPT ![s] = "closing"]
  /\ mark' = [mark EXCEPT ![s] = m]
  /\ tally' = [tally EXCEPT ![field] = @ + 1, !.done = @ + 1]
  /\ UNCHANGED broken

\* An exception nothing in the stages expects. The top-level except block of mix and upscale
\* sheets fails the sheet; a sprite sheet has none and raises out of its finally block.
Broken(s) ==
  IF kind = "sprite"
  THEN /\ sheet' = [sheet EXCEPT ![s] = "closing"]
       /\ broken' = broken \cup {s}
       /\ tally' = [tally EXCEPT !.done = @ + 1]
       /\ UNCHANGED mark
  ELSE Settled(s, "failed", "failed")

Goes(s, stage) == sheet' = [sheet EXCEPT ![s] = stage]

\* The results a sheet may start from: none, or one with all its crops, winning, selected or not.
Past(s) ==
  {<< >>} \cup {<<[sel |-> b, crops |-> Crops(s), final |-> Crops(s)]>> : b \in BOOLEAN}

\* Two selected results of the column do not share a winner, nor does another batch win its key.
SoleWinners(col, other) ==
  \A s, t \in Sheets : \A i \in DOMAIN col[s], j \in DOMAIN col[t] :
    col[s][i].sel /\ col[t][j].sel =>
      /\ <<s, i>> # <<t, j>> => col[s][i].final \cap col[t][j].final = {}
      /\ col[s][i].final \cap other = {}

\* Each route turns a request without a sheet to work on down. A mix batch or an upscale batch may
\* have a neighbour that holds winners; the cells of a sprite are its own.
RequestMix == kind = "mix" /\ rest \in SUBSET Elsewhere
RequestSprite == kind = "sprite" /\ rest = {}
RequestUpscale == kind = "upscale" /\ rest \in SUBSET Elsewhere

\* The route wrote the row and spawned the task; its own write of step_details may have failed.
Init ==
  /\ RequestMix \/ RequestSprite \/ RequestUpscale
  /\ force \in BOOLEAN /\ tagged \in Tagged
  /\ column \in [Sheets -> UNION {Past(s) : s \in Sheets}]
  /\ \A s \in Sheets : column[s] \in Past(s)
  /\ SoleWinners(column, rest)
  /\ gone = {} /\ cancelReq = FALSE
  /\ mem = [column |-> column, rest |-> rest]
  /\ phase = "queued"
  /\ Scope(column, force) # {}
  /\ \E scope \in {{}, Scope(column, force)} :
       mark = [s \in Sheets |-> IF s \in scope THEN "pending" ELSE "none"]
  /\ sheet = [s \in Sheets |-> "none"]
  /\ crop = [s \in Sheets |-> [k \in Keys |-> "none"]]
  /\ cut = [s \in Sheets |-> {}]
  /\ broken = {}
  /\ tally = [swapped |-> 0, skipped |-> 0, failed |-> 0, done |-> 0]
  /\ wires = {}
  /\ row = [step |-> 0, marks |-> mark]
  /\ faults = 0

RequestCancel ==
  /\ phase \notin Returned \cup {"raised"} /\ ~cancelReq
  /\ cancelReq' = TRUE
  /\ UNCHANGED <<run, db, mem, phase, work, told, faults>>

\* External, the editor's PATCH while the job waits for its worker: results or a sheet are removed.
Edit ==
  /\ phase = "queued"
  /\ \E s \in Sheets :
       \/ column' = [column EXCEPT ![s] = << >>] /\ UNCHANGED gone
       \/ gone' = gone \cup {s} /\ column' = [column EXCEPT ![s] = << >>]
  /\ UNCHANGED <<run, cancelReq, rest, mem, phase, work, told, faults>>

-----------------------------------------------------------------------------
(* The handler before the sheets                                           *)

\* The column is read and the shared context of its sheets resolved. The scope is what the route
\* wrote, rebuilt from the column when there is none.
Loaded ==
  /\ phase = "queued"
  /\ mem' = [column |-> column, rest |-> rest]
  /\ mark' = IF \E s \in Sheets : mark[s] = "pending" THEN mark
             ELSE [s \in Sheets |->
                     IF s \in Scope(column, force) \ gone THEN "pending" ELSE "none"]
  /\ phase' = IF \A s \in Sheets : mark'[s] = "none" THEN "completed" ELSE "polling"
  /\ UNCHANGED <<run, cancelReq, db, sheet, crop, cut, broken, tally, told, faults>>

\* Mix: the snapshot, the targets of the lineup, their references and locators.
LoadMix == kind = "mix" /\ Loaded
\* Sprite: the snapshot, the humans of the remix config, the objects of the cells.
LoadSprite == kind = "sprite" /\ Loaded
\* Upscale: the print boxes of the mix stage.
LoadUpscale == kind = "upscale" /\ Loaded

\* The remix, the snapshot or the humans could not be read, or the targets not be resolved.
LoadFails ==
  /\ phase = "queued"
  /\ phase' = "failed"
  /\ UNCHANGED <<run, cancelReq, db, mem, work, told, faults>>

\* A scope index the batch no longer has is not worked on; its mark stays as the route wrote it.
FirstPoll ==
  /\ phase = "polling"
  /\ IF cancelReq
     THEN phase' = "cancelled" /\ UNCHANGED sheet
     ELSE /\ phase' = "gathering"
          /\ sheet' = [s \in Sheets |->
                         IF mark[s] = "pending" /\ s \notin gone THEN "waiting" ELSE "none"]
  /\ UNCHANGED <<run, cancelReq, db, mem, crop, cut, broken, mark, tally, told, faults>>

-----------------------------------------------------------------------------
(* A mix or a sprite sheet                                                 *)

Entered(s) ==
  /\ sheet[s] = "waiting"
  /\ Cardinality(Busy(Stages)) < SheetCap

\* What the checks before the swap call say of a sheet's targets.
Admission(n) ==
  IF n = {} THEN "skipped"
  ELSE IF kind # "upscale" /\ Cardinality(n) > MaxTargets THEN "failed"
  ELSE IF kind = "mix" /\ Cardinality(n) >= 2 /\ ~ n \subseteq Located THEN "failed"
  ELSE "admitted"

\* No await between the entry and the settling of a sheet that is not admitted.
Refused(s) ==
  /\ Entered(s) /\ Admission(tagged[s]) # "admitted"
  /\ Settled(s, Admission(tagged[s]), Admission(tagged[s]))
  /\ UNCHANGED <<run, cancelReq, db, mem, phase, crop, cut, told, faults>>

Begins(s) ==
  /\ Entered(s) /\ Admission(tagged[s]) = "admitted" /\ kind # "upscale"
  /\ Goes(s, "fetching")
  /\ mark' = [mark EXCEPT ![s] = "running"]
  /\ UNCHANGED <<run, cancelReq, db, mem, phase, crop, cut, broken, tally, told, faults>>

Advance(s, from, to) ==
  /\ sheet[s] = from
  /\ Goes(s, to)
  /\ UNCHANGED <<run, cancelReq, db, mem, phase, crop, cut, broken, mark, tally, told, faults>>

\* The crops are fetched side by side and decoded; one that fails leaves its cell empty.
FetchCrops(s) == Advance(s, "fetching", "composing")
\* The cells are drawn, framed and numbered.
Compose(s) == Advance(s, "composing", "collecting")
\* Mix: every reference is there, and every locator unless the sheet has a single target; they make
\* the new and the old variant sheet.
CollectVariants(s) == kind = "mix" /\ Advance(s, "collecting", "arranging")
ComposeVariants(s) == kind = "mix" /\ Advance(s, "arranging", "guarding")
\* Sprite: every human reference is there.
CollectHumans(s) == kind = "sprite" /\ Advance(s, "collecting", "guarding")
\* The prompt is rendered and the payload fits.
GuardMix(s) == kind = "mix" /\ Advance(s, "guarding", "calling")
GuardSprite(s) == kind = "sprite" /\ Advance(s, "guarding", "calling")
\* The image model answers with an image.
CallMix(s) == kind = "mix" /\ Advance(s, "calling", "uploading")
CallSprite(s) == kind = "sprite" /\ Advance(s, "calling", "uploading")

\* The raw swapped sheet is stored: the heartbeat is due.
Upload(s) ==
  /\ sheet[s] = "uploading"
  /\ Goes(s, "telling")
  /\ mark' = [mark EXCEPT ![s] = "swap_done"]
  /\ UNCHANGED <<run, cancelReq, db, mem, phase, crop, cut, broken, tally, told, faults>>

Fails(s) ==
  /\ Settled(s, "failed", "failed")
  /\ UNCHANGED <<run, cancelReq, db, mem, phase, crop, cut, told, faults>>

\* Not one crop could be fetched and decoded.
CropsFail(s) == sheet[s] = "fetching" /\ Fails(s)
\* A reference could not be had: no sheet is swapped with one of them missing.
ReferencesFail(s) == sheet[s] = "collecting" /\ Fails(s)
\* Another stage answers with one of the errors its own except block knows: the sheet alone fails.
StageFails(s) ==
  /\ sheet[s] \in {"composing", "arranging", "guarding", "calling", "uploading", "cutting"}
  /\ Fails(s)

PollSheet(s) ==
  /\ sheet[s] = "polling"
  /\ IF cancelReq THEN Settled(s, "cancelled", "skipped")
     ELSE Goes(s, "cutting") /\ UNCHANGED <<broken, mark, tally>>
  /\ UNCHANGED <<run, cancelReq, db, mem, phase, crop, cut, told, faults>>

\* The sheet is stored in the handler's copy, without an await since its last poll or cut.
Apply(s, crops) ==
  /\ mem' = Store(s, crops)
  /\ cut' = [cut EXCEPT ![s] = crops]
  /\ Settled(s, "done", "swapped")

\* cut_and_upload_native: a piece that cannot be cut or uploaded is dropped, but never all of them.
NativePieces(s) == SUBSET Crops(s) \ {{}}

\* Boxes are detected, pieces cut and stored; a mix sheet is applied at once.
CutMix(s) ==
  /\ sheet[s] = "cutting" /\ kind = "mix"
  /\ \E crops \in NativePieces(s) : Apply(s, crops)
  /\ UNCHANGED <<run, cancelReq, db, phase, crop, told, faults>>

\* A sprite sheet has a second heartbeat after the cut.
CutSprite(s) ==
  /\ sheet[s] = "cutting" /\ kind = "sprite"
  /\ \E crops \in SUBSET Crops(s) \ {{}} : cut' = [cut EXCEPT ![s] = crops]
  /\ Goes(s, "retelling")
  /\ UNCHANGED <<run, cancelReq, db, mem, phase, crop, broken, mark, tally, told, faults>>

RepollSprite(s) ==
  /\ sheet[s] = "repolling"
  /\ IF cancelReq
     THEN Settled(s, "cancelled", "skipped") /\ UNCHANGED <<mem, cut>>
     ELSE Apply(s, cut[s])
  /\ UNCHANGED <<run, cancelReq, db, phase, crop, told, faults>>

\* A poll that cannot read the job row.
PollFault(s) ==
  /\ sheet[s] \in {"polling", "repolling", "judging"} /\ Fault
  /\ Broken(s)
  /\ UNCHANGED <<run, cancelReq, db, mem, phase, crop, cut, told>>

-----------------------------------------------------------------------------
(* An upscale sheet and its crops                                          *)

BeginsUpscale(s) ==
  /\ Entered(s) /\ Admission(tagged[s]) = "admitted" /\ kind = "upscale"
  /\ Goes(s, "cropping")
  /\ mark' = [mark EXCEPT ![s] = "running"]
  /\ crop' = [crop EXCEPT ![s] = [k \in Keys |-> IF k \in Crops(s) THEN "waiting" ELSE "none"]]
  /\ UNCHANGED <<run, cancelReq, db, mem, phase, cut, broken, tally, told, faults>>

CropBegins(s, k) ==
  /\ crop[s][k] = "waiting"
  /\ Cardinality({c \in Sheets \X Keys :
                    crop[c[1]][c[2]] \in {"working", "keeping", "dropping"}}) < CropCap
  /\ crop' = [crop EXCEPT ![s][k] = "working"]
  /\ UNCHANGED <<run, cancelReq, db, mem, phase, sheet, cut, broken, mark, tally, told, faults>>

\* The crop was fetched, scaled or kept at its size, grained or not, and stored; or it was dropped.
\* Its finally block marks the sheet, whatever became of the sheet meanwhile.
CropWorked(s, k) ==
  /\ crop[s][k] = "working"
  /\ \E end \in {"keeping", "dropping"} : crop' = [crop EXCEPT ![s][k] = end]
  /\ mark' = [mark EXCEPT ![s] = "processing"]
  /\ UNCHANGED <<run, cancelReq, db, mem, phase, sheet, cut, broken, tally, told, faults>>

\* The crops are all over: without one to keep the sheet fails, else the cancel flag is polled.
CropsGathered(s) ==
  /\ sheet[s] = "cropping"
  /\ \A k \in Crops(s) : crop[s][k] \in {"kept", "dropped"}
  /\ IF \A k \in Crops(s) : crop[s][k] = "dropped" THEN Settled(s, "failed", "failed")
     ELSE Goes(s, "judging") /\ UNCHANGED <<broken, mark, tally>>
  /\ UNCHANGED <<run, cancelReq, db, mem, phase, crop, cut, told, faults>>

JudgeUpscale(s) ==
  /\ sheet[s] = "judging"
  /\ IF cancelReq
     THEN Settled(s, "cancelled", "skipped") /\ UNCHANGED <<mem, cut>>
     ELSE Apply(s, {k \in Keys : crop[s][k] = "kept"})
  /\ UNCHANGED <<run, cancelReq, db, phase, crop, told, faults>>

-----------------------------------------------------------------------------
(* Reports                                                                 *)

\* Who has a report to send: a heartbeat, a finally block, or the handler after a failed write.
Owes(t) ==
  \/ t = Handler /\ phase = "demoting"
  \/ \E s \in Sheets : t = <<s, Whole>> /\ sheet[s] \in {"telling", "retelling", "closing"}
  \/ \E s \in Sheets, k \in Keys : t = <<s, k>> /\ crop[s][k] \in {"keeping", "dropping"}

\* Mutant: reports do not exclude each other.
SendUnlocked(t) ==
  /\ Owes(t) /\ \A r \in wires : r.from # t
  /\ wires' = wires \cup {[from |-> t, step |-> tally.done, marks |-> mark]}
  /\ UNCHANGED <<run, cancelReq, db, mem, phase, work, row, faults>>

\* report_lock is taken and the count read under it.
Send(t) ==
  /\ Owes(t) /\ wires = {}
  /\ wires' = wires \cup {[from |-> t, step |-> tally.done, marks |-> mark]}
  /\ UNCHANGED <<run, cancelReq, db, mem, phase, work, row, faults>>

\* step_details is written out when a connection is there: it may be newer than the count.
Lands(r) == \E m \in {r.marks, mark} : row' = [step |-> r.step, marks |-> m]

\* The task that sent the report goes on.
Continues(t) ==
  \/ t = Handler /\ phase' = "settling" /\ UNCHANGED work
  \/ \E s \in Sheets :
       /\ t = <<s, Whole>>
       /\ sheet' = [sheet EXCEPT ![s] = CASE @ = "telling" -> "polling"
                                          [] @ = "retelling" -> "repolling"
                                          [] OTHER -> "finished"]
       /\ phase' = IF sheet[s] = "closing" /\ s \in broken /\ phase = "gathering"
                   THEN "raised" ELSE phase
       /\ UNCHANGED <<crop, cut, broken, mark, tally>>
  \/ \E s \in Sheets, k \in Keys :
       /\ t = <<s, k>>
       /\ crop' = [crop EXCEPT ![s][k] = IF @ = "keeping" THEN "kept" ELSE "dropped"]
       /\ UNCHANGED <<phase, sheet, cut, broken, mark, tally>>

Told ==
  \E r \in wires :
    /\ Lands(r) /\ Continues(r.from)
    /\ wires' = wires \ {r}
    /\ UNCHANGED <<run, cancelReq, db, mem, faults>>

\* The report failed for its sender, whatever the server did. In a heartbeat the sheet breaks; out
\* of a finally block the error ends the gather: the run's for a sheet, the sheet's for a crop.
\* The error of an orphaned crop reaches nobody.
Breaks(t) ==
  \/ t = Handler /\ phase' = "raised" /\ UNCHANGED work
  \/ \E s \in Sheets :
       /\ t = <<s, Whole>>
       /\ IF sheet[s] = "closing"
          THEN /\ Goes(s, "finished")
               /\ phase' = IF phase = "gathering" THEN "raised" ELSE phase
               /\ UNCHANGED <<broken, mark, tally>>
          ELSE Broken(s) /\ UNCHANGED phase
       /\ UNCHANGED <<crop, cut>>
  \/ \E s \in Sheets, k \in Keys :
       /\ t = <<s, k>>
       /\ crop' = [crop EXCEPT ![s][k] = IF sheet[s] = "cropping" THEN "dropped" ELSE "lost"]
       /\ IF sheet[s] = "cropping" THEN Settled(s, "failed", "failed")
          ELSE UNCHANGED <<sheet, broken, mark, tally>>
       /\ UNCHANGED <<phase, cut>>

ReportFault ==
  /\ Fault
  /\ \E r \in wires :
       /\ Lands(r) \/ UNCHANGED row
       /\ Breaks(r.from)
       /\ wires' = wires \ {r}
  /\ UNCHANGED <<run, cancelReq, db, mem>>

-----------------------------------------------------------------------------
(* After the gather                                                        *)

Gathered ==
  /\ phase = "gathering" /\ \A s \in Sheets : sheet[s] \in {"none", "finished"}
  /\ phase' = IF tally.swapped > 0 THEN "persisting" ELSE "settling"
  /\ UNCHANGED <<run, cancelReq, db, mem, work, told, faults>>

\* The one write of the run: the whole column.
Persist ==
  /\ phase = "persisting"
  /\ column' = mem.column /\ rest' = mem.rest
  /\ phase' = "settling"
  /\ UNCHANGED <<run, cancelReq, gone, mem, work, told, faults>>

\* The write failed for the client, whatever the server did.
Unsure ==
  \/ UNCHANGED <<column, rest>>
  \/ column' = mem.column /\ rest' = mem.rest

\* Mutant: every sheet of the run is demoted, not only the done ones.
PersistFaultAll ==
  /\ phase = "persisting" /\ Fault
  /\ Unsure
  /\ mark' = [s \in Sheets |-> IF mark[s] = "none" THEN "none" ELSE "failed"]
  /\ tally' = [tally EXCEPT !.swapped = @ - Cardinality(Sheets \ Marked("none")),
                            !.failed = @ + Cardinality(Sheets \ Marked("none"))]
  /\ phase' = "demoting"
  /\ UNCHANGED <<run, cancelReq, gone, mem, sheet, crop, cut, broken, told>>

\* Mutant: the marks stay done.
PersistFaultKept ==
  /\ phase = "persisting" /\ Fault
  /\ Unsure
  /\ phase' = "demoting"
  /\ UNCHANGED <<run, cancelReq, gone, mem, work, told>>

\* The done sheets are demoted, and a report says so. The copy is rolled back for nobody.
PersistFault ==
  /\ phase = "persisting" /\ Fault
  /\ Unsure
  /\ mark' = [s \in Sheets |-> IF mark[s] = "done" THEN "failed" ELSE mark[s]]
  /\ tally' = [tally EXCEPT !.swapped = @ - Cardinality(Marked("done")),
                            !.failed = @ + Cardinality(Marked("done"))]
  /\ phase' = "demoting"
  /\ UNCHANGED <<run, cancelReq, gone, mem, sheet, crop, cut, broken, told>>

\* A late cancel is the end of a mix or an upscale run whatever was stored, and of a sprite run
\* only when nothing was.
Settle ==
  /\ phase = "settling"
  /\ phase' = IF cancelReq /\ (kind = "sprite" => tally.swapped = 0)
              THEN "cancelled" ELSE "completed"
  /\ UNCHANGED <<run, cancelReq, db, mem, work, told, faults>>

\* The handler's own polls, outside any try block.
HandlerFault ==
  /\ phase \in {"polling", "settling"} /\ Fault
  /\ phase' = "raised"
  /\ UNCHANGED <<run, cancelReq, db, mem, work, told>>

Before == LoadMix \/ LoadSprite \/ LoadUpscale \/ LoadFails \/ FirstPoll
After == Gathered \/ Persist \/ PersistFault \/ Settle \/ HandlerFault
DoSheet(s) ==
  \/ Refused(s) \/ Begins(s) \/ FetchCrops(s) \/ CropsFail(s) \/ Compose(s)
  \/ CollectVariants(s) \/ ComposeVariants(s) \/ CollectHumans(s) \/ ReferencesFail(s)
  \/ GuardMix(s) \/ GuardSprite(s) \/ CallMix(s) \/ CallSprite(s) \/ Upload(s) \/ StageFails(s)
  \/ PollSheet(s) \/ PollFault(s) \/ CutMix(s) \/ CutSprite(s) \/ RepollSprite(s)
  \/ BeginsUpscale(s) \/ CropsGathered(s) \/ JudgeUpscale(s)
DoCrop(s, k) == CropBegins(s, k) \/ CropWorked(s, k)
Reporting == (\E t \in Reporters : Send(t)) \/ Told \/ ReportFault

Next ==
  \/ RequestCancel \/ Edit \/ Before \/ After \/ Reporting
  \/ \E s \in Sheets : DoSheet(s) \/ \E k \in Keys : DoCrop(s, k)

Spec == Init /\ [][Next]_vars

-----------------------------------------------------------------------------
(* Properties                                                              *)

TypeOK ==
  /\ kind \in Kinds /\ force \in BOOLEAN /\ tagged \in Tagged /\ cancelReq \in BOOLEAN
  /\ column \in [Sheets -> Seq(Result)] /\ rest \subseteq Keys /\ gone \subseteq Sheets
  /\ mem \in [column : [Sheets -> Seq(Result)], rest : SUBSET Keys]
  /\ phase \in Phases
  /\ sheet \in [Sheets -> SheetStates] /\ crop \in [Sheets -> [Keys -> CropStates]]
  /\ cut \in [Sheets -> SUBSET Keys] /\ broken \subseteq Sheets
  /\ mark \in [Sheets -> Marks]
  /\ tally \in [swapped : Nat, skipped : Nat, failed : Nat, done : Nat]
  /\ wires \subseteq [from : Reporters, step : Nat, marks : [Sheets -> Marks]]
  /\ row \in [step : Nat, marks : [Sheets -> Marks]]
  /\ faults \in Nat

\* Whatever sheets fail, break or are cancelled on the way, the stored column never has two
\* selected crops that both claim to be the final of one position or cell.
OneSelectedFinal == SoleWinners(column, rest)

Drained(results) == [i \in DOMAIN results |-> [results[i] EXCEPT !.final = {}]]

\* The stored results of a sheet change only while it is marked done (their final flags may move
\* with a neighbour's), and what a run that returns marks as done is what it cut, stored and
\* selected. Nothing a raised run leaves behind is ever written.
StoredIffDone ==
  [][(phase # "queued" =>
        /\ \A s \in Sheets : mark[s] # "done" => Drained(column'[s]) = Drained(column[s])
        /\ phase = "raised" => UNCHANGED <<column, rest>>
        /\ phase' \in Returned /\ phase \notin Returned =>
             \A s \in Sheets : mark'[s] = "done" =>
               \E i \in DOMAIN column'[s] : column'[s][i].sel /\ column'[s][i].crops = cut[s])]_vars

\* The row's progress never goes back, in whatever order the tasks of the run come to report; and
\* when the handler returns with no report left to send and none lost by an orphaned crop, the row
\* says of every sheet what the handler knows of it.
ProgressTold ==
  [][/\ row'.step >= row.step
     /\ phase \in {"gathering", "settling"} /\ phase' \in Returned
          /\ wires = {} /\ (\A t \in Reporters : ~Owes(t))
          /\ (\A s \in Sheets, k \in Keys : crop[s][k] # "lost") =>
          row' = [step |-> tally.done, marks |-> mark]]_vars
=============================================================================
