# Remix Swap Service: verification project

TLA+ models of the parts of the Remix Swap Service (`src/src`, Python, FastAPI + asyncio +
asyncpg) whose correctness depends on order, failure and concurrency, checked with TLC on small
instances and, for the safety properties, proved with TLAPS for every size.

Paths below are relative to the repository's package directory `src/src` (in `PROJECT.json` they
are written from the root of the workspace).

## 1. The system

One process (one uvicorn worker), one asyncio event loop, one PostgreSQL database reached through
an adapter whose every method is a single autocommitted statement (`db/postgres_adapter.py`).
There is no transaction that spans two statements and no row lock. The editor (a browser
application that is not in the repository) reads remixes, edits whole JSONB columns, starts
background jobs and polls them.

| Component | State | Operations | Interacts with |
|---|---|---|---|
| Job library (`jobs/runner.py`, `reaper.py`, `lifespan.py`, `config.py`, `routers/jobs/cancel_job.py`, `main.py`) | rows of `background_jobs` (status, cancel_requested, updated_at); in memory: tasks, one semaphore per type, finalize hooks | enqueue, start, report, poll, finalize + commit, reap, cancel, drain, abort | every handler; the database; the supervisor that restarts the process |
| Crop-pipeline stage jobs (`jobs/handlers/remix_rmbg.py`, `remix_mix_swap.py`, `remix_sprite_swap.py`, `remix_upscale.py`, `jobs/helpers/promote_is_final.py`) | one column of a remix (`rmbgs`, `mixes`, `sprites`, `upscales`): batches of crop sheets with their `swap_results`; in memory: the handler's copy, sheet states, counters | load, work on a sheet, heartbeat, apply, promote, persist, demote | job library, AI and storage services, the column |
| Enqueue routes (`routers/jobs/*enqueue*.py`) | none of their own | scope, dedup, INSERT, spawn, step_details | job library |
| Remix CRUD (`routers/editor/*`) | the `remixes` row | whole-column PATCH (last writer wins), DELETE with a busy guard | the same columns as the handlers |
| Audio swap job (`remix_audio_swap.py`, `services/narration/*`) | `illustration` of a remix: chunks, their results, the combined audio of each textbox and language; in memory: the copy, the tasks of a spread | resolve voices, narrate chunks, combine, write once per spread | ElevenLabs, storage, the editor's writes of the same column |
| Detect jobs (`remix_detect_defects.py`, `remix_detect_mix_defects.py`, `remix_detect_rmbg_defects.py` and their cores) | the job row and its result only | load, inspect every sheet, one retry of an answer that does not parse, list what was found | Gemini, job library |
| Sessions (`auth/session_stores.py`, `editor_session.py`, `routers/auth/exchange.py`) | in-memory maps with expiry: used jti, revoked sids and admins | exchange, verify, revoke, sweep | every route |
| AI usage log (`services/ai_usage`) | detached insert tasks | log, resolve the book, drain at shutdown | shutdown |
| Upscale and remove-background requests (`services/image/upscale_core.py`, `tile_upscale.py`, `services/replicate_client.py`, `routers/retouch/image_remove_bg.py`) | the process-wide prediction slot, the attempts of a throttled create | plan tiles, create, poll with a timeout, fetch, blend | Replicate, usage log, shutdown |
| Other external calls (`elevenlabs_rate_limit.py`, `storage/*`, `services/gemini/*`) | a sliding window, retry counters | call, retry, wait | all handlers |
| Algorithms (`services/remix/*`, `services/narration/*`, `services/image/*`) | none | crop composition, geometry, word timings, prompts | handlers and routes |

What makes it hard, and what must hold:

* **Two actors decide one row.** A worker and the reaper (and, in a restart, a new process) race
  for a status that must be decided exactly once. The hook must be told what the row says.
* **A semaphore permit per job**, through every exit path, cancellations included.
* **No recovery.** After a crash nobody resumes a job; only the reaper settles its row.
* **Whole-column writes without versions.** Handlers load a column, work for minutes and write it
  back whole; other handlers, a zombie whose row was reaped, and the editor write the same column.
* **Check-then-act in two statements**: the dedup of enqueue, the busy guard of DELETE, cancel.
* **Failure in the middle of a run**: of a sheet, of the only write, of a report; a cancel between
  two sheets; an abort at shutdown.
* **A mutex over data**: one final crop per layer position over all batches, kept by every run.
* **Gathers that do not wait.** `asyncio.gather` without `return_exceptions` hands the first error on
  and leaves its siblings running: sheets, crops, narrations and tiles go on as orphans, hold
  semaphores, and still write the state the handler reads.
* **Work without a waiter.** Usage rows are inserted by detached tasks, which the shutdown must catch
  between the end of the jobs and the close of the pool.
* **Small arithmetic with large consequences**: which frame a piece is cut from, how many bytes may be
  sent, which defects fit in the list, when a word starts, how an image is tiled.

`PROJECT.json` lists each of these under `hazards`, at its line, with the properties that
would catch it going wrong, or with the reason why none does.

## 2. Modules

| Module | Models | Lines of code it stands for |
|---|---|---|
| `JobSpec` | what the job library promises about a row: begun once, decided once, never undone | abstract |
| `JobRunner` | the job library, one SQL statement or one event-loop turn per action | runner, reaper, cancel, lifespan, main, adapter's job statements |
| `MCJobRunner` | TLC instances of it | |
| `JobRunnerProofs` | theorems about `JobRunner`, refinement included | |
| `StageJob` | one stage column and the handler runs over it, sheet by sheet | `remix_rmbg.py`, `promote_is_final.py`, the scope and the enqueue route |
| `MCStageJob` | two batches over the same two layer positions | |
| `StageJobProofs` | theorems about `StageJob` | |
| `RemixColumn` | everybody who touches one column: enqueue requests, handlers, reaper, editor, DELETE | enqueue route, PATCH, DELETE, adapter, and the runner and handler at a coarser grain |
| `MCRemixColumn` | TLC instances of it | |
| `RemixColumnProofs` | theorems about `RemixColumn` | |
| `SwapSheets` | one run of mix-swap, sprite-swap or upscale through its own tasks: stages of a sheet, crops of an upscale sheet, reports under the lock | the three handlers, their enqueue routes, the swap cores, composers, `clear_foreign_finals` |
| `SheetFrames` | which frame of a swapped sheet each crop is cut from | `frame_finder.py`, `detect_crop_geometry_service.py`, the cut |
| `MCSwapSheets` | two sheets, three cells; the layouts tried | |
| `SwapSheetsProofs` | theorems about `SwapSheets` and `SheetFrames` | |
| `AudioSwap` | audio-swap jobs over the stored illustration | `remix_audio_swap.py`, its enqueue route, the voice resolver, narrate and combine cores, the ElevenLabs call |
| `WordTimings` | the times of the words of a narration | `narration_word_aggregator.py`, `word_timing_rebase.py` |
| `MCAudioSwap` | two spreads, five textboxes; the texts and alignments tried | |
| `AudioSwapProofs` | theorems about `AudioSwap` and `WordTimings` | |
| `OrderLemmas` | facts about finite sets under a strict total order (rank, least element, ascending enumeration), and what stands in for induction: statements up to n, functions defined by recursion over numbers and over subsets, sums | |
| `DetectJob` | the three detect-defects jobs | their handlers, enqueue routes and cores, `gemini/invoke.py` |
| `PayloadBudget` | the five guards that keep a Gemini payload under its limit | `gemini/payload_budget.py` and its callers |
| `DefectPost` | from the listed defects to the returned ones | `defect_postprocess.py`, the mapping of the cores |
| `MCDetectJob` | three sheets; the payloads and defects tried | |
| `DetectJobProofs` | theorems about `DetectJob`, `DefectPost` and `PayloadBudget` | |
| `ProviderCalls` | predictions at Replicate, their slot, retries, usage rows, and the shutdown | `upscale_core.py`, `tile_upscale.py`, `replicate_client.py`, `image_remove_bg.py`, `ai_usage/logger.py`, `main.py` |
| `MCProviderCalls` | one upscale next to one remove-background request | |
| `ProviderCallsProofs` | theorems about `ProviderCalls` | |

An operator preceded by a comment `Mutant:` is a plausible bug of the definition it stands
before; it is not part of the specification. It exists to show that a property notices it
(`mutants` in `PROJECT.json`).

### JobRunner

`row[j]` is `background_jobs.status`, `task[j]` the program counter of the job's coroutine,
`permits` the semaphores, `sweep` the rows the reaper has listed and not yet dealt with. Time is
the boolean `stale`: `updated_at` (running) or `created_at` (queued) is older than the reaper's
threshold; `Ages` sets it, every UPDATE of a running row clears it. `Cas` is
`update_job(expect_status=...)`; `MaybeCas` is the same statement failing on the client while the
server may have run it. `Start`, `Finalize`, `Commit`, `HandlerReturns`, `HandlerRaises` are the
awaits of `_execute` and `_finalize_then_commit` in order; `ReapList`, `ReapRow`, `ReapHook` those
of `_reap_once`; `CancelCheck`, `CancelWrite` those of the cancel route; `BeginShutdown`,
`DrainTimeout`, `Abort`, `Exit`, `Crash`, `Restart` the life of the process. The finalize hook is
modelled although no job type of this service registers one: the library supports it and its
docstring makes promises about it.

### StageJob

`column` is the value in the database, `mem` the handler's copy, `sheet`/`mark`/`tally` the
position of each `do_sheet`, the entry of the sheet in `step_details` and the counters. A result of
a sheet is `[sel, crops, final]`: is it selected, which layer positions have a piece, which pieces
are flagged final. Sheets go on only when the semaphore lets them; the AI call, the cut and the
uploads of a sheet are one step that succeeds (dropping some pieces, never all) or fails. `Apply` is
the code between the last upload and the end of the try block, `promote_is_final_for_sheet`
included: it has no await and is one step in the code too. `Finish` is the finally block with its
report, whose error nothing catches. `PersistFault` leaves the column old or new and demotes the done
sheets. The editor's write of the column is reduced to taking back a selection (`Patch`), which is
what brings a sheet into the scope of a later run without force.

Assumed: runs of one column do not overlap and the editor writes between runs (`RemixColumn` is
about what happens otherwise), and no layer position lies on two sheets of one batch
(`LayoutAssumption`: the promote helper does not walk its own batch, so it relies on it).

### RemixColumn

The content of the column is the set of writers whose work is in it; a write is "the column as I
loaded it, and my work". The three statements of an enqueue request are three actions; between
`RequestCheck` and `RequestInsert` nothing holds the pair together. `Start`, `Commit`, `Reap` and
`RunnerFault` are the job library at the grain of its statements; sheets, cancels and hooks are
inside `GiveUp` and `Persist`. `Reap` may fail any active row at any time; the handler goes on as a
zombie, keeps its permit and still writes. `EditorSave` is the PATCH; its guard, that no job is
active, is the editor's ("races gated FE-side" in `postgres_adapter.py`), an assumption about code
outside the repository.

### SwapSheets and SheetFrames

`StageJob` follows a column through many runs; `SwapSheets` follows one run through its tasks. `sheet[s]`
is the await `do_sheet` stands at: fetch the crops, compose, collect references, arrange the variant
sheets, guard the payload, call the model, upload, report, poll, cut, and for a sprite report and poll
again. An upscale sheet has one task per crop instead (`crop`). `wires` is the report on its way while
`report_lock` is held: the count is read when the lock is taken (`Send`), `step_details` is written out
when a connection is there (`Lands`), and the row changes when the statement runs (`Told`,
`ReportFault`). An error that escapes a sheet (`Broken`, and a report in a finally block) ends the
gather: `phase` becomes `raised`, the other sheets go on as orphans, and nothing they do may be written.
A `result` is `[sel, crops, final]` as in `StageJob`; `rest` stands for the batches outside the run.
`StoreMix` and `StoreSprite` are the two ways in which a new winner takes the flag from others.

`SheetFrames` gives, for the cells of a sheet and the strokes the image model drew, the frames that
are found, what becomes of the classifier's assignments, and the box each piece is cut from. A sort of
the code is the enumeration of a set by the rank of its members (`Listed`), under the order that the key
and, for equal keys, the stability of Python's sort make (`RowMajor`, `Surest`, `Nearest`). Cells are in
whole pixels, as the code rounds them before it does anything else. `Spaced` says what is assumed of a
layout: cells larger than the pad lie on the sheet, none on another, and two that share neither rows nor
columns are a pad apart in one direction. The first two make the cells distinguishable at all; the third
is the docstring's "a diagonal cell can't merge across a corner", true of rows of cells whose gutter
(64 pixels, `services/image/frame_finder.py:30-31`) is wider than the pad (6) unless the sheet is scaled
down tenfold.

### AudioSwap and WordTimings

A *box* is a textbox in one language. `db` is the illustration as stored, `mem` the job's copy, `part`
where each narration of a box stands, and an audio is the number of the job that recorded it, so that
"the combined audio is made of exactly the recordings selected now" can be said. `Narrated` is the copy's
mutation after a narration, `Combine` and `CombineFails` the end of a box, `Persist` and `Unsaved` the
write of the spread. The editor changes a script, and removes a spread, at any time in between. `hist` is
history: it takes no part in the actions and lets the properties say which boxes a failure touched.
A behaviour may start from any book of the right shape (`BookAssumption`), also one whose combined audios are
stale already: nothing but the code's own writes keeps them fresh, so those boxes start out in
`hist.harmed`. A reader's entry in `remix_config.voices` may be without a voice.

### DetectJob, PayloadBudget and DefectPost

The sprite and rmbg jobs start all sheets at once, the mix job one after the other; `task[s]` is where
the core of a sheet stands, with its one second call after an answer that does not parse. The result is
counted per sheet (`answers`, `errors`, `skipped`), the bounded list of errors by its length. The two
modules without state are what the cores compute before and after the call. `PayloadBudget` treats a
re-encoding as unknown: a guard is the set of payloads it may send. In `DefectPost` an absent or an empty
list of focus objects is no filter at all, as in the code.

### ProviderCalls

A call is one prediction: a tile, an untiled image, or a removed background. `pc` is its await, `slots`
the process-wide semaphore, `ahead` the order in which its waiters queued up, `logged` and `row` the
usage rows scheduled for it and the fate of their insert. `Fail` ends a request on the first failing
tile and leaves the others running. `Shutdown`, `Drain` and `ClosePool` are the lifespan's order: jobs,
rows, pool. `wait_all` lets the jobs run on, so calls are launched during the shutdown too (`Accepting`),
until its `Deadline`; then `Cancel` ends what still runs, and the drain begins when nothing does.
`TileLayout` is the tile plan.

## 3. Runs

| Run | Instance | Shows |
|---|---|---|
| `job_runner_safety` | 2 jobs, one type with 1 permit, 1 report, 1 database error, 1 shutdown, 1 crash, cancels | types; permits balance; a cancelled row has a cause; a running row has a worker, was lost by an error, an abort or a crash; the hook hears the final verdict and hears it before the status; the handler is entered only by the start; `JobSpec` is implemented |
| `job_runner_liveness` | the same without reports and errors | every queued job is decided; waiters are served while handlers return |
| `job_runner_hook` (violation) | 1 job and the reaper | the hook is called twice with different verdicts |
| `stage_job` | 2 batches, 2 sheets, 2 positions, 3 runs, 2 database errors, 1 editor write, 1 abort | seven properties of the stage job |
| `stage_job_finals` (violation) | the same without errors | a forced re-sweep with a dropped piece leaves no final crop |
| `stage_job_alone` (violation) | 1 run, 1 database error | a failing report takes the whole job down |
| `remix_column` | 3 requests, 2 saves, 1 permit, 1 restart, 1 database error | live jobs lose nothing, acknowledged work stays, DELETE spares older jobs |
| `remix_column_cap2` (violation) | 2 requests, 2 permits | the second of two concurrent handlers erases the first |
| `sheet_swap` | one run of each kind, 2 sheets, 3 cells, 3 targets, 2 database errors | no two selected results claim one cell; what is stored changes only for done sheets and only by the one write; the progress of the row never goes back and ends at what the handler knows; pieces are cut from where their crop was drawn |
| `audio_swap` | 2 jobs, 2 spreads, 5 textboxes, 1 editor write of a script or a removed spread | stored as synced means combined from the selected recordings, but after a failed combine; a failed narration is taken up again; a spread reported done has nothing left; word timings in order |
| `detect_jobs` | one run of each job, 3 sheets, 2 calls at a time, room for 2 errors, 2 database errors | what a completed job says covers its sheets; payloads fit; the defects kept are the worst and lie in their cell |
| `provider_calls` | one upscale of 1 or 2 tiles, one remove-background, 1 slot, 2 attempts | the slot is conserved; each prediction has its one row; the shutdown loses no row of a delivered result; tile plans cover the image; every call ends |

Why these bounds are enough to be interesting: two jobs with one permit give a holder and a waiter,
and the reaper may take either; one shutdown plus one crash gives every pair of stops; one error of a
database statement at any point gives every single failure and, with a shutdown, failure during
teardown. In `StageJob` the two batches share both positions, one batch with a sheet for each
and one with a sheet for both, so a winner can be replaced in part; three runs are the shortest
history in which a position wins, is taken by the other batch and is re-swept. In `RemixColumn` three
requests allow a zombie, its successor and a third that slipped past the dedup. The runs of
`RemixColumn` and `JobRunner` safety use symmetry over jobs (and saves); the liveness run does not.

In `SwapSheets` one sheet and one crop are in work at a time because the code pins both caps to one
(`models/jobs/remix_mix_swap.py:50`, `remix_sprite_swap.py:28`, `remix_upscale.py:101`); orphans still
overlap with the handler's own end, and two errors allow an escape and a failed report after it. The
sprite sheets share a cell, one sheet of the upscale has two crops, and the targets of a sheet are none,
one, one with and one without a locator, and more than the cap. The five textboxes of `AudioSwap` are the
cases its code distinguishes: two chunks to narrate, no id, a chunk to narrate and one to keep, a chunk
without a recording, no voice; the second job is the shortest history in which a partial result of the
first is taken up. In `DetectJob` three sheets against two calls leave one waiting, and three failures
overflow a list of two. `ProviderCalls` launches one or two tiles, so that a sibling can outlive its
request while the other request waits for the slot; larger plans are computed and checked, not launched.
The algorithms are tried on every input of small sets: alignments of up to seven characters, payloads of
up to four images whose re-encoding comes out at any of the sizes, all lists of up to four defects out
of six, layouts of two to four cells with every permutation. They have no
state, so each is evaluated once, in one initial state of the run.

Deadlock is not checked: every model stops when its bounded jobs, requests and faults are used up.

**Fairness.** `JobRunner`'s `FairSpec`: weak fairness for the event loop's turns of a worker
and for the reaper's loop, for the clock (a row that is not touched gets old) and for the supervisor
that starts the process again. None for the handler: it may hang for ever, and `JobsSettle` holds all
the same because the reaper and the shutdown decide its row. `WaitersServed` says of the tasks what
can be said: they end if handlers return. No fairness is assumed for clients, cancels, faults or
crashes. `ProviderCalls`: weak fairness of each call, because every wait of a call ends by itself: the
poll under `asyncio.wait_for`, create and fetch under the HTTP clients' own timeouts, the pause of a
throttled create after the seconds it was told. That a waiter of the slot is served rests on the order
of the semaphore's queue (`Foremost`), not on strong fairness. The other specifications state none.

### Disagreements between code and documentation

The violation runs, each with its quotation in `PROJECT.json`:

1. `register_finalize` promises that the hook never double-fires; the worker calls it before its CAS.
2. The per-sheet guard "never bubbles"; the report in the finally block behind it does.
3. The winner mutex promises EXACTLY one final crop; a forced re-sweep with a dropped piece leaves
   none. (At most one is proved: `FinalsUnique`.)
4. The stage write is commented "single-writer"; for types with the default cap of two (mixes,
   sprites) two requests that pass the dedup together make two writers.

Read from the code while modelling, and within what the properties above allow:

* `_tiled_path`'s docstring says the siblings of a failed tile are cancelled; they run on, hold the slot
  and are billed. Comments speak of overlapping GPU waits; the slot is around create and wait, so with the
  default of one there are none. The tile gate ignores the overlap, so a plan may exceed `TILE_MAX_COUNT`.
* A cancelled prediction leaves no usage row; `_resolve_book_id`'s "at most ONE bridge query" does not hold
  for concurrent rows, and a transient failure is cached. Text-to-speech timeouts write no row.
* A failed combine leaves chunks marked as synced, and a later write of the same copy stores them
  (`StaleOnlyAfterFailure` says exactly this much). A failing textbox without an id does not count against
  its spread (`DoneIsStored` is about the named ones). The chunk semaphore is one per spread although its
  name says per textbox. Words of one gap share a time ("equal split" they are not) and a rebased start is not
  clamped.
* `clear_foreign_finals` promises one final crop per cell over the whole sprite; the sheet's own unselected
  history keeps its flags (`OneSelectedFinal` is about selected results). An orphaned crop writes
  `processing` over the mark of a sheet that has failed. A crop that could not be fetched leaves an empty
  cell, and its piece is cut all the same.
* The sprite detect handler says the job fails only on an exception outside the per-sheet loop; an error of a
  poll or a report inside it fails it too, and the mix handler's loop likewise. The rmbg handler keeps such
  an exception and drops the sheet without a word (`DroppedOut`). In the sprite job all polls happen before
  the first call. Errors beyond `MAX_RESULT_ERRORS` are dropped.
* The last check of the sprite swap's payload compares without the margin the others leave.

## 4. Proofs

All theorems hold for every set of jobs, types, batches, sheets, positions, requests and saves, and for
every value of the bounds. The assumptions on constants are the named `ASSUME`s of the modules, and
where a theorem needs one permit or one sheet at a time it says so in its statement.

**JobRunnerProofs.** Types (`TypeCorrect`, with "a stale row is an active one"); `Refinement` of
`JobSpec`, step by step: enqueue is Submit, the start CAS is Begin, a commit or a reaped running row
is Decide, a reaped queued row is Discard, all the rest stutters; `PermitsBalanced`: the free permits
plus the tasks inside `async with` are the cap, carried by how the cardinality of the holders changes
in each action; `CancelCause`; `HookFirst`; `EnterOnce`.

**StageJobProofs.** `CountsCorrect` is the core: the invariant `Accounts` adds to the type invariant
that the position of a sheet and its mark are in step (`SheetsInStep`); without it a sheet could
be counted twice, and the demotion, which subtracts the number of done sheets, could go below zero,
so type correctness itself needs it. `CancelIsReported` and `CancelStopsWork` rest on `CancelSeen` (a
cancelled mark means the flag is up, and it is not taken back) and, the second, on one sheet at
a time. `FinalsUnique` needs four facts about a column, kept for the stored one and the handler's
copy alike: a result only flags positions of its own sheet (`OwnKeys`), at most one result of a
sheet is selected (`OneSelected`), two batches do not both flag a position (`NoShare`), and the layout
assumption. `DoneIsStored` and `OthersUntouched` need `CopyInStep`: outside the done sheets the copy
differs from the stored column in final flags only.

**RemixColumnProofs.** `DeleteSpares` needs only that between check and DELETE every active job is a
late one, for any cap. `AckedStays` and `LosesNothing` need `Cap = 1`: then at most one handler is
past the semaphore, zombies included (`OneHolder`), and the copy of a handler at work is the column
unless the editor wrote after the handler's row was reaped (`CopyFresh`). The run
`remix_column_cap2` shows that the assumption cannot be dropped.

**JobRunnerProofs, continued.** `RunningIsServed` is inductive once "no coroutine before the row"
(`AbsentIdle`) is known; `HookHears` needs that a row the reaper won is failed until its hook was called
(`WonFailed`) and that without a stop the process is up.

**ProviderCallsProofs.** `SlotsKept` counts the calls inside the slot (`Held`) before and after every step;
the cancellation, which takes out all calls of a request at once, needs the cardinality of the difference of
two sets. It and `OneRow` rest on `Untouched`: a call that was not launched has no state and no row.
`RowsKept` rests on `RowOrder`: once the drain begins no request runs, so a row that is still to come, or
that the drain did not see, belongs to a request nobody waits for.

**DetectJobProofs.** `AllAnswered` splits what a completed job says into three invariants: which stages a
sheet can be in while the handler is at a given point (`Reached`), what the counters say of a sheet in
each stage (`SheetsSay`), and that the row follows the count of finished sheets (`RowFollows`), which holds
because every report carries the count at its time and the last one is written last.

**SwapSheetsProofs.** `TypeCorrect` is not about shapes alone: the demotion subtracts the number of sheets
marked done from the count of swapped ones, and `SwappedCovers` (there are at least as many swapped as
marked done) keeps it in the naturals; orphaned crops, which overwrite a mark after the count was made,
are why it is an inequality. `FinalsAlone` is carried by `WinnersEverywhere`: the stored column and the
handler's copy both have flags within the sheet's own keys and no shared winner, and what a run has cut,
cropped or is reporting belongs to its own sheet (`OwnCrops`, `OwnReports`). It needs that positions of
different sheets of a mix or an upscale batch are disjoint (`LayoutAssumption`); for sprites, whose sheets
share cells, it needs `Cleared`.

`StoredWhatIsDone` and `ProgressIsTold` share `Placed`, which says where everybody is: one report at most is
on its way and its sender waits for it (`OneAtATime`), no sheet has begun before the gather and none is at
work after it (`Course`), and a crop still at work belongs to a sheet that gathers it or left it behind
without being done (`CropsAtWork`). Without the last an orphaned crop could take the mark of a done sheet
away. `Copied` then says that copy and column differ in the results of done sheets only, up to the write
(final flags aside, which a neighbour may take), that the copy holds what each done sheet was cut to, and
that after a failed write nobody is marked done. `Covered` is about the row: counts only grow on the way from
tally to report to row, and whenever the row, or the report on its way, is behind the tasks, somebody *else* is
still to report (`Pending`). That is the reason why the last report of a run is up to date although a report
may carry marks older than the tasks': each change is followed by a report of its own. A report lost by an
orphaned crop (`lost`) or by a raised run is the only exception, and the property makes it too.

**AudioSwapProofs.** One invariant, `Safe`, carries three of the four theorems. Its parts: `Types`; `Course`, what
the handler's position says of scope, marks and tallies (no spread twice in scope, a spread marked done lies
behind, the tallies count the marks); `Tasks`, which narrations a box can have at each of its own steps; `Slots`,
no more boxes and narrations at work than the two semaphores give out (part of `TypeOK`'s meaning here, proved by
counting); `InSync`, that a box nobody harmed is never stale in the column, nor in the job's copy outside the
steps between its first narrated chunk and its combined recording; and `Voicings`, that what is dirty in the copy
is dirty in the column, and that a box whose narration failed keeps a dirty chunk in both, since a box's chunks
are applied all together or not at all. That the scope repeats no spread needs the ascending enumeration of a
finite set, which is what `OrderLemmas` is for. The fourth theorem adds `Outcome`: a box that was skipped or
combined has nothing dirty in the copy, a box no editor touched is the same in column and copy until its spread
is written, and so the write leaves nothing dirty in it.
`StaleNeedsFailure` and
`LostNarrationStaysNeeded` are read off it, for every book, list of voices, cap, number of jobs and edits.
`DoneSpreadIsStored` has a hypothesis, `OneEntryPerReader`: no two entries of `remix_config.voices` are for the
same reader, which is what the collection is meant to be (`services/remix_voice_resolver.py:34-37`) though
nothing in this service enforces it. It is needed. A chunk without a reader is narrated in the voice of
the first entry its reader has that is enabled; were that voice also that of an earlier entry of somebody else,
or the reader listed twice, the narrated chunk could resolve to yet another voice and need regeneration at
once. `VoiceIsStable` is the lemma that one entry for each reader excludes this.

**ProviderCallsProofs, continued.** `TilesAlwaysCover` proves the tile plan for every image: the plan's
rounding up, the redistribution of the last tile and the clamping at the edge leave no pixel uncovered, keep the
whole overlap between neighbours and stay within the cap. Its hypothesis `AmplePixels` relates the caps of tiles,
overlap and pixels in three inequalities; the code's values (6 tiles, 32 pixels of overlap, 2,096,704 pixels:
`models/requests/upscale_image.py:101-106`) satisfy them with much room.

**DetectJobProofs, continued.** `KeptAreWorst` is about the list a detect core returns, for every list of
defects, focus, threshold and length: deduplication keeps one of each, the cut keeps the worst, and
`truncated` says exactly whether something is missing. It needs that the sort key is a number that orders
(`RankIsNumber`, `ListingOrders`) and that filters and sorts keep what is kept in order. `CentreStaysInCell`: the
rounded centre of a defect larger than a pixel stays in the cell the defect lies in, for cells and sheets of
any size, so the assignment by centre is the right one. `WorstAlwaysKept` is the run's statement as an instance.

**SwapSheetsProofs, continued: the cut.** `FrameShowsItsCell` is the merge safety the frame finder is built
for: a window stops at the middle of every gap and at the pad (`WindowHoldsItsCell`, `WindowKeepsOff`), a
stroke is looked for in the outer half of the window at most, so a frame keeps within its window, cannot
touch another cell and cannot miss its own. It holds for any strokes in all cells at once, and at any scale,
since it speaks of the cells as they are on the sheet. `FramesArePlaced` says that sorting the frames by row
loses and doubles none (`ListedSorts`). `TakeOnceTakes` is the heart of both assignments: going through a
list, whoever is not taken is in conflict with somebody *before* him who is. So in
`CutFollowsTheClassifier` the right assignments, which come before the less sure ones and are not in
conflict with each other, are all taken. In the positional fallback (`NearestIsOwn`) a frame that is exactly
its cell is at no distance from it and no frame is at no distance from another cell, so these pairs come
first and are all taken, and what is left for the one cell that was snapped is its own frame or none.
`PiecesAreOfTheirCrops` is the run's statement for every layout and drift; as in the run, the fallback is
about sheets of which one cell is snapped and the others are where they were.

**DetectJobProofs, continued: the payload.** `GuardsKeepTheLimit` is about every payload, whatever a
re-encoding comes out at: what is sent is below the inline limit, a payload that fits is sent as it is, and
the image the call is about is touched only when giving up all the others was not enough. The sums are folds
whose order TLA+ leaves open; `SumExists` and `SumType` make them numbers all the same. The hypothesis is a
positive margin, 1,024 bytes in the code (`services/remix/detect_swap_defects_core.py:523` and its
siblings); without it a guard would admit a payload of exactly the limit. `PayloadAlwaysFits` is the run's
statement as an instance.

**AudioSwapProofs, continued: word timings.** `WordsStayInOrder` holds for every text and every alignment
whose times follow one another, however the characters of the two disagree: one word per token, each ending
no earlier than it starts, and none starting before an earlier one has ended, but for words of one gap,
which start together. The proof follows the code: matches take ever later characters of the alignment
(`MatchesRight`); without a usable alignment the time is shared out by length (`LinearRight`); words without
a match get the time between the neighbours that have one (`GapsRight`). `ChunksStayInOrder` adds the rebase
by the durations before a chunk, for any number of chunks: the words stay in order and end with the whole.
`TimingsAreInOrder` is the run's statement as an instance. What is assumed of ElevenLabs (`Timely`; TLC
confirms it of the alignments tried) is that the characters it times come in the order of the audio and do
not overlap.

**Recursive functions.** The library's induction theorems have an operator as a parameter, which the provers
cannot instantiate. `OrderLemmas` gets induction from what they can use: a set of numbers up to n that holds
0 and with each number the next holds them all (`UpTo`), because a least missing number would not be
missing. From it follows that a function defined by its value at 0 and by how it goes on exists
(`Recursion`), and likewise over the subsets of a finite set (`SetRecursion`, `SubsetsUpTo`). Each recursive
function of the models is then shown to satisfy its own equation (`MatchesUnfold`, `LinearUnfolds`,
`TokensUnfold`, `RebaseUnfolds`, and inside `TakeOnceTakes`), and facts about it are proved with `UpTo`.

**Model-checked only**, and why:

* the liveness properties (`JobsSettle`, `WaitersServed`, `EveryCallEnds`) and everything about ENABLED are out
  of the prover's reach;
* the violation runs are counterexamples, which need no proof.

Every other property of a passing run is the statement of a theorem, or an instance of one.

## 5. Not modelled, and why

* Pixel work (composition, blending, grain, strokes from brightness), prompts, request building and the
  parsing of answers: no state, and nothing the properties tell apart.
* Read-only routes, image and retouch routers without shared state, prompt templates, provenance,
  address filtering.
* Sessions (`auth/*`): access control, not part of this study of the jobs' correctness.
* The ElevenLabs sliding window: its one delicate case depends on the resolution of the clock.
* Predictions that an orphaned sheet or crop of a failed job starts after the drain (`SwapSheets` has such
  orphans): nobody waits for their results, and their usage rows may be lost with the pool.
* Storage: objects are written under fresh names, so an upload is part of the step that makes it.
* Functions nothing in this service calls: SAM3, layering, remove-text and face functions of
  `replicate_client.py`, voice design, effects and music of `elevenlabs_client.py`, `audio_fetch`.

What would come next: the composition of `RemixColumn`'s handler with `StageJob` and `SwapSheets` as a
refinement (an abstract one-run job that loads, works and writes once), proved step by step; the positional
fallback on sheets of which several cells are snapped; and the rounding of scaled cells, which `SheetFrames`
takes as done.
