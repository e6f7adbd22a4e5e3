------------------------------ MODULE DetectJob ------------------------------
(***************************************************************************)
(* The three detect-defects jobs, which inspect the selected results of a  *)
(* sprite (remix_detect_defects), a mix batch (remix_detect_mix_defects)   *)
(* or a remove-background batch (remix_detect_rmbg_defects) and write      *)
(* nothing but their own job row.                                          *)
(*                                                                         *)
(* The sprite and rmbg handlers start every sheet at once, the mix handler *)
(* takes them one by one; each sheet runs the core of its kind: images,    *)
(* prompt and payload, one Gemini call and one more if the answer does not *)
(* parse. The three place the cancel poll and the progress report          *)
(* differently, and so lose different things when one of them raises.      *)
(***************************************************************************)
EXTENDS Integers, FiniteSets

CONSTANTS Sheets,    \* crop_sheets of the sprite or batch, 1 .. n in order
          CallCap,   \* _DETECT_SEM, of the cores and of the rmbg handler
          MaxErrors, \* MAX_RESULT_ERRORS
          MaxFaults  \* bound: database errors

ASSUME SheetsAssumption == IsFiniteSet(Sheets) /\ Sheets = 1 .. Cardinality(Sheets)
ASSUME CapsAssumption == CallCap \in Nat \ {0} /\ MaxErrors \in Nat /\ MaxFaults \in Nat

VARIABLES
  kind,      \* which of the three jobs
  stored,    \* what the sheets are, as the load will find them
  cancelReq, \* cancel_requested of the job row
  phase,     \* where the handler stands, or how it ended
  pos,       \* the sheet the mix loop is at
  broke,     \* whether a cancel has left the mix loop
  task,      \* where the inspection of a sheet stands
  skipped,   \* the sheets counted in skipped_sheets
  answers,   \* entries of defectsBySheet for a sheet
  errors,    \* entries of errors for a sheet
  pushed,    \* the length of errors
  mark,      \* sheets_block
  done,      \* sheets counted as done
  sent,      \* the current_step of the report on its way
  row,       \* current_step of the job row
  faults

inputs == <<kind, stored>>
result == <<skipped, answers, errors, pushed, mark, done>>
progress == <<sent, row>>
loop == <<pos, broke>>
vars == <<inputs, cancelReq, phase, loop, task, result, progress, faults>>

Kinds == {"sprite", "mix", "rmbg"}
\* What decides how a sheet is taken: no selected result, a result without usable pieces, a mix
\* sheet with none of the swap targets, one with none of the focused targets, any other sheet.
Classes == {"unselected", "pieceless", "targetless", "unfocused", "ready"}
Tasks == {"none", "waiting", "preparing", "fitting", "asking", "calling", "reasking", "recalling",
          "telling", "sending", "finished", "lost"}
Marks == {"none", "pending", "running", "done", "failed", "cancelled"}
Returned == {"completed", "cancelled", "failed"}
Phases == Returned \cup {"raised", "queued", "polling", "gathering", "looping", "closing"}

ClassesOf(k) == IF k = "mix" THEN Classes ELSE {"unselected", "pieceless", "ready"}

\* The sheets the handler will not inspect. The rmbg handler looks at the selection only; a sheet
\* without pieces then fails on its own.
Ineligible(s) ==
  CASE kind = "sprite" -> stored[s] \in {"unselected", "pieceless"}
    [] kind = "mix" -> stored[s] \in {"unselected", "targetless", "pieceless"}
    [] kind = "rmbg" -> stored[s] = "unselected"
Scope == {s \in Sheets : ~Ineligible(s)}

Busy(states) == {s \in Sheets : task[s] \in states}
Working == {"preparing", "fitting", "asking", "calling", "reasking", "recalling", "telling",
            "sending"}
Fault == faults < MaxFaults /\ faults' = faults + 1
Goes(s, where) == task' = [task EXCEPT ![s] = where]

-----------------------------------------------------------------------------
TypeOK ==
  /\ kind \in Kinds /\ stored \in [Sheets -> Classes] /\ cancelReq \in BOOLEAN
  /\ phase \in Phases /\ pos \in Nat /\ broke \in BOOLEAN
  /\ task \in [Sheets -> Tasks] /\ mark \in [Sheets -> Marks]
  /\ skipped \subseteq Sheets
  /\ answers \in [Sheets -> Nat] /\ errors \in [Sheets -> Nat]
  /\ pushed \in Nat /\ done \in Nat /\ sent \in Nat /\ row \in Nat /\ faults \in Nat

\* Each route counts the sheets with a selected result and turns a request without one down.
RequestSprite ==
  kind = "sprite" /\ stored \in [Sheets -> ClassesOf(kind)] /\ \E s \in Sheets : stored[s] # "unselected"
RequestMix ==
  kind = "mix" /\ stored \in [Sheets -> ClassesOf(kind)] /\ \E s \in Sheets : stored[s] # "unselected"
RequestRmbg ==
  kind = "rmbg" /\ stored \in [Sheets -> ClassesOf(kind)] /\ \E s \in Sheets : stored[s] # "unselected"

\* The row is inserted; the handler starts with nothing done.
Init ==
  /\ RequestSprite \/ RequestMix \/ RequestRmbg
  /\ cancelReq = FALSE /\ phase = "queued"
  /\ pos = 1 /\ broke = FALSE
  /\ task = [s \in Sheets |-> "none"]
  /\ skipped = {} /\ pushed = 0
  /\ answers = [s \in Sheets |-> 0] /\ errors = [s \in Sheets |-> 0]
  /\ mark = [s \in Sheets |-> "none"]
  /\ done = 0 /\ sent = 0 /\ row = 0 /\ faults = 0

\* The editor changes a sheet between the enqueue and the load; the handler never looks again.
Edit(s) ==
  /\ phase = "queued"
  /\ \E c \in ClassesOf(kind) : stored' = [stored EXCEPT ![s] = c]
  /\ UNCHANGED <<kind, cancelReq, phase, loop, task, result, progress, faults>>

RequestCancel ==
  /\ ~cancelReq /\ phase \notin Returned \cup {"raised"}
  /\ cancelReq' = TRUE
  /\ UNCHANGED <<inputs, phase, loop, task, result, progress, faults>>

-----------------------------------------------------------------------------
(* The handler                                                             *)

\* The remix cannot be read, the sprite or batch is gone, or its objects do not resolve.
LoadFails ==
  /\ phase = "queued"
  /\ phase' = "failed"
  /\ UNCHANGED <<inputs, cancelReq, loop, task, result, progress, faults>>

\* The scope of the sprite and rmbg handlers: with nothing to inspect the job is completed.
Load ==
  /\ phase = "queued" /\ kind # "mix"
  /\ phase' = IF Scope = {} THEN "completed" ELSE "polling"
  /\ skipped' = Sheets \ Scope
  /\ mark' = [s \in Sheets |-> IF s \in Scope THEN "pending" ELSE "none"]
  /\ UNCHANGED <<inputs, cancelReq, loop, task, answers, errors, pushed, done, progress, faults>>

LoadMix ==
  /\ phase = "queued" /\ kind = "mix"
  /\ phase' = "looping"
  /\ UNCHANGED <<inputs, cancelReq, loop, task, result, progress, faults>>

\* The poll before the gather, which starts every sheet of the scope.
FirstPoll ==
  /\ phase = "polling"
  /\ \/ Fault /\ phase' = "raised" /\ UNCHANGED task
     \/ cancelReq /\ phase' = "cancelled" /\ UNCHANGED <<task, faults>>
     \/ /\ ~cancelReq
        /\ phase' = "gathering"
        /\ task' = [s \in Sheets |-> IF s \in Scope THEN "waiting" ELSE "none"]
        /\ UNCHANGED faults
  /\ UNCHANGED <<inputs, cancelReq, loop, result, progress>>

\* An exception leaves the task of s: the sprite gather passes it on at once and the other tasks
\* run on; the rmbg gather collects it; the mix loop ends with it.
Escapes(s) ==
  /\ Goes(s, "lost")
  /\ phase' = IF kind = "rmbg" THEN phase ELSE "raised"

\* A task begins with its poll; an rmbg task first waits for the handler's semaphore. A poll that
\* raises is outside the try block.
Enter(s) ==
  /\ task[s] = "waiting"
  /\ kind = "rmbg" => Cardinality(Busy(Working)) < CallCap
  /\ \/ Fault /\ Escapes(s) /\ UNCHANGED mark
     \/ /\ cancelReq
        /\ Goes(s, "finished") /\ mark' = [mark EXCEPT ![s] = "cancelled"]
        /\ UNCHANGED <<phase, faults>>
     \/ /\ ~cancelReq
        /\ Goes(s, "preparing") /\ mark' = [mark EXCEPT ![s] = "running"]
        /\ UNCHANGED <<phase, faults>>
  /\ UNCHANGED <<inputs, cancelReq, loop, skipped, answers, errors, pushed, done, progress>>

Answered(s) ==
  /\ Goes(s, "telling")
  /\ answers' = [answers EXCEPT ![s] = @ + 1]
  /\ mark' = [mark EXCEPT ![s] = "done"]
  /\ done' = done + 1
  /\ UNCHANGED <<skipped, errors, pushed>>

\* _push_error, and the sheet is done.
Failed(s) ==
  /\ Goes(s, "telling")
  /\ IF pushed < MaxErrors
     THEN errors' = [errors EXCEPT ![s] = @ + 1] /\ pushed' = pushed + 1
     ELSE UNCHANGED <<errors, pushed>>
  /\ mark' = [mark EXCEPT ![s] = "failed"]
  /\ done' = done + 1
  /\ UNCHANGED <<skipped, answers>>

\* The mix loop reaches sheet pos: poll, gates, then an empty answer if nothing here is in focus.
MixNext(s) ==
  /\ phase = "looping" /\ s = pos /\ Busy(Working) = {}
  /\ \/ Fault /\ phase' = "raised" /\ UNCHANGED <<loop, task, result>>
     \/ /\ cancelReq
        /\ phase' = "closing" /\ broke' = TRUE
        /\ UNCHANGED <<pos, task, result, faults>>
     \/ /\ ~cancelReq /\ pos' = pos + 1
        /\ \/ /\ Ineligible(s)
              /\ skipped' = skipped \cup {s}
              /\ UNCHANGED <<task, answers, errors, pushed, mark, done>>
           \/ stored[s] = "unfocused" /\ Answered(s)
           \/ /\ stored[s] = "ready"
              /\ Goes(s, "preparing") /\ mark' = [mark EXCEPT ![s] = "running"]
              /\ UNCHANGED <<skipped, answers, errors, pushed, done>>
        /\ UNCHANGED <<phase, broke, faults>>
  /\ UNCHANGED <<inputs, cancelReq, progress>>

MixEnds ==
  /\ phase = "looping" /\ pos \notin Sheets /\ Busy(Working) = {}
  /\ phase' = "closing"
  /\ UNCHANGED <<inputs, cancelReq, loop, task, result, progress, faults>>

\* Every task is over. The last poll of the sprite and rmbg handlers; the mix handler goes by what
\* its loop has seen. Work done before the cancel is kept.
Close ==
  /\ \/ phase = "gathering" /\ Busy(Working \cup {"waiting"}) = {}
     \/ phase = "closing"
  /\ \/ phase = "gathering" /\ Fault /\ phase' = "raised"
     \/ /\ phase' = IF (IF kind = "mix" THEN broke ELSE cancelReq) /\ \A s \in Sheets : answers[s] = 0
                    THEN "cancelled" ELSE "completed"
        /\ UNCHANGED faults
  /\ UNCHANGED <<inputs, cancelReq, loop, task, result, progress>>

-----------------------------------------------------------------------------
(* The core of one sheet                                                   *)

Inspects(s, stage) == task[s] = stage
Moves(s, stage) == /\ Goes(s, stage)
                   /\ UNCHANGED result
Unmoved == UNCHANGED <<inputs, cancelReq, phase, loop, progress, faults>>

\* The request, its images and their downscale: any failure is the sheet's. Sprite: the original, the
\* result and every human.
PrepareSprite(s) ==
  /\ Inspects(s, "preparing") /\ kind = "sprite"
  /\ Moves(s, "fitting") \/ Failed(s)
  /\ Unmoved

\* Mix: the references and the locators as well, composed into the variant sheets.
PrepareMix(s) ==
  /\ Inspects(s, "preparing") /\ kind = "mix"
  /\ Moves(s, "fitting") \/ Failed(s)
  /\ Unmoved

\* Both rmbg images are composed from the sheet's pieces, and a request without them does not
\* validate.
Composable(s) == stored[s] # "pieceless"

\* Rmbg: the original and the result.
PrepareRmbg(s) ==
  /\ Inspects(s, "preparing") /\ kind = "rmbg"
  /\ \/ Composable(s) /\ Moves(s, "fitting")
     \/ Failed(s)
  /\ Unmoved

\* The prompt and the payload guard.
Fit(s) ==
  /\ Inspects(s, "fitting")
  /\ Moves(s, "asking") \/ Failed(s)
  /\ Unmoved

Ask(s) ==
  /\ Cardinality(Busy({"calling", "recalling"})) < CallCap
  /\ \/ Inspects(s, "asking") /\ Moves(s, "calling")
     \/ Inspects(s, "reasking") /\ Moves(s, "recalling")
  /\ Unmoved

Answer(s) ==
  /\ Inspects(s, "calling") \/ Inspects(s, "recalling")
  /\ Answered(s)
  /\ Unmoved

\* Mutant: the answer that did not parse is an error at once, and asked for again.
GarbleTwice(s) ==
  /\ \/ /\ Inspects(s, "calling") /\ pushed < MaxErrors
        /\ Goes(s, "reasking")
        /\ errors' = [errors EXCEPT ![s] = @ + 1] /\ pushed' = pushed + 1
        /\ UNCHANGED <<skipped, answers, mark, done>>
     \/ Inspects(s, "recalling") /\ Failed(s)
  /\ Unmoved

\* An answer that does not parse, or an empty one, is asked for once more.
Garble(s) ==
  /\ \/ Inspects(s, "calling") /\ Moves(s, "reasking")
     \/ Inspects(s, "recalling") /\ Failed(s)
  /\ Unmoved

\* A safety block is final.
Refuse(s) ==
  /\ Inspects(s, "calling") \/ Inspects(s, "recalling")
  /\ Failed(s)
  /\ Unmoved

\* The call times out or raises when the client's own retries are spent: it is logged as an error.
CallFails(s) ==
  /\ Inspects(s, "calling") \/ Inspects(s, "recalling")
  /\ Failed(s)
  /\ Unmoved

\* run_detect_*_defects, from the request to its answer or error.
Core(s) ==
  \/ PrepareSprite(s) \/ PrepareMix(s) \/ PrepareRmbg(s) \/ Fit(s) \/ Ask(s)
  \/ Answer(s) \/ Garble(s) \/ Refuse(s) \/ CallFails(s)

-----------------------------------------------------------------------------
(* The report of a sheet, under the handler's lock                         *)

Send(s) ==
  /\ Inspects(s, "telling") /\ Busy({"sending"}) = {}
  /\ Goes(s, "sending") /\ sent' = done
  /\ UNCHANGED <<inputs, cancelReq, phase, loop, result, row, faults>>

Told(s) ==
  /\ Inspects(s, "sending")
  /\ Goes(s, "finished") /\ row' = sent
  /\ UNCHANGED <<inputs, cancelReq, phase, loop, result, sent, faults>>

\* The update raises, whether or not it has reached the database.
ReportFault(s) ==
  /\ Inspects(s, "sending") /\ Fault
  /\ Escapes(s) /\ row' \in {row, sent}
  /\ UNCHANGED <<inputs, cancelReq, loop, result, sent>>

-----------------------------------------------------------------------------
Next ==
  \/ RequestCancel \/ LoadFails \/ Load \/ LoadMix \/ FirstPoll \/ MixEnds \/ Close
  \/ \E s \in Sheets : \/ Edit(s) \/ Enter(s) \/ MixNext(s) \/ Core(s)
                       \/ Send(s) \/ Told(s) \/ ReportFault(s)

Spec == Init /\ [][Next]_vars

-----------------------------------------------------------------------------
(* Properties                                                              *)

\* A cancelled sheet, or one the mix loop never reached because of the cancel.
LeftByCancel(s) == cancelReq /\ (mark[s] = "cancelled" \/ (broke /\ s >= pos))
\* The two ways a sheet can drop out of the result of a completed job without a cancel: its poll
\* raised and the rmbg gather kept the exception, or the list of errors was full.
DroppedOut(s) == \/ kind = "rmbg" /\ task[s] = "lost" /\ mark[s] = "pending"
                 \/ mark[s] = "failed" /\ pushed = MaxErrors

\* Every sheet of a completed job is in its result exactly once: inspected, in error or skipped,
\* unless it was left by a cancel or dropped out in one of the two known ways. What the result
\* says is inspected, step_details says is done, and when every report arrived the row counts
\* exactly the sheets that were inspected or failed.
EverySheetAnswered ==
  phase = "completed" =>
    /\ \A s \in Sheets :
         /\ answers[s] + errors[s] + (IF s \in skipped THEN 1 ELSE 0) =
              IF LeftByCancel(s) \/ (DroppedOut(s) /\ errors[s] = 0) THEN 0 ELSE 1
         /\ (mark[s] = "done") <=> (answers[s] = 1)
    /\ Busy({"lost"}) = {} => row = Cardinality({s \in Sheets : mark[s] \in {"done", "failed"}})
=============================================================================
