-------------------------- MODULE DetectJobProofs --------------------------
(***************************************************************************)
(* What DetectJob guarantees for any number of sheets, calls at a time,    *)
(* entries of the error list and database errors: a completed job accounts *)
(* for every sheet exactly once.                                           *)
(***************************************************************************)
EXTENDS MCDetectJob, OrderLemmas, SequenceTheorems

\* The sheets are finitely many, from the first on.
LEMMA SheetsShape == IsFiniteSet(Sheets) /\ \E n \in Nat : Sheets = 1 .. n
BY SheetsAssumption, FS_CardinalityType

Asking == {"preparing", "fitting", "asking", "calling", "reasking", "recalling"}

-----------------------------------------------------------------------------
(* The steps of the core of a sheet: on to the next stage, or answered, or *)
(* failed.                                                                 *)

LEMMA CoreStep ==
  ASSUME NEW s \in Sheets, Core(s)
  PROVE  /\ task[s] \in Asking
         /\ Unmoved
         /\ \/ \E stage \in Asking : Moves(s, stage)
            \/ Answered(s)
            \/ Failed(s)
BY DEF Core, PrepareSprite, PrepareMix, PrepareRmbg, Fit, Ask, Answer, Garble, Refuse, CallFails,
       Inspects, Asking, Unmoved

-----------------------------------------------------------------------------
(* Types                                                                   *)

LEMMA StoredClasses == \A k \in Kinds : [Sheets -> ClassesOf(k)] \subseteq [Sheets -> Classes]
BY DEF ClassesOf, Classes

LEMMA TypeInit == Init => TypeOK
<1> SUFFICES ASSUME Init PROVE TypeOK
  OBVIOUS
<1>1. kind \in Kinds /\ stored \in [Sheets -> ClassesOf(kind)]
  BY DEF Init, RequestSprite, RequestMix, RequestRmbg, Kinds
<1>2. stored \in [Sheets -> Classes]
  BY <1>1, StoredClasses
<1> QED BY <1>1, <1>2 DEF Init, TypeOK, Phases, Tasks, Marks

LEMMA AnsweredType == TypeOK => \A s \in Sheets : Answered(s) =>
    /\ task' \in [Sheets -> Tasks] /\ mark' \in [Sheets -> Marks] /\ skipped' \subseteq Sheets
    /\ answers' \in [Sheets -> Nat] /\ errors' \in [Sheets -> Nat] /\ pushed' \in Nat /\ done' \in Nat
BY DEF TypeOK, Answered, Goes, Tasks, Marks

LEMMA FailedType == TypeOK => \A s \in Sheets : Failed(s) =>
    /\ task' \in [Sheets -> Tasks] /\ mark' \in [Sheets -> Marks] /\ skipped' \subseteq Sheets
    /\ answers' \in [Sheets -> Nat] /\ errors' \in [Sheets -> Nat] /\ pushed' \in Nat /\ done' \in Nat
BY DEF TypeOK, Failed, Goes, Tasks, Marks

LEMMA TypeStep == TypeOK /\ [Next]_vars => TypeOK'
<1> SUFFICES ASSUME TypeOK, [Next]_vars PROVE TypeOK'
  OBVIOUS
<1> USE DEF inputs, result, progress, loop, Fault
<1>1. CASE RequestCancel \/ LoadFails \/ LoadMix \/ MixEnds \/ Close
  <2>1. phase' \in Phases /\ cancelReq' \in BOOLEAN /\ faults' \in Nat
    <3>1. CASE RequestCancel \/ LoadFails \/ LoadMix \/ MixEnds
      BY <1>1, <3>1 DEF TypeOK, RequestCancel, LoadFails, LoadMix, MixEnds, Phases, Returned
    <3>2. CASE Close
      <4>1. phase' \in {"raised", "cancelled", "completed"} /\ cancelReq' = cancelReq
        BY <3>2 DEF Close
      <4>2. faults' \in Nat
        BY <3>2 DEF Close, TypeOK
      <4> QED BY <4>1, <4>2 DEF TypeOK, Phases, Returned
    <3> QED BY <1>1, <3>1, <3>2
  <2>2. UNCHANGED <<inputs, loop, task, result, progress>>
    BY <1>1 DEF RequestCancel, LoadFails, LoadMix, MixEnds, Close
  <2> QED BY <2>1, <2>2 DEF TypeOK
<1>2. CASE Load
  BY <1>2 DEF TypeOK, Load, Phases, Returned, Marks
<1>3. CASE FirstPoll
  BY <1>3 DEF TypeOK, FirstPoll, Phases, Returned, Tasks
<1>4. ASSUME NEW s \in Sheets, Edit(s) PROVE TypeOK'
  BY <1>4 DEF TypeOK, Edit, ClassesOf, Classes
<1>5. ASSUME NEW s \in Sheets, Enter(s) PROVE TypeOK'
  BY <1>5 DEF TypeOK, Enter, Escapes, Goes, Tasks, Marks, Phases
<1>6. ASSUME NEW s \in Sheets, MixNext(s) PROVE TypeOK'
  <2>1. /\ task' \in [Sheets -> Tasks] /\ mark' \in [Sheets -> Marks] /\ skipped' \subseteq Sheets
        /\ answers' \in [Sheets -> Nat] /\ errors' \in [Sheets -> Nat] /\ pushed' \in Nat /\ done' \in Nat
    <3>1. CASE Answered(s)
      BY <3>1, AnsweredType
    <3>2. CASE ~Answered(s)
      BY <1>6, <3>2 DEF MixNext, TypeOK, Goes, Tasks, Marks
    <3> QED BY <3>1, <3>2
  <2>2. phase' \in Phases /\ broke' \in BOOLEAN
    BY <1>6 DEF MixNext, TypeOK, Phases
  <2>3. pos' \in Nat /\ faults' \in Nat
    BY <1>6 DEF MixNext, TypeOK
  <2>4. UNCHANGED <<inputs, cancelReq, progress>>
    BY <1>6 DEF MixNext
  <2> QED BY <2>1, <2>2, <2>3, <2>4 DEF TypeOK
<1>7. ASSUME NEW s \in Sheets, Core(s) PROVE TypeOK'
  <2>1. Unmoved
    BY <1>7, CoreStep
  <2>2. /\ task' \in [Sheets -> Tasks] /\ mark' \in [Sheets -> Marks] /\ skipped' \subseteq Sheets
        /\ answers' \in [Sheets -> Nat] /\ errors' \in [Sheets -> Nat] /\ pushed' \in Nat /\ done' \in Nat
    <3>1. ASSUME NEW stage \in Asking, Moves(s, stage)
          PROVE  task' \in [Sheets -> Tasks] /\ UNCHANGED result
      BY <3>1 DEF Moves, Goes, TypeOK, Tasks, Asking
    <3> QED BY <1>7, CoreStep, <3>1, AnsweredType, FailedType DEF TypeOK
  <2> QED BY <2>1, <2>2 DEF Unmoved, TypeOK
<1>8. ASSUME NEW s \in Sheets, Send(s) \/ Told(s) \/ ReportFault(s) PROVE TypeOK'
  BY <1>8 DEF TypeOK, Send, Told, ReportFault, Escapes, Goes, Tasks, Phases
<1>9. CASE UNCHANGED vars
  BY <1>9 DEF vars, TypeOK
<1> QED BY <1>1, <1>2, <1>3, <1>4, <1>5, <1>6, <1>7, <1>8, <1>9 DEF Next, Core

\* Every state of the detect jobs is well typed.
THEOREM TypeCorrect == Spec => []TypeOK
<1> QED BY TypeInit, TypeStep, PTL DEF Spec

-----------------------------------------------------------------------------
(* One sheet                                                               *)

NoEntry(s) == answers[s] = 0 /\ errors[s] = 0
Settled(s) ==
  \/ mark[s] = "done" /\ answers[s] = 1 /\ errors[s] = 0
  \/ mark[s] = "failed" /\ answers[s] = 0 /\ errors[s] = 1
  \/ mark[s] = "failed" /\ answers[s] = 0 /\ errors[s] = 0 /\ pushed = MaxErrors

\* What the result says of a sheet, by where its task stands.
SheetSays(s) ==
  /\ task[s] = "none" => mark[s] \in {"none", "pending"} /\ NoEntry(s)
  /\ task[s] = "waiting" => mark[s] = "pending" /\ NoEntry(s)
  /\ task[s] \in Asking => mark[s] = "running" /\ NoEntry(s)
  /\ task[s] \in {"telling", "sending"} => Settled(s)
  /\ task[s] = "finished" => Settled(s) \/ (mark[s] = "cancelled" /\ cancelReq /\ NoEntry(s))
  /\ task[s] = "lost" => kind = "rmbg" \/ phase = "raised"
  /\ task[s] = "lost" => Settled(s) \/ (mark[s] = "pending" /\ NoEntry(s))
  /\ s \in skipped => task[s] = "none"

SheetsSay == pushed <= MaxErrors /\ \A s \in Sheets : SheetSays(s)

\* The inspection of s comes to its end, answered or failed.
LEMMA SettleStep ==
  ASSUME TypeOK, SheetsSay, NEW s \in Sheets, task[s] \in Asking \/ task[s] = "none", s \notin skipped,
         Answered(s) \/ Failed(s), UNCHANGED <<kind, cancelReq>>, phase' = phase
  PROVE  SheetsSay'
<1>1. /\ task'[s] = "telling" /\ skipped' = skipped
      /\ \A d \in Sheets : d # s => /\ task'[d] = task[d] /\ mark'[d] = mark[d]
                                    /\ answers'[d] = answers[d] /\ errors'[d] = errors[d]
  BY DEF TypeOK, Answered, Failed, Goes
<1>2. NoEntry(s)
  BY DEF SheetsSay, SheetSays
<1>3. Settled(s)' /\ pushed' <= MaxErrors /\ pushed' >= pushed /\ pushed' \in Nat
  <2>1. CASE Answered(s)
    BY <2>1, <1>2 DEF Answered, TypeOK, Settled, NoEntry, SheetsSay
  <2>2. CASE Failed(s)
    BY <2>2, <1>2, CapsAssumption DEF Failed, TypeOK, Settled, NoEntry, SheetsSay
  <2> QED BY <2>1, <2>2
<1>4. \A d \in Sheets : d # s => SheetSays(d)'
  <2>1. pushed = MaxErrors => pushed' = MaxErrors
    BY <1>3, CapsAssumption DEF TypeOK
  <2> SUFFICES ASSUME NEW d \in Sheets, d # s PROVE SheetSays(d)'
    OBVIOUS
  <2>2. /\ task'[d] = task[d] /\ mark'[d] = mark[d] /\ answers'[d] = answers[d] /\ errors'[d] = errors[d]
        /\ skipped' = skipped
    BY <1>1
  <2>3. (Settled(d) => Settled(d)') /\ (NoEntry(d) => NoEntry(d)')
    BY <2>1, <2>2 DEF Settled, NoEntry
  <2> QED BY <2>2, <2>3 DEF SheetsSay, SheetSays
<1>5. SheetSays(s)'
  BY <1>1, <1>3 DEF SheetsSay, SheetSays, Asking
<1> QED BY <1>3, <1>4, <1>5 DEF SheetsSay

\* A task moves and nothing else about its sheet changes.
LEMMA MoveStep ==
  ASSUME TypeOK, SheetsSay, NEW s \in Sheets, NEW where, Goes(s, where), UNCHANGED <<result, kind, cancelReq>>,
         phase' = phase \/ phase' = "raised",
         \/ task[s] \in Asking /\ where \in Asking
         \/ task[s] = "telling" /\ where = "sending"
         \/ task[s] = "sending" /\ where = "finished"
         \/ task[s] \in {"waiting", "sending"} /\ where = "lost" /\ (kind = "rmbg" \/ phase' = "raised")
  PROVE  SheetsSay'
<1>1. task'[s] = where /\ \A d \in Sheets : d # s => task'[d] = task[d]
  BY DEF TypeOK, Goes
<1>2. \A d \in Sheets : d # s => SheetSays(d)'
  BY <1>1 DEF SheetsSay, SheetSays, Settled, NoEntry, result
<1>3. SheetSays(s)'
  BY <1>1 DEF SheetsSay, SheetSays, Settled, NoEntry, result, Asking
<1> QED BY <1>2, <1>3 DEF SheetsSay, result

-----------------------------------------------------------------------------
(* Where the handler stands and which sheets it has reached                *)

AllNone == \A s \in Sheets : task[s] = "none"
Over == \A s \in Sheets : task[s] \notin Working \cup {"waiting"}

Gathers ==
  kind # "mix" =>
    /\ ~broke /\ phase \notin {"looping", "closing"}
    /\ phase = "polling" => AllNone /\ skipped = Sheets \ Scope /\ \A s \in Scope : mark[s] = "pending"
    /\ phase \in {"gathering", "completed"} => \A s \in Sheets : task[s] = "none" => s \in skipped

Loops ==
  kind = "mix" =>
    /\ phase \notin {"polling", "gathering"}
    /\ \A s \in Sheets : task[s] # "waiting" /\ (s < pos <=> task[s] # "none" \/ s \in skipped)
    /\ phase \in {"closing", "completed"} => broke \/ pos \notin Sheets

Reached ==
  /\ phase = "queued" => AllNone /\ skipped = {} /\ pos = 1
  /\ Gathers
  /\ Loops
  /\ phase \in {"closing", "completed"} => Over
  /\ broke => cancelReq
  /\ pos >= 1

LEMMA SheetsStep == TypeOK /\ Reached /\ SheetsSay /\ [Next]_vars => SheetsSay'
<1> SUFFICES ASSUME TypeOK, Reached, SheetsSay, [Next]_vars PROVE SheetsSay'
  OBVIOUS
<1> USE DEF inputs, result, progress, loop
<1>1. CASE RequestCancel \/ LoadFails \/ LoadMix \/ MixEnds \/ Close
  <2>1. UNCHANGED <<kind, task, result>> /\ (cancelReq' = cancelReq \/ cancelReq') /\ (phase = "raised" => phase' = "raised")
    BY <1>1 DEF RequestCancel, LoadFails, LoadMix, MixEnds, Close
  <2> QED BY <2>1 DEF SheetsSay, SheetSays, Settled, NoEntry
<1>2. CASE Load
  <2>1. \A s \in Sheets : task[s] = "none" /\ NoEntry(s)
    BY <1>2 DEF Load, Reached, AllNone, SheetsSay, SheetSays
  <2> QED BY <1>2, <2>1 DEF Load, SheetsSay, SheetSays, Settled, NoEntry, Asking
<1>3. CASE FirstPoll
  <2>1. CASE task' = task
    BY <1>3, <2>1 DEF FirstPoll, SheetsSay, SheetSays, Settled, NoEntry
  <2>2. CASE task' # task
    <3>1. \A s \in Sheets : task[s] = "none" /\ (s \in Scope => mark[s] = "pending" /\ s \notin skipped)
      BY <1>3 DEF FirstPoll, Reached, Gathers, Loops, AllNone
    <3>2. \A s \in Sheets : task'[s] = IF s \in Scope THEN "waiting" ELSE "none"
      BY <1>3, <2>2 DEF FirstPoll
    <3>3. UNCHANGED <<kind, cancelReq, result>>
      BY <1>3 DEF FirstPoll
    <3> QED BY <3>1, <3>2, <3>3 DEF SheetsSay, SheetSays, Settled, NoEntry, Asking
  <2> QED BY <2>1, <2>2
<1>4. ASSUME NEW s \in Sheets, Edit(s) PROVE SheetsSay'
  BY <1>4 DEF Edit, SheetsSay, SheetSays, Settled, NoEntry
<1>5. ASSUME NEW s \in Sheets, Enter(s) PROVE SheetsSay'
  <2>1. CASE Escapes(s) /\ mark' = mark
    BY <1>5, <2>1, MoveStep DEF Enter, Escapes
  <2>2. CASE ~(Escapes(s) /\ mark' = mark)
    <3>1. /\ task[s] = "waiting" /\ phase' = phase
          /\ UNCHANGED <<kind, cancelReq, skipped, answers, errors, pushed>>
          /\ \A d \in Sheets : d # s => task'[d] = task[d] /\ mark'[d] = mark[d]
          /\ \/ task'[s] = "finished" /\ mark'[s] = "cancelled" /\ cancelReq
             \/ task'[s] = "preparing" /\ mark'[s] = "running"
      BY <1>5, <2>2 DEF Enter, Goes, TypeOK
    <3>2. \A d \in Sheets : d # s => SheetSays(d)'
      BY <3>1 DEF SheetsSay, SheetSays, Settled, NoEntry
    <3>3. SheetSays(s)'
      BY <3>1 DEF SheetsSay, SheetSays, Settled, NoEntry, Asking
    <3> QED BY <3>1, <3>2, <3>3 DEF SheetsSay
  <2> QED BY <2>1, <2>2
<1>6. ASSUME NEW s \in Sheets, MixNext(s) PROVE SheetsSay'
  <2>1. kind = "mix" /\ task[s] = "none" /\ s \notin skipped /\ (phase' = phase \/ phase' \in {"raised", "closing"})
    BY <1>6 DEF MixNext, Reached, Gathers, Loops, TypeOK
  <2>2. CASE task' = task /\ skipped' = skipped /\ UNCHANGED <<answers, errors, pushed, mark, done>>
    BY <1>6, <2>1, <2>2 DEF MixNext, SheetsSay, SheetSays, Settled, NoEntry
  <2>3. CASE Ineligible(s) /\ skipped' = skipped \cup {s} /\ UNCHANGED <<task, answers, errors, pushed, mark, done>>
    BY <1>6, <2>1, <2>3 DEF MixNext, SheetsSay, SheetSays, Settled, NoEntry
  <2>4. CASE Answered(s) /\ phase' = phase
    BY <1>6, <2>1, <2>4, SettleStep DEF MixNext
  <2>5. CASE /\ Goes(s, "preparing") /\ mark' = [mark EXCEPT ![s] = "running"] /\ phase' = phase
             /\ UNCHANGED <<skipped, answers, errors, pushed, done>>
    <3>1. /\ task'[s] = "preparing" /\ mark'[s] = "running"
          /\ \A d \in Sheets : d # s => task'[d] = task[d] /\ mark'[d] = mark[d]
      BY <2>5 DEF Goes, TypeOK
    <3>2. UNCHANGED <<kind, cancelReq>>
      BY <1>6 DEF MixNext
    <3> QED BY <2>1, <2>5, <3>1, <3>2 DEF SheetsSay, SheetSays, Settled, NoEntry, Asking
  <2> QED BY <1>6, <2>1, <2>2, <2>3, <2>4, <2>5 DEF MixNext
<1>7. ASSUME NEW s \in Sheets, Core(s) PROVE SheetsSay'
  <2>1. task[s] \in Asking /\ Unmoved
    BY <1>7, CoreStep
  <2>2. s \notin skipped
    BY <2>1 DEF SheetsSay, SheetSays, Asking
  <2>3. ASSUME NEW stage \in Asking, Moves(s, stage) PROVE SheetsSay'
    BY <2>1, <2>3, MoveStep DEF Moves, Unmoved
  <2>4. CASE Answered(s) \/ Failed(s)
    BY <2>1, <2>2, <2>4, SettleStep DEF Unmoved
  <2> QED BY <1>7, <2>3, <2>4, CoreStep
<1>8. ASSUME NEW s \in Sheets, Send(s) PROVE SheetsSay'
  BY <1>8, MoveStep DEF Send, Inspects
<1>9. ASSUME NEW s \in Sheets, Told(s) PROVE SheetsSay'
  BY <1>9, MoveStep DEF Told, Inspects
<1>10. ASSUME NEW s \in Sheets, ReportFault(s) PROVE SheetsSay'
  <2>1. Goes(s, "lost") /\ (kind = "rmbg" \/ phase' = "raised") /\ (phase' = phase \/ phase' = "raised")
    BY <1>10 DEF ReportFault, Escapes
  <2> QED BY <1>10, <2>1, MoveStep DEF ReportFault, Inspects
<1>11. CASE UNCHANGED vars
  BY <1>11 DEF vars, SheetsSay, SheetSays, Settled, NoEntry
<1> QED BY <1>1, <1>2, <1>3, <1>4, <1>5, <1>6, <1>7, <1>8, <1>9, <1>10, <1>11 DEF Next, Core

LEMMA ScopeStays == UNCHANGED inputs => Scope' = Scope
BY DEF inputs, Scope, Ineligible

LEMMA ReachedStep == TypeOK /\ SheetsSay /\ Reached /\ [Next]_vars => Reached'
<1> SUFFICES ASSUME TypeOK, SheetsSay, Reached, [Next]_vars PROVE Reached'
  OBVIOUS
<1> USE DEF inputs, result, progress, loop
<1>1. CASE RequestCancel
  BY <1>1, ScopeStays DEF RequestCancel, Reached, Gathers, Loops, AllNone, Over
<1>2. CASE LoadFails
  BY <1>2 DEF LoadFails, Reached, Gathers, Loops, AllNone, Over
<1>3. CASE Load
  <2>1. Scope' = Scope
    BY <1>3, ScopeStays DEF Load
  <2>2. AllNone /\ Over /\ Scope \subseteq Sheets
    BY <1>3 DEF Load, Reached, AllNone, Over, Working, Scope
  <2>3. Gathers'
    BY <1>3, <2>1, <2>2 DEF Load, Reached, Gathers, AllNone
  <2> QED BY <1>3, <2>2, <2>3 DEF Load, Reached, Loops, Over
<1>4. CASE LoadMix
  BY <1>4 DEF LoadMix, Reached, Gathers, Loops, AllNone, Over
<1>5. CASE FirstPoll
  <2>1. kind # "mix" /\ skipped = Sheets \ Scope
    BY <1>5 DEF FirstPoll, Reached, Gathers, Loops
  <2>2. phase' \in {"raised", "cancelled", "gathering"} /\ UNCHANGED <<kind, stored, skipped, broke, pos, cancelReq>>
    BY <1>5 DEF FirstPoll
  <2>3. phase' = "gathering" => \A s \in Sheets : task'[s] = "none" => s \notin Scope
    BY <1>5 DEF FirstPoll
  <2> QED BY <2>1, <2>2, <2>3 DEF Reached, Gathers, Loops
<1>6. CASE MixEnds
  <2>1. kind = "mix"
    BY <1>6 DEF MixEnds, Reached, Gathers
  <2>2. \A s \in Sheets : task[s] \notin Working \cup {"waiting"}
    BY <1>6, <2>1 DEF MixEnds, Busy, Reached, Loops
  <2> QED BY <1>6, <2>1, <2>2 DEF MixEnds, Reached, Gathers, Loops, Over
<1>7. CASE Close
  <2>1. phase' \in {"raised", "cancelled", "completed"} /\ phase \in {"gathering", "closing"}
        /\ UNCHANGED <<inputs, cancelReq, loop, task, result, progress>>
    BY <1>7 DEF Close
  <2>2. \A s \in Sheets : task[s] \notin Working \cup {"waiting"}
    BY <1>7 DEF Close, Busy, Reached, Over
  <2> QED BY <2>1, <2>2 DEF Reached, Gathers, Loops, Over
<1>8. ASSUME NEW s \in Sheets, Edit(s) PROVE Reached'
  BY <1>8 DEF Edit, Reached, Gathers, Loops, AllNone, Over
\* The moves of a task that is on its way: neither the scope nor the phase hides it.
<1>9. ASSUME NEW s \in Sheets, UNCHANGED <<inputs, cancelReq, loop, skipped>>, task[s] \in Working \cup {"waiting"},
             \A d \in Sheets : d # s => task'[d] = task[d],
             task'[s] \notin {"none", "waiting"},
             phase' = phase \/ phase' = "raised"
      PROVE  Reached'
  <2>1. phase \notin {"queued", "polling", "closing", "completed"}
    BY <1>9 DEF Reached, Gathers, Loops, AllNone, Over, Working
  <2>2. task[s] # "none"
    BY <1>9 DEF Working
  <2>3. Gathers'
    BY <1>9, <2>1, <2>2 DEF Reached, Gathers
  <2>4. Loops'
    BY <1>9, <2>1, <2>2 DEF Reached, Loops
  <2> QED BY <1>9, <2>1, <2>3, <2>4 DEF Reached
<1>10. ASSUME NEW s \in Sheets, Enter(s) PROVE Reached'
  <2>1. /\ UNCHANGED <<inputs, cancelReq, loop, skipped>> /\ task[s] = "waiting"
        /\ \E where \in {"lost", "finished", "preparing"} : Goes(s, where)
        /\ phase' = phase \/ phase' = "raised"
    BY <1>10 DEF Enter, Escapes
  <2> QED BY <1>9, <2>1 DEF Goes, TypeOK
<1>11. ASSUME NEW s \in Sheets, MixNext(s) PROVE Reached'
  <2>1. kind = "mix" /\ s = pos /\ UNCHANGED <<inputs, cancelReq>> /\ phase = "looping"
    BY <1>11 DEF MixNext, Reached, Gathers
  <2>2. CASE phase' = "raised" /\ UNCHANGED <<loop, task, result>>
    BY <2>1, <2>2 DEF Reached, Gathers, Loops
  <2>3. CASE cancelReq /\ phase' = "closing" /\ broke' = TRUE /\ UNCHANGED <<pos, task, result>>
    <3>1. \A d \in Sheets : task[d] \notin Working \cup {"waiting"}
      BY <1>11, <2>1 DEF MixNext, Busy, Reached, Loops
    <3> QED BY <2>1, <2>3, <3>1 DEF Reached, Gathers, Loops, Over
  <2>4. CASE pos' = pos + 1 /\ phase' = phase /\ broke' = broke
    <3>1. \A d \in Sheets : d # s => task'[d] = task[d] /\ (d \in skipped' <=> d \in skipped)
      BY <1>11, <2>1, <2>4 DEF MixNext, Answered, Goes, TypeOK
    <3>2. task'[s] # "none" \/ s \in skipped'
      BY <1>11, <2>1, <2>4 DEF MixNext, Answered, Goes, TypeOK
    <3>3. task'[s] # "waiting"
      BY <1>11, <2>1, <2>4 DEF MixNext, Answered, Goes, TypeOK, Reached, Loops
    <3>4. Sheets \subseteq Nat /\ pos \in Nat
      BY SheetsShape DEF TypeOK
    <3>5. \A d \in Sheets : task'[d] # "waiting" /\ (d < pos' <=> task'[d] # "none" \/ d \in skipped')
      BY <2>1, <2>4, <3>1, <3>2, <3>3, <3>4 DEF Reached, Loops
    <3> QED BY <2>1, <2>4, <3>4, <3>5 DEF Reached, Gathers, Loops
  <2> QED BY <1>11, <2>2, <2>3, <2>4 DEF MixNext
<1>12. ASSUME NEW s \in Sheets, Core(s) PROVE Reached'
  <2>1. task[s] \in Working /\ Unmoved
    BY <1>12, CoreStep DEF Asking, Working
  <2>2. \E where \in Asking \cup {"telling"} : Goes(s, where)
    BY <1>12, CoreStep DEF Moves, Answered, Failed
  <2>3. skipped' = skipped
    BY <1>12, CoreStep DEF Moves, Answered, Failed
  <2>4. task'[s] \notin {"none", "waiting"} /\ \A d \in Sheets : d # s => task'[d] = task[d]
    BY <2>2 DEF Goes, TypeOK, Asking
  <2> QED BY <1>9, <2>1, <2>3, <2>4 DEF Unmoved
<1>13. ASSUME NEW s \in Sheets, Send(s) \/ Told(s) \/ ReportFault(s) PROVE Reached'
  <2>1. /\ UNCHANGED <<inputs, cancelReq, loop, skipped>> /\ task[s] \in Working
        /\ \E where \in {"lost", "finished", "sending"} : Goes(s, where)
        /\ phase' = phase \/ phase' = "raised"
    BY <1>13 DEF Send, Told, ReportFault, Escapes, Inspects, Working
  <2> QED BY <1>9, <2>1 DEF Goes, TypeOK
<1>14. CASE UNCHANGED vars
  BY <1>14, ScopeStays DEF vars, Reached, Gathers, Loops, AllNone, Over
<1> QED BY <1>1, <1>2, <1>3, <1>4, <1>5, <1>6, <1>7, <1>8, <1>10, <1>11, <1>12, <1>13, <1>14 DEF Next, Core

-----------------------------------------------------------------------------
(* The counters and the reports                                            *)

Counted == {s \in Sheets : mark[s] \in {"done", "failed"}}
None(states) == \A s \in Sheets : task[s] \notin states

\* done is the number of counted sheets; the row follows it, one report at a time, unless one raised.
RowFollows ==
  /\ done = Cardinality(Counted)
  /\ \A s, d \in Sheets : task[s] = "sending" /\ task[d] = "sending" => s = d
  /\ None({"lost", "telling"}) => IF None({"sending"}) THEN row = done ELSE sent = done

LEMMA CountedFinite == IsFiniteSet(Counted)
<1>1. IsFiniteSet(Sheets)
  BY SheetsShape
<1> QED BY <1>1, FS_Subset DEF Counted

LEMMA ToldInit == Init => RowFollows
<1> SUFFICES ASSUME Init PROVE RowFollows
  OBVIOUS
<1>1. Counted = {}
  BY DEF Init, Counted
<1> QED BY <1>1, FS_EmptySet DEF Init, RowFollows, None

LEMMA ToldStep == TypeOK /\ Reached /\ SheetsSay /\ RowFollows /\ [Next]_vars => RowFollows'
<1> SUFFICES ASSUME TypeOK, Reached, SheetsSay, RowFollows, [Next]_vars PROVE RowFollows'
  OBVIOUS
<1> USE DEF inputs, result, progress, loop
\* A step that counts nothing and reports nothing.
<1>1. ASSUME Counted' = Counted, UNCHANGED <<done, sent, row>>,
             \A s \in Sheets : \A where \in {"telling", "sending"} : (task'[s] = where) <=> (task[s] = where),
             \A s \in Sheets : task[s] = "lost" => task'[s] = "lost"
      PROVE  RowFollows'
  BY <1>1 DEF RowFollows, None
<1>2. ASSUME NEW s \in Sheets, Answered(s) \/ Failed(s), task[s] \in Asking \cup {"none"}, UNCHANGED progress
      PROVE  RowFollows'
  <2>1. Counted' = Counted \cup {s} /\ s \notin Counted
    BY <1>2 DEF Answered, Failed, Counted, TypeOK, SheetsSay, SheetSays, Asking
  <2>2. done' = done + 1 /\ done \in Nat
    BY <1>2 DEF Answered, Failed, TypeOK
  <2>3. done' = Cardinality(Counted')
    BY <2>1, <2>2, CountedFinite, FS_AddElement DEF RowFollows
  <2>4. task'[s] = "telling" /\ \A d \in Sheets : d # s => task'[d] = task[d]
    BY <1>2 DEF Answered, Failed, Goes, TypeOK
  <2> QED BY <2>3, <2>4 DEF RowFollows, None
<1>3. CASE RequestCancel \/ LoadFails \/ LoadMix \/ MixEnds \/ Close
  BY <1>1, <1>3 DEF RequestCancel, LoadFails, LoadMix, MixEnds, Close, Counted
<1>4. CASE Load
  <2>1. Counted = {} /\ Counted' = {}
    BY <1>4 DEF Load, Counted, Reached, AllNone, SheetsSay, SheetSays
  <2> QED BY <1>1, <1>4, <2>1 DEF Load
<1>5. CASE FirstPoll
  <2>1. \A s \in Sheets : task[s] = "none"
    BY <1>5 DEF FirstPoll, Reached, Gathers, Loops, AllNone
  <2>2. \A s \in Sheets : task'[s] \in {"none", "waiting"}
    BY <1>5, <2>1 DEF FirstPoll
  <2>3. Counted' = Counted /\ UNCHANGED <<done, sent, row>>
    BY <1>5 DEF FirstPoll, Counted
  <2> QED BY <1>1, <2>1, <2>2, <2>3
<1>6. ASSUME NEW s \in Sheets, Edit(s) PROVE RowFollows'
  BY <1>1, <1>6 DEF Edit, Counted
<1>7. ASSUME NEW s \in Sheets, Enter(s) PROVE RowFollows'
  <2>1. /\ task[s] = "waiting" /\ UNCHANGED <<done, sent, row>>
        /\ task'[s] \in {"lost", "finished", "preparing"}
        /\ \A d \in Sheets : d # s => task'[d] = task[d]
    BY <1>7 DEF Enter, Escapes, Goes, TypeOK
  <2>2. Counted' = Counted
    <3>1. mark[s] = "pending"
      BY <2>1 DEF SheetsSay, SheetSays
    <3>2. mark'[s] \in {"pending", "cancelled", "running"} /\ \A d \in Sheets : d # s => mark'[d] = mark[d]
      BY <1>7, <3>1 DEF Enter, TypeOK
    <3> QED BY <3>1, <3>2 DEF Counted
  <2> QED BY <1>1, <2>1, <2>2
<1>8. ASSUME NEW s \in Sheets, MixNext(s) PROVE RowFollows'
  <2>1. task[s] = "none" /\ UNCHANGED <<sent, row>>
    BY <1>8 DEF MixNext, Reached, Gathers, Loops, TypeOK
  <2>2. CASE Answered(s)
    BY <1>2, <2>1, <2>2
  <2>3. CASE UNCHANGED <<task, mark, done>>
    BY <1>1, <2>1, <2>3 DEF Counted
  <2>4. CASE Goes(s, "preparing") /\ mark' = [mark EXCEPT ![s] = "running"] /\ done' = done
    <3>1. task'[s] = "preparing" /\ \A d \in Sheets : d # s => task'[d] = task[d]
      BY <2>4 DEF Goes, TypeOK
    <3>2. Counted' = Counted
      BY <2>1, <2>4 DEF Counted, TypeOK, SheetsSay, SheetSays
    <3> QED BY <1>1, <2>1, <2>4, <3>1, <3>2
  <2> QED BY <1>8, <2>2, <2>3, <2>4 DEF MixNext
<1>9. ASSUME NEW s \in Sheets, Core(s) PROVE RowFollows'
  <2>1. task[s] \in Asking /\ Unmoved
    BY <1>9, CoreStep
  <2>2. ASSUME NEW stage \in Asking, Moves(s, stage) PROVE RowFollows'
    <3>1. task'[s] = stage /\ \A d \in Sheets : d # s => task'[d] = task[d]
      BY <2>2 DEF Moves, Goes, TypeOK
    <3>2. Counted' = Counted /\ done' = done
      BY <2>2 DEF Moves, Counted
    <3> QED BY <1>1, <2>1, <2>2, <3>1, <3>2 DEF Unmoved, Asking
  <2> QED BY <1>2, <1>9, <2>1, <2>2, CoreStep DEF Unmoved
<1>10. ASSUME NEW s \in Sheets, Send(s) PROVE RowFollows'
  <2>1. /\ task'[s] = "sending" /\ \A d \in Sheets : d # s => task'[d] = task[d]
        /\ sent' = done /\ UNCHANGED <<done, mark>> /\ None({"sending"})
    BY <1>10 DEF Send, Goes, TypeOK, Busy, None
  <2>2. Counted' = Counted
    BY <2>1 DEF Counted
  <2> QED BY <2>1, <2>2 DEF RowFollows, None
<1>11. ASSUME NEW s \in Sheets, Told(s) PROVE RowFollows'
  <2>1. /\ task[s] = "sending" /\ task'[s] = "finished" /\ \A d \in Sheets : d # s => task'[d] = task[d]
        /\ row' = sent /\ UNCHANGED <<done, mark, sent>>
    BY <1>11 DEF Told, Goes, TypeOK, Inspects
  <2>2. Counted' = Counted
    BY <2>1 DEF Counted
  <2>3. None({"sending"})'
    BY <2>1 DEF RowFollows, None
  <2> QED BY <2>1, <2>2, <2>3 DEF RowFollows, None
<1>12. ASSUME NEW s \in Sheets, ReportFault(s) PROVE RowFollows'
  <2>1. task'[s] = "lost" /\ (\A d \in Sheets : d # s => task'[d] = task[d]) /\ UNCHANGED <<done, mark>>
    BY <1>12 DEF ReportFault, Escapes, Goes, TypeOK
  <2>2. Counted' = Counted
    BY <2>1 DEF Counted
  <2> QED BY <2>1, <2>2 DEF RowFollows, None
<1>13. CASE UNCHANGED vars
  BY <1>1, <1>13 DEF vars, Counted
<1> QED BY <1>3, <1>4, <1>5, <1>6, <1>7, <1>8, <1>9, <1>10, <1>11, <1>12, <1>13 DEF Next, Core

-----------------------------------------------------------------------------
(* The result                                                              *)

LEMMA StartSays == Init => Reached /\ SheetsSay
<1> SUFFICES ASSUME Init PROVE Reached /\ SheetsSay
  OBVIOUS
<1>1. Reached
  BY SheetsShape DEF Init, Reached, Gathers, Loops, AllNone
<1>2. SheetsSay
  BY CapsAssumption DEF Init, SheetsSay, SheetSays, NoEntry, Asking
<1> QED BY <1>1, <1>2

LEMMA SaysAll == TypeOK /\ Reached /\ SheetsSay /\ RowFollows => EverySheetAnswered
<1> SUFFICES ASSUME TypeOK, Reached, SheetsSay, RowFollows, phase = "completed" PROVE EverySheetAnswered
  BY DEF EverySheetAnswered
<1>1. Over
  BY DEF Reached
<1>2. ASSUME NEW s \in Sheets
      PROVE  answers[s] + errors[s] + (IF s \in skipped THEN 1 ELSE 0) =
               IF LeftByCancel(s) \/ (DroppedOut(s) /\ errors[s] = 0) THEN 0 ELSE 1
  <2>1. broke => cancelReq /\ kind = "mix"
    BY DEF Reached, Gathers
  <2>2. kind = "mix" => (s < pos <=> task[s] # "none" \/ s \in skipped)
    BY DEF Reached, Loops
  <2>3. s \in Nat /\ pos \in Nat
    BY SheetsShape DEF TypeOK
  <2>4. CASE s \in skipped
    <3>1. task[s] = "none" /\ mark[s] \in {"none", "pending"} /\ NoEntry(s)
      BY <2>4 DEF SheetsSay, SheetSays
    <3>2. ~LeftByCancel(s) /\ ~DroppedOut(s)
      BY <3>1, <2>1, <2>2, <2>3, <2>4 DEF LeftByCancel, DroppedOut
    <3> QED BY <3>1, <3>2, <2>4 DEF NoEntry
  <2>5. CASE s \notin skipped /\ task[s] = "none"
    <3>1. kind = "mix" /\ s >= pos
      BY <2>2, <2>3, <2>5 DEF Reached, Gathers
    <3>2. broke
      <4>1. pos >= 1 /\ (broke \/ pos \notin Sheets)
        BY <3>1 DEF Reached, Loops
      <4> QED BY <3>1, <4>1, <2>3, SheetsShape
    <3>3. NoEntry(s)
      BY <2>5 DEF SheetsSay, SheetSays
    <3> QED BY <2>1, <2>5, <3>1, <3>2, <3>3 DEF LeftByCancel, NoEntry
  <2>6. CASE s \notin skipped /\ task[s] # "none"
    <3>1. task[s] \in {"finished", "lost"}
      BY <1>1, <2>6 DEF Over, Working, TypeOK, Tasks
    <3>2. broke => s < pos
      BY <2>1, <2>2, <2>6
    <3>3. \/ Settled(s)
          \/ mark[s] = "cancelled" /\ cancelReq /\ NoEntry(s)
          \/ task[s] = "lost" /\ kind = "rmbg" /\ mark[s] = "pending" /\ NoEntry(s)
      <4>1. SheetSays(s)
        BY DEF SheetsSay
      <4>2. CASE task[s] = "finished"
        BY <4>1, <4>2 DEF SheetSays
      <4>3. CASE task[s] = "lost"
        BY <4>1, <4>3 DEF SheetSays
      <4> QED BY <3>1, <4>2, <4>3
    <3>4. CASE Settled(s)
      BY <3>2, <3>4, <2>3, <2>6 DEF Settled, LeftByCancel, DroppedOut
    <3>5. CASE ~Settled(s)
      BY <3>2, <3>3, <3>5, <2>3, <2>6 DEF LeftByCancel, DroppedOut, NoEntry
    <3> QED BY <3>4, <3>5
  <2> QED BY <2>4, <2>5, <2>6
<1>3. ASSUME NEW s \in Sheets PROVE (mark[s] = "done") <=> (answers[s] = 1)
  <2>1. task[s] \in {"none", "finished", "lost"}
    BY <1>1 DEF Over, Working, TypeOK, Tasks
  <2> QED BY <2>1 DEF SheetsSay, SheetSays, Settled, NoEntry
<1>4. Busy({"lost"}) = {} => row = Cardinality({s \in Sheets : mark[s] \in {"done", "failed"}})
  <2>1. None({"telling", "sending"})
    BY <1>1 DEF Over, Working, None
  <2>2. Busy({"lost"}) = {} => None({"lost", "telling"}) /\ None({"sending"})
    BY <2>1 DEF Busy, None
  <2> QED BY <2>2 DEF RowFollows, Counted
<1> QED BY <1>2, <1>3, <1>4 DEF EverySheetAnswered

\* A completed detect job accounts for every sheet exactly once, in step with step_details and, when
\* every report arrived, with its row: for any number of sheets, calls, errors kept and faults.
THEOREM AllAnswered == Spec => []EverySheetAnswered
<1> QED BY TypeInit, TypeStep, StartSays, ReachedStep, SheetsStep, ToldInit, ToldStep, SaysAll, PTL DEF Spec

-----------------------------------------------------------------------------
(* The list a detect core returns                                          *)

LEMMA RankIsNumber == \A v : SeverityRank(v) \in Int
BY DEF SeverityRank

LEMMA ConfidenceIsNumber == \A c \in Int \cup {Absent} : Within(c) \in Int
BY DEF Within

\* The order of the sort, on the positions S of raw.
Listing(raw, S) == {p \in S \X S : Before(raw, p[1], p[2])}

\* The sort is a strict total order: a stable sort by two keys.
LEMMA ListingOrders ==
  ASSUME NEW raw, NEW S \in SUBSET Int, \A i \in S : raw[i].confidence \in Int \cup {Absent}
  PROVE  Ordered(Listing(raw, S), S)
<1> DEFINE sev(i) == SeverityRank(raw[i].severity)
           conf(i) == Within(raw[i].confidence)
<1>1. \A i \in S : sev(i) \in Int /\ conf(i) \in Int /\ i \in Int
  <2>1. \A i \in S : sev(i) \in Int
    BY RankIsNumber
  <2>2. \A i \in S : conf(i) \in Int
    BY ConfidenceIsNumber
  <2> QED BY <2>1, <2>2
<1>2. \A i, j \in S : Outranks(raw[i], raw[j]) <=>
                        sev(i) > sev(j) \/ (sev(i) = sev(j) /\ conf(i) > conf(j))
  BY DEF Outranks
<1> HIDE DEF sev, conf
<1>3. \A i, j \in S : <<i, j>> \in Listing(raw, S) <=>
        \/ sev(i) > sev(j)
        \/ sev(i) = sev(j) /\ conf(i) > conf(j)
        \/ sev(i) = sev(j) /\ conf(i) = conf(j) /\ i < j
  <2> SUFFICES ASSUME NEW i \in S, NEW j \in S
               PROVE  <<i, j>> \in Listing(raw, S) <=>
                        \/ sev(i) > sev(j)
                        \/ sev(i) = sev(j) /\ conf(i) > conf(j)
                        \/ sev(i) = sev(j) /\ conf(i) = conf(j) /\ i < j
    OBVIOUS
  <2>1. <<i, j>> \in Listing(raw, S) <=>
          Outranks(raw[i], raw[j]) \/ (~Outranks(raw[j], raw[i]) /\ i < j)
    BY DEF Listing, Before
  <2> QED BY <1>1, <1>2, <2>1
<1>4. \A x \in S : <<x, x>> \notin Listing(raw, S)
  BY <1>1, <1>3
<1>5. \A x, y, z \in S : <<x, y>> \in Listing(raw, S) /\ <<y, z>> \in Listing(raw, S) =>
                           <<x, z>> \in Listing(raw, S)
  BY <1>1, <1>3
<1>6. \A x, y \in S : x # y => <<x, y>> \in Listing(raw, S) \/ <<y, x>> \in Listing(raw, S)
  BY <1>1, <1>3
<1> QED BY <1>4, <1>5, <1>6 DEF Ordered

Asked(raw, focus, threshold) == {i \in DOMAIN raw : InScope(raw[i], focus, threshold)}

\* What is kept is listed in the order of the sort: the n-th has n - 1 before it.
LEMMA KeptInOrder ==
  ASSUME NEW D, \A d \in D : d.confidence \in Int \cup {Absent}, NEW raw \in Seq(D),
         NEW focus, NEW threshold, NEW most \in Nat
  PROVE  LET S == Asked(raw, focus, threshold)
             R == Listing(raw, S)
             kept == Kept(raw, focus, threshold, most)
             k == IF most < Cardinality(S) THEN most ELSE Cardinality(S)
         IN  /\ IsFiniteSet(S) /\ S \subseteq Int /\ Ordered(R, S) /\ Cardinality(S) \in Nat
             /\ Len(kept) = k /\ DOMAIN kept = 1 .. k
             /\ \A n \in 1 .. k : kept[n] \in S /\ Rank(kept[n], R, S) = n - 1
<1> DEFINE S == Asked(raw, focus, threshold)
           R == Listing(raw, S)
           N == Cardinality(S)
           Sorted == [n \in 1 .. N |->
                        CHOOSE i \in S : Cardinality({j \in S : Before(raw, j, i)}) = n - 1]
           k == IF most < N THEN most ELSE N
           kept == Kept(raw, focus, threshold, most)
<1>1. IsFiniteSet(S) /\ S \subseteq Int /\ N \in Nat
  <2>1. DOMAIN raw = 1 .. Len(raw) /\ Len(raw) \in Nat
    OBVIOUS
  <2>2. S \in SUBSET (1 .. Len(raw))
    BY <2>1 DEF Asked
  <2>3. IsFiniteSet(S)
    <3>1. IsFiniteSet(1 .. Len(raw))
      BY <2>1, FS_Interval
    <3> HIDE DEF S
    <3> QED BY <2>2, <3>1, FS_Subset
  <2> HIDE DEF S
  <2> QED BY <2>2, <2>3, FS_CardinalityType
<1>2. Ordered(R, S)
  <2>1. \A i \in S : raw[i].confidence \in Int \cup {Absent}
    BY DEF Asked
  <2> HIDE DEF S
  <2> QED BY <1>1, <2>1, ListingOrders
<1>3. \A i \in S : {j \in S : Before(raw, j, i)} = Preceding(i, R, S)
  BY DEF Preceding, Listing
<1>4. kept = SubSeq(Sorted, 1, IF most < Len(Sorted) THEN most ELSE Len(Sorted))
  BY DEF Kept, Asked
<1> HIDE DEF S, R, kept
<1>5. \A n \in 1 .. N : Sorted[n] \in S /\ Rank(Sorted[n], R, S) = n - 1
  <2> SUFFICES ASSUME NEW n \in 1 .. N
               PROVE  Sorted[n] \in S /\ Rank(Sorted[n], R, S) = n - 1
    OBVIOUS
  <2>1. PICK x \in S : Rank(x, R, S) = n - 1
    BY <1>1, <1>2, RankTaken
  <2>2. Cardinality({j \in S : Before(raw, j, x)}) = n - 1
    BY <1>3, <2>1 DEF Rank
  <2>3. Sorted[n] \in S /\ Cardinality({j \in S : Before(raw, j, Sorted[n])}) = n - 1
    BY <2>2
  <2> HIDE DEF Sorted
  <2> QED BY <1>3, <2>3 DEF Rank
<1>6. Len(Sorted) = N
  <2>1. Sorted \in [1 .. N -> S]
    BY <1>5
  <2>2. Sorted \in Seq(S)
    <3> HIDE DEF Sorted, N
    <3> QED BY <1>1, <2>1 DEF N
  <2>3. DOMAIN Sorted = 1 .. N
    OBVIOUS
  <2> HIDE DEF Sorted
  <2> QED BY <1>1, <2>2, <2>3
<1> HIDE DEF Sorted
<1>7. /\ kept \in Seq(S) /\ Len(kept) = IF 1 <= k THEN k - 1 + 1 ELSE 0
      /\ \A i \in 1 .. k - 1 + 1 : kept[i] = Sorted[1 + i - 1]
  <2>1. k \in Nat /\ k <= N
    BY <1>1
  <2>2. \A i \in 1 .. k : Sorted[i] \in S
    BY <1>1, <1>5, <2>1
  <2>3. kept = SubSeq(Sorted, 1, k)
    BY <1>4, <1>6
  <2> HIDE DEF k
  <2> QED BY <2>1, <2>2, <2>3, SubSeqProperties
<1>8. k \in Nat /\ k <= N
  BY <1>1
<1>9. Len(kept) = k /\ DOMAIN kept = 1 .. k
  BY <1>7, <1>8
<1>10. \A n \in 1 .. k : kept[n] = Sorted[n]
  <2> SUFFICES ASSUME NEW n \in 1 .. k PROVE kept[n] = Sorted[n]
    OBVIOUS
  <2>1. n \in 1 .. k - 1 + 1 /\ 1 + n - 1 = n
    BY <1>8
  <2> QED BY <1>7, <2>1
<1>11. \A n \in 1 .. k : kept[n] \in S /\ Rank(kept[n], R, S) = n - 1
  BY <1>1, <1>5, <1>8, <1>10
<1> QED BY <1>1, <1>2, <1>9, <1>11 DEF S, R, kept

\* Of what the request asks for, the list holds the worst, the worst first and no defect twice, and
\* says truncated exactly when something asked for is missing: for every list of defects, focus,
\* threshold and length (postprocess_defects in detect_swap_defects_core.py).
THEOREM KeptAreWorst ==
  ASSUME NEW D, \A d \in D : d.confidence \in Int \cup {Absent}, NEW raw \in Seq(D),
         NEW focus, NEW threshold, NEW most \in Nat
  PROVE  WorstKept(raw, focus, threshold, most)
<1> DEFINE S == Asked(raw, focus, threshold)
           R == Listing(raw, S)
           N == Cardinality(S)
           k == IF most < N THEN most ELSE N
           kept == Kept(raw, focus, threshold, most)
           listed == {kept[n] : n \in DOMAIN kept}
           missing == S \ listed
<1>1. /\ IsFiniteSet(S) /\ S \subseteq Int /\ Ordered(R, S) /\ N \in Nat
      /\ Len(kept) = k /\ DOMAIN kept = 1 .. k
      /\ \A n \in 1 .. k : kept[n] \in S /\ Rank(kept[n], R, S) = n - 1
  BY KeptInOrder
<1>2. Truncated(raw, focus, threshold, most) <=> N > most
  BY DEF Truncated, Asked
<1>3. \A i \in S : InScope(raw[i], focus, threshold)
  BY DEF Asked
<1>4. \A i, j \in S : <<i, j>> \in R <=> Before(raw, i, j)
  BY DEF Listing
<1>5. k \in Nat /\ k <= N /\ k <= most
  BY <1>1
<1> HIDE DEF S, R, kept, k
<1>6. listed \subseteq S
  BY <1>1
<1>7. IsFiniteSet(listed) /\ Cardinality(listed) = k
  <2> DEFINE f == [n \in 1 .. k |-> kept[n]]
  <2>1. f \in Bijection(1 .. k, listed)
    <3>1. \A m, n \in 1 .. k : kept[m] = kept[n] => m = n
      BY <1>1, <1>5
    <3> QED BY <1>1, <3>1 DEF Bijection, Injection, Surjection, IsInjective
  <2>2. IsFiniteSet(1 .. k) /\ Cardinality(1 .. k) = k
    BY <1>5, FS_Interval
  <2>3. ExistsBijection(1 .. k, listed)
    BY <2>1 DEF ExistsBijection
  <2> HIDE DEF f, listed
  <2> QED BY <2>2, <2>3, FS_Bijection
<1>8. \A m, n \in DOMAIN kept : m < n => Before(raw, kept[m], kept[n])
  <2> SUFFICES ASSUME NEW m \in 1 .. k, NEW n \in 1 .. k, m < n
               PROVE  <<kept[m], kept[n]>> \in R
    BY <1>1, <1>4
  <2>1. kept[m] # kept[n]
    BY <1>1, <1>5
  <2>2. <<kept[n], kept[m]>> \notin R
    BY <1>1, <1>5, RankGrows
  <2> QED BY <1>1, <2>1, <2>2 DEF Ordered
<1>9. ASSUME NEW i \in missing
      PROVE  Rank(i, R, S) \in Int /\ Rank(i, R, S) >= k
  <2>1. Rank(i, R, S) \in 0 .. N - 1
    BY <1>1, RankType
  <2>2. ASSUME Rank(i, R, S) < k PROVE FALSE
    <3> DEFINE n == Rank(i, R, S) + 1
    <3>1. n \in 1 .. k /\ n - 1 = Rank(i, R, S)
      BY <1>1, <1>5, <2>1, <2>2
    <3>2. kept[n] \in S /\ Rank(kept[n], R, S) = Rank(i, R, S)
      BY <1>1, <3>1
    <3>3. kept[n] = i
      BY <1>1, <3>2, RankTells
    <3> QED BY <1>1, <3>1, <3>3
  <2> QED BY <1>1, <1>5, <2>1, <2>2
<1>10. \A i \in missing, j \in listed : ~Outranks(raw[i], raw[j])
  <2> SUFFICES ASSUME NEW i \in missing, NEW j \in listed PROVE ~Outranks(raw[i], raw[j])
    OBVIOUS
  <2>1. j \in S /\ Rank(j, R, S) \in Int /\ Rank(j, R, S) < k
    BY <1>1, <1>5
  <2>2. <<i, j>> \notin R
    <3> SUFFICES ASSUME <<i, j>> \in R PROVE FALSE
      OBVIOUS
    <3>1. Rank(i, R, S) < Rank(j, R, S)
      BY <1>1, <2>1, RankGrows
    <3> QED BY <1>5, <1>9, <2>1, <3>1
  <2> QED BY <1>4, <2>1, <2>2 DEF Before
<1>11. missing # {} <=> N > most
  <2>1. CASE N > most
    <3>1. Cardinality(listed) # N
      BY <1>1, <1>5, <1>7, <2>1
    <3> QED BY <1>6, <2>1, <3>1
  <2>2. CASE ~(N > most)
    <3>1. k = N
      BY <1>1, <2>2 DEF k
    <3>2. ASSUME NEW i \in missing PROVE FALSE
      <4>1. Rank(i, R, S) \in 0 .. N - 1
        BY <1>1, RankType
      <4> QED BY <1>1, <1>9, <3>1, <4>1
    <3> QED BY <2>2, <3>2
  <2> QED BY <2>1, <2>2
<1>12. missing # {} => k = most
  BY <1>1, <1>11 DEF k
<1> QED BY <1>1, <1>2, <1>3, <1>5, <1>6, <1>7, <1>8, <1>10, <1>11, <1>12
        DEF WorstKept, S, Asked, kept

-----------------------------------------------------------------------------
(* The cell of a defect                                                    *)

Rectangles == [x : Int, y : Int, w : Int, h : Int]
InCell(x, y, c) == x \in c.x .. c.x + c.w - 1 /\ y \in c.y .. c.y + c.h - 1

\* No two cells share a pixel.
Apart(cells) ==
  \A m, n \in DOMAIN cells : \A x, y \in Int : InCell(x, y, cells[m]) /\ InCell(x, y, cells[n]) => m = n

\* An interval longer than a pixel, in thousandths of w pixels, lies between two edges.
Lies(p, q, w, from, size) ==
  (q - p) * w > 1000 /\ p * w >= from * 1000 /\ q * w <= (from + size) * 1000

\* The pixel the code rounds the middle of an interval to.
Middle(p, q, w) == Rounded((p + q) * w, 2000)

\* The middle of an interval longer than a pixel that lies between two edges is rounded to a pixel
\* between them.
LEMMA MiddleStays ==
  ASSUME NEW p \in Int, NEW q \in Int, NEW w \in Int, NEW from \in Int, NEW size \in Int,
         Lies(p, q, w, from, size)
  PROVE  Middle(p, q, w) \in from .. from + size - 1
<1> DEFINE n == (p + q) * w
           d == n \div 2000
           r == n % 2000
<1>1. n \in Int /\ n > 2000 * from + 1000 /\ n < 2000 * (from + size) - 1000
  <2>1. n = p * w + q * w /\ (q - p) * w = q * w - p * w /\ p * w \in Int /\ q * w \in Int
    OBVIOUS
  <2> QED BY <2>1 DEF Lies
<1>2. Rounded(n, 2000) = IF 2 * r > 2000 \/ (2 * r = 2000 /\ d % 2 = 1) THEN d + 1 ELSE d
  BY DEF Rounded
<1> HIDE DEF n
<1>3. d \in Int /\ r \in 0 .. 1999 /\ n = 2000 * d + r
  BY <1>1
<1> HIDE DEF d, r
<1>4. Middle(p, q, w) = Rounded(n, 2000)
  BY DEF n, Middle
<1> QED BY <1>1, <1>2, <1>3, <1>4

\* A defect wider and higher than a pixel that lies in one of several cells without a common pixel
\* is given that cell, on sheets and for cells of any size (_assign_cells in
\* detect_rmbg_defects_core.py).
THEOREM CentreStaysInCell ==
  ASSUME NEW b \in [1 .. 4 -> Int], NEW w \in Int, NEW h \in Int,
         NEW cells \in Seq(Rectangles), Apart(cells)
  PROVE  CentreInOwnCell(b, cells, w, h)
<1>1. b[1] \in Int /\ b[2] \in Int /\ b[3] \in Int /\ b[4] \in Int
  OBVIOUS
<1>2. \A n \in DOMAIN cells : cells[n] \in Rectangles /\ n \in Int
  OBVIOUS
<1>3. ASSUME NEW n \in DOMAIN cells,
             (b[4] - b[2]) * w > 1000, (b[3] - b[1]) * h > 1000,
             b[2] * w >= cells[n].x * 1000, b[4] * w <= (cells[n].x + cells[n].w) * 1000,
             b[1] * h >= cells[n].y * 1000, b[3] * h <= (cells[n].y + cells[n].h) * 1000
      PROVE  CellOf(Centre(b, w, h), cells) = n
  <2> DEFINE x == Middle(b[2], b[4], w)
             y == Middle(b[1], b[3], h)
             hits == {m \in DOMAIN cells : InCell(x, y, cells[m])}
  <2>1. cells[n].x \in Int /\ cells[n].y \in Int /\ cells[n].w \in Int /\ cells[n].h \in Int
    BY <1>2 DEF Rectangles
  <2>2. x \in cells[n].x .. cells[n].x + cells[n].w - 1
    <3>1. Lies(b[2], b[4], w, cells[n].x, cells[n].w)
      BY <1>3 DEF Lies
    <3> QED BY <1>1, <2>1, <3>1, MiddleStays
  <2>3. y \in cells[n].y .. cells[n].y + cells[n].h - 1
    <3>1. Lies(b[1], b[3], h, cells[n].y, cells[n].h)
      BY <1>3 DEF Lies
    <3> QED BY <1>1, <2>1, <3>1, MiddleStays
  <2>4. Centre(b, w, h) = <<x, y>>
    BY DEF Centre, Middle
  <2> HIDE DEF x, y
  <2>5. hits = {n}
    <3>1. x \in Int /\ y \in Int /\ InCell(x, y, cells[n])
      BY <2>1, <2>2, <2>3 DEF InCell
    <3>2. \A m \in DOMAIN cells : InCell(x, y, cells[m]) => m = n
      BY <3>1 DEF Apart
    <3> QED BY <3>1, <3>2
  <2>6. CellOf(<<x, y>>, cells) =
          IF hits = {} THEN Absent ELSE CHOOSE m \in hits : \A k \in hits : m <= k
    BY DEF CellOf, InCell
  <2>7. n \in Int /\ n <= n
    BY <1>2
  <2> HIDE DEF hits
  <2> QED BY <2>4, <2>5, <2>6, <2>7
<1> QED BY <1>3 DEF CentreInOwnCell

\* The statement the run checks on its lists and boxes, from the two theorems above.
THEOREM WorstAlwaysKept == Spec => []WorstAreKept
<1>1. \A d \in MCDefects : d.confidence \in Int \cup {Absent}
  BY DEF MCDefects
<1>2. ASSUME NEW raw \in MCLists, NEW focus, NEW threshold, NEW most \in 1 .. 2
      PROVE  WorstKept(raw, focus, threshold, most)
  <2>1. raw \in Seq(MCDefects)
    <3>1. PICK n \in 0 .. 4 : raw \in [1 .. n -> MCDefects]
      BY DEF MCLists
    <3> QED BY <3>1
  <2> QED BY <1>1, <2>1, KeptAreWorst
<1>3. ASSUME NEW x1 \in MCEdges, NEW x2 \in MCEdges,
             NEW y1 \in {0, 200, 500, 900, 1000}, NEW y2 \in {0, 200, 500, 900, 1000}
      PROVE  CentreInOwnCell(<<y1, x1, y2, x2>>, MCCells, 8, 5)
  <2>1. <<y1, x1, y2, x2>> \in [1 .. 4 -> Int] /\ 8 \in Int /\ 5 \in Int
    BY DEF MCEdges
  <2>2. MCCells \in Seq(Rectangles)
    <3>1. [x |-> 0, y |-> 0, w |-> 3, h |-> 5] \in Rectangles /\ [x |-> 3, y |-> 0, w |-> 5, h |-> 5] \in Rectangles
      BY DEF Rectangles
    <3> QED BY <3>1 DEF MCCells
  <2>3. Apart(MCCells)
    BY DEF Apart, InCell, MCCells
  <2> QED BY <2>1, <2>2, <2>3, CentreStaysInCell
<1>4. \A raw \in MCLists, focus \in {Absent, {}, {"a"}}, threshold \in {Absent, "medium"}, most \in 1 .. 2 :
        WorstKept(raw, focus, threshold, most)
  BY <1>2
<1>5. \A x1, x2 \in MCEdges, y1, y2 \in {0, 200, 500, 900, 1000} :
        CentreInOwnCell(<<y1, x1, y2, x2>>, MCCells, 8, 5)
  BY <1>3
<1>6. WorstAreKept
  BY <1>4, <1>5 DEF WorstAreKept
<1> QED BY <1>6, PTL

-----------------------------------------------------------------------------
(* The payload guards                                                      *)

LEMMA B64Type == \A n \in Nat : B64(n) \in Nat
BY DEF B64

\* The folds of this module add up, whatever order FoldSeq takes.
LEMMA WeightType == ASSUME NEW group \in Seq(Nat) PROVE Weight(group) \in Nat
<1> DEFINE D == DOMAIN group
           u == [i \in D |-> B64(group[i])]
           Is(f) == f = [s \in SUBSET D |->
                   IF s = {} THEN 0
                   ELSE f[s \ {CHOOSE x \in s : TRUE}] + B64(group[CHOOSE x \in s : TRUE])]
           it == CHOOSE f : Is(f)
<1>1. IsFiniteSet(D) /\ u \in [D -> Nat]
  <2>1. D = 1 .. Len(group) /\ \A i \in D : group[i] \in Nat
    BY LenProperties, ElementOfSeq
  <2>2. IsFiniteSet(1 .. Len(group))
    BY FS_Interval, LenProperties
  <2> HIDE DEF D
  <2> QED BY <2>1, <2>2, B64Type
<1>2. \A f : Adds(f, D, u, 0) <=> Is(f)
  <2>1. ASSUME NEW s \in SUBSET D, s # {} PROVE u[CHOOSE x \in s : TRUE] = B64(group[CHOOSE x \in s : TRUE])
    <3>1. (CHOOSE x \in s : TRUE) \in D
      BY <2>1
    <3> HIDE DEF D
    <3> QED BY <3>1
  <2> HIDE DEF u, D
  <2> QED BY <2>1 DEF Adds
<1>3. \E f : Adds(f, D, u, 0)
  <2> HIDE DEF u, D
  <2> QED BY <1>1, SumExists
<1>4. Adds(it, D, u, 0)
  <2> HIDE DEF u, D, Is
  <2>1. \E f : Is(f)
    BY <1>2, <1>3
  <2>2. Is(it)
    BY <2>1
  <2> HIDE DEF it
  <2> QED BY <1>2, <2>2
<1>5. it[D] \in Nat
  <2> HIDE DEF it, u, D
  <2> QED BY <1>1, <1>4, SumType
<1>6. Weight(group) = it[D]
  BY DEF Weight, FoldSeq, FoldFunction, FoldFunctionOnSet, MapThenFoldSet
<1> QED BY <1>5, <1>6

LEMMA TotalType == ASSUME NEW p \in Seq(Seq(Nat)) PROVE Total(p) \in Nat
<1> DEFINE D == DOMAIN p
           u == [i \in D |-> Weight(p[i])]
           Is(f) == f = [s \in SUBSET D |->
                   IF s = {} THEN Prompt
                   ELSE f[s \ {CHOOSE x \in s : TRUE}] + Weight(p[CHOOSE x \in s : TRUE])]
           it == CHOOSE f : Is(f)
<1>1. IsFiniteSet(D) /\ u \in [D -> Nat]
  <2>1. D = 1 .. Len(p) /\ \A i \in D : p[i] \in Seq(Nat)
    BY LenProperties, ElementOfSeq
  <2>2. IsFiniteSet(1 .. Len(p))
    BY FS_Interval, LenProperties
  <2> HIDE DEF D
  <2> QED BY <2>1, <2>2, WeightType
<1>2. \A f : Adds(f, D, u, Prompt) <=> Is(f)
  <2>1. ASSUME NEW s \in SUBSET D, s # {} PROVE u[CHOOSE x \in s : TRUE] = Weight(p[CHOOSE x \in s : TRUE])
    <3>1. (CHOOSE x \in s : TRUE) \in D
      BY <2>1
    <3> HIDE DEF D
    <3> QED BY <3>1
  <2> HIDE DEF u, D
  <2> QED BY <2>1 DEF Adds
<1>3. Prompt \in Nat
  BY SizesAssumption
<1>4. \E f : Adds(f, D, u, Prompt)
  <2> HIDE DEF u, D
  <2> QED BY <1>1, <1>3, SumExists
<1>5. Adds(it, D, u, Prompt)
  <2> HIDE DEF u, D, Is
  <2>1. \E f : Is(f)
    BY <1>2, <1>4
  <2>2. Is(it)
    BY <2>1
  <2> HIDE DEF it
  <2> QED BY <1>2, <2>2
<1>6. it[D] \in Nat
  <2> HIDE DEF it, u, D
  <2> QED BY <1>1, <1>3, <1>5, SumType
<1>7. Total(p) = it[D]
  BY DEF Total, FoldSeq, FoldFunction, FoldFunctionOnSet, MapThenFoldSet
<1> QED BY <1>6, <1>7

LEMMA RawBudgetType ==
  ASSUME NEW p \in Seq(Seq(Nat)), NEW i \in 1 .. Len(p)
  PROVE  RawBudget(p, i) \in Nat
<1>1. Total(p) \in Int /\ Weight(p[i]) \in Int /\ Limit \in Int /\ Margin \in Int /\ Floor \in Nat
  <2>1. p[i] \in Seq(Nat)
    BY ElementOfSeq
  <2> QED BY <2>1, TotalType, WeightType, SizesAssumption
<1> DEFINE room == ((Limit - (Total(p) - Weight(p[i])) - Margin) * 3) \div 4
<1>2. room \in Int
  <2>1. (Limit - (Total(p) - Weight(p[i])) - Margin) * 3 \in Int
    BY <1>1
  <2> QED BY <2>1
<1>3. RawBudget(p, i) = IF room > Floor THEN room ELSE Floor
  BY DEF RawBudget
<1> HIDE DEF room
<1> QED BY <1>1, <1>2, <1>3

\* The payloads that differ from p in group i at most.
Changed(p, i) == {[p EXCEPT ![i] = group] : group \in Seq(Nat)}

\* A guard changes the one group it has come to.
LEMMA ShrunkOnly ==
  ASSUME NEW guard, NEW p \in Seq(Seq(Nat)), NEW i \in 1 .. Len(p), NEW q \in Shrunk(guard, p, i)
  PROVE  q \in Changed(p, i)
<1>1. p[i] \in Seq(Nat)
  BY ElementOfSeq
<1>2. [DOMAIN p[i] -> Sizes] \subseteq Seq(Nat)
  <2>1. DOMAIN p[i] = 1 .. Len(p[i]) /\ Len(p[i]) \in Nat
    BY <1>1, LenProperties
  <2> SUFFICES ASSUME NEW f \in [DOMAIN p[i] -> Sizes] PROVE f \in Seq(Nat)
    OBVIOUS
  <2>2. f \in [1 .. Len(p[i]) -> Nat]
    BY <2>1, SizesAssumption
  <2> QED BY <2>1, <2>2, FunctionIsSeq
<1>3. Scaled(p[i]) \subseteq Seq(Nat)
  BY <1>1, <1>2 DEF Scaled
<1>4. \A budget : FitGroupToBudget(p[i], budget) \subseteq Seq(Nat)
  BY <1>1, <1>2 DEF FitGroupToBudget
<1>5. FitToBudget(p[i], RawBudget(p, i)) \subseteq Seq(Nat)
  <2>1. RawBudget(p, i) \in Nat
    BY RawBudgetType
  <2>2. \A n \in Nat : <<n>> \in Seq(Nat)
    OBVIOUS
  <2>3. {m \in Sizes \cup {RawBudget(p, i)} : m <= RawBudget(p, i)} \subseteq Nat
    BY <2>1, SizesAssumption
  <2> QED BY <1>1, <2>2, <2>3 DEF FitToBudget
<1> QED BY <1>3, <1>4, <1>5 DEF Shrunk, Changed

\* What the tier of group i makes of the payloads there may be before it.
Tier(guard, before, i) ==
  {q \in before : Fits(q)} \cup UNION {Shrunk(guard, q, i) : q \in {r \in before : ~Fits(r)}}

LEMMA TiersUnfold ==
  ASSUME NEW guard, NEW p \in Seq(Seq(Nat)), Len(p) > 0
  PROVE  \E f \in [0 .. Tiers(guard, p) -> SUBSET [1 .. Len(p) -> Seq(Nat)]] :
           /\ f[0] = {p}
           /\ \A i \in 1 .. Tiers(guard, p) : f[i] = Tier(guard, f[i - 1], i)
           /\ SentByTiers(guard, p) = {q \in f[Tiers(guard, p)] : Fits(q)}
<1> DEFINE m == Len(p)
           n == Tiers(guard, p)
           U == [1 .. m -> Seq(Nat)]
           V == SUBSET U
           h == [x \in (1 .. n) \X V |-> Tier(guard, x[2], x[1])]
           Is(f) == f = [i \in 0 .. n |->
                          IF i = 0 THEN {p}
                          ELSE {q \in f[i - 1] : Fits(q)}
                                 \cup UNION {Shrunk(guard, q, i) : q \in {r \in f[i - 1] : ~Fits(r)}}]
           after == CHOOSE f : Is(f)
<1>1. m \in Nat \ {0} /\ n \in 0 .. m /\ n \in Nat /\ p \in U
  BY LenProperties DEF Tiers
<1>2. ASSUME NEW i \in 1 .. n, NEW before \in V PROVE Tier(guard, before, i) \in V
  <2>1. ASSUME NEW q \in before, NEW r \in Shrunk(guard, q, i) PROVE r \in U
    <3>1. q \in Seq(Seq(Nat)) /\ Len(q) = m
      <4>1. q \in [1 .. m -> Seq(Nat)]
        BY <1>2
      <4> HIDE DEF m
      <4> QED BY <1>1, <4>1, FunctionIsSeq
    <3>2. i \in 1 .. Len(q)
      BY <1>1, <3>1
    <3>3. r \in Changed(q, i)
      BY <3>1, <3>2, ShrunkOnly
    <3> QED BY <1>2, <3>3 DEF Changed
  <2> HIDE DEF U
  <2> QED BY <1>2, <2>1 DEF Tier
<1>3. h \in [(1 .. n) \X V -> V]
  <2> HIDE DEF V, n
  <2> QED BY <1>2
<1>4. PICK g \in [0 .. n -> V] : Unfolds(g, n, {p}, h)
  <2>1. {p} \in V
    BY <1>1
  <2> HIDE DEF V, h, n
  <2> QED BY <1>1, <1>3, <2>1, Recursion
<1>5. Is(g)
  <2>1. ASSUME NEW i \in 0 .. n
        PROVE  g[i] = IF i = 0 THEN {p}
                      ELSE {q \in g[i - 1] : Fits(q)}
                            \cup UNION {Shrunk(guard, q, i) : q \in {r \in g[i - 1] : ~Fits(r)}}
    <3>1. CASE i = 0
      <4> HIDE DEF h, V, n
      <4> QED BY <1>4, <3>1 DEF Unfolds
    <3>2. CASE i # 0
      <4>1. i - 1 \in 0 .. n /\ i \in 1 .. n
        BY <1>1, <3>2
      <4>2. g[i - 1] \in V
        <5> HIDE DEF V, n
        <5> QED BY <1>4, <4>1
      <4>3. g[i] = h[<<i, g[i - 1]>>]
        <5> HIDE DEF h, V, n
        <5> QED BY <1>4, <3>2 DEF Unfolds
      <4>4. h[<<i, g[i - 1]>>] = Tier(guard, g[i - 1], i)
        <5> HIDE DEF V, n
        <5> QED BY <4>1, <4>2
      <4> HIDE DEF h, V, n
      <4> QED BY <3>2, <4>3, <4>4 DEF Tier
    <3> QED BY <3>1, <3>2
  <2>2. g = [i \in 0 .. n |-> g[i]]
    <3> HIDE DEF n, V
    <3> QED BY <1>4
  <2> HIDE DEF n
  <2> QED BY <2>1, <2>2
<1>6. Is(after)
  <2> HIDE DEF Is
  <2> QED BY <1>5
<1>7. after[0] = {p} /\ \A i \in 1 .. n : after[i] = Tier(guard, after[i - 1], i)
  <2>1. 0 \in 0 .. n /\ \A i \in 1 .. n : i \in 0 .. n /\ i # 0
    BY <1>1
  <2>2. \A i \in 0 .. n : after[i] = IF i = 0 THEN {p} ELSE Tier(guard, after[i - 1], i)
    <3> HIDE DEF after, n
    <3> QED BY <1>6 DEF Tier
  <2> HIDE DEF after, n
  <2> QED BY <2>1, <2>2
<1>8. after \in [0 .. n -> V]
  <2> DEFINE S == {i \in 0 .. n : after[i] \in V}
  <2>1. 0 \in S
    <3> HIDE DEF after, n
    <3> QED BY <1>1, <1>7
  <2>2. ASSUME NEW i \in 0 .. n - 1, i \in S PROVE i + 1 \in S
    <3>1. i + 1 \in 1 .. n /\ (i + 1) - 1 = i
      BY <1>1
    <3>2. after[i + 1] = Tier(guard, after[i], i + 1)
      <4> HIDE DEF after, n
      <4> QED BY <1>7, <3>1
    <3>3. after[i] \in V
      BY <2>2
    <3> HIDE DEF after, n, V
    <3> QED BY <1>2, <3>1, <3>2, <3>3
  <2>3. 0 .. n \subseteq S
    <3> HIDE DEF S, n
    <3> QED BY <1>1, <2>1, <2>2, UpTo
  <2>4. after = [i \in 0 .. n |-> after[i]]
    <3> HIDE DEF n, after
    <3> QED BY <1>6
  <2> HIDE DEF after, n, V
  <2> QED BY <2>3, <2>4
<1>9. SentByTiers(guard, p) = {q \in after[n] : Fits(q)}
  BY DEF SentByTiers
<1> HIDE DEF after
<1> QED BY <1>7, <1>8, <1>9

\* What a guard makes of p is as it should be.
SentRight(guard, p, q) ==
  LET last == Len(p) IN
    /\ Total(q) < Limit
    /\ Fits(p) => q = p
    /\ q[last] # p[last] /\ guard # "sprite_swap" =>
         guard # "rmbg_detect" /\ ~Fits([q EXCEPT ![last] = p[last]])

LEMMA FittingIsBelow ==
  ASSUME Margin > 0, NEW q \in Seq(Seq(Nat)), Fits(q)
  PROVE  Total(q) < Limit
<1>1. Total(q) \in Int /\ Margin \in Int /\ Limit \in Int
  BY TotalType, SizesAssumption
<1> QED BY <1>1 DEF Fits

LEMMA TiersRight ==
  ASSUME Margin > 0, NEW guard \in Guards \ {"sprite_swap"}, NEW p \in Seq(Seq(Nat)), Len(p) > 0,
         NEW q \in SentByTiers(guard, p)
  PROVE  SentRight(guard, p, q)
<1> DEFINE m == Len(p)
           n == Tiers(guard, p)
           U == [1 .. m -> Seq(Nat)]
<1>1. m \in Nat \ {0} /\ n \in Nat /\ p \in U /\ n = IF guard = "rmbg_detect" THEN m - 1 ELSE m
  BY LenProperties DEF Tiers
<1>2. PICK f \in [0 .. n -> SUBSET U] :
        /\ f[0] = {p}
        /\ \A i \in 1 .. n : f[i] = Tier(guard, f[i - 1], i)
        /\ SentByTiers(guard, p) = {r \in f[n] : Fits(r)}
  BY TiersUnfold
<1> HIDE DEF n, m
<1>3. ASSUME NEW r \in U PROVE r \in Seq(Seq(Nat)) /\ Len(r) = m /\ DOMAIN r = 1 .. m
  BY <1>1, <1>3, FunctionIsSeq
<1>4. ASSUME NEW i \in 0 .. n PROVE Fits(p) => f[i] = {p}
  <2> SUFFICES ASSUME Fits(p) PROVE f[i] = {p}
    OBVIOUS
  <2> DEFINE S == {k \in 0 .. n : f[k] = {p}}
  <2>1. 0 \in S
    BY <1>1, <1>2
  <2>2. ASSUME NEW k \in 0 .. n - 1, k \in S PROVE k + 1 \in S
    <3>1. k + 1 \in 1 .. n /\ (k + 1) - 1 = k
      BY <1>1
    <3>2. f[k + 1] = Tier(guard, f[k], k + 1)
      BY <1>2, <3>1
    <3>3. f[k] = {p}
      BY <2>2
    <3> QED BY <3>1, <3>2, <3>3 DEF Tier
  <2>3. 0 .. n \subseteq S
    <3> HIDE DEF S
    <3> QED BY <1>1, <2>1, <2>2, UpTo
  <2> QED BY <2>3
<1>5. ASSUME NEW k \in 0 .. n - 1, NEW r \in f[k + 1]
      PROVE  \/ r \in f[k]
             \/ \E s \in f[k] : ~Fits(s) /\ r \in Changed(s, k + 1)
  <2>1. k + 1 \in 1 .. n /\ (k + 1) - 1 = k /\ k \in 0 .. n
    BY <1>1
  <2>2. r \in Tier(guard, f[k], k + 1)
    BY <1>2, <2>1
  <2>3. ASSUME NEW s \in f[k], NEW t \in Shrunk(guard, s, k + 1) PROVE t \in Changed(s, k + 1)
    <3>1. s \in U
      BY <1>2, <2>1
    <3>2. s \in Seq(Seq(Nat)) /\ k + 1 \in 1 .. Len(s)
      BY <1>1, <1>3, <3>1, <2>1
    <3> QED BY <3>2, ShrunkOnly
  <2> QED BY <2>2, <2>3 DEF Tier
<1>6. ASSUME NEW i \in 0 .. n, NEW r \in f[i], NEW j \in i + 1 .. m PROVE r[j] = p[j]
  <2> DEFINE S == {k \in 0 .. n : \A s \in f[k] : \A l \in k + 1 .. m : s[l] = p[l]}
  <2>1. 0 \in S
    BY <1>1, <1>2
  <2>2. ASSUME NEW k \in 0 .. n - 1, k \in S PROVE k + 1 \in S
    <3>1. k + 1 \in 0 .. n /\ k \in 0 .. n
      BY <1>1
    <3>2. ASSUME NEW s \in f[k + 1], NEW l \in (k + 1) + 1 .. m PROVE s[l] = p[l]
      <4>1. l \in k + 1 .. m /\ l # k + 1 /\ l \in 1 .. m
        BY <1>1
      <4>2. \A t \in f[k] : t[l] = p[l]
        BY <2>2, <4>1
      <4>3. CASE s \in f[k]
        BY <4>2, <4>3
      <4>4. ASSUME NEW t \in f[k], s \in Changed(t, k + 1) PROVE s[l] = p[l]
        <5>1. t \in U
          BY <1>2, <3>1
        <5>2. s[l] = t[l]
          BY <4>1, <4>4, <5>1 DEF Changed
        <5> QED BY <4>2, <5>2
      <4> QED BY <1>5, <4>3, <4>4
    <3> QED BY <3>1, <3>2
  <2>3. 0 .. n \subseteq S
    <3> HIDE DEF S
    <3> QED BY <1>1, <2>1, <2>2, UpTo
  <2> QED BY <2>3
<1>7. q \in f[n] /\ Fits(q) /\ q \in Seq(Seq(Nat))
  <2>1. q \in f[n] /\ Fits(q) /\ n \in 0 .. n
    BY <1>1, <1>2
  <2> QED BY <1>2, <1>3, <2>1
<1>8. Total(q) < Limit
  BY <1>7, FittingIsBelow
<1>9. Fits(p) => q = p
  BY <1>1, <1>4, <1>7
<1>10. ASSUME q[m] # p[m] PROVE guard # "rmbg_detect" /\ ~Fits([q EXCEPT ![m] = p[m]])
  <2>1. n = m /\ guard # "rmbg_detect"
    <3>1. n # m - 1
      <4> SUFFICES ASSUME n = m - 1 PROVE FALSE
        OBVIOUS
      <4>1. m \in n + 1 .. m /\ n \in 0 .. n
        BY <1>1
      <4> QED BY <1>6, <1>7, <1>10, <4>1
    <3> QED BY <1>1, <3>1
  <2>2. m - 1 \in 0 .. n - 1 /\ m - 1 \in 0 .. n /\ (m - 1) + 1 = m /\ m \in (m - 1) + 1 .. m
    BY <1>1, <2>1
  <2>3. \A r \in f[m - 1] : r[m] = p[m]
    BY <1>6, <2>2
  <2>4. q \notin f[m - 1]
    BY <1>10, <2>3
  <2>5. PICK s \in f[m - 1] : ~Fits(s) /\ q \in Changed(s, m)
    BY <1>5, <1>7, <2>1, <2>2, <2>4
  <2>6. [q EXCEPT ![m] = p[m]] = s
    <3>1. s \in U /\ m \in 1 .. m
      BY <1>1, <1>2, <2>2
    <3>2. s[m] = p[m]
      BY <2>3
    <3>3. PICK g \in Seq(Nat) : q = [s EXCEPT ![m] = g]
      BY <2>5 DEF Changed
    <3> QED BY <3>1, <3>2, <3>3
  <2> QED BY <2>1, <2>5, <2>6
<1> QED BY <1>8, <1>9, <1>10 DEF SentRight, m

\* Whatever images there are and however they come out of the re-encoding, a guard sends
\* nothing at or above the inline limit, leaves a payload that fits as it is, and touches the
\* last image of a detect call only when giving up all before it was not enough.
THEOREM GuardsKeepTheLimit ==
  ASSUME Margin > 0, NEW guard \in Guards, NEW p \in Seq(Seq(Nat)), Len(p) > 0,
         NEW q \in Sent(guard, p)
  PROVE  SentRight(guard, p, q)
<1>1. CASE guard # "sprite_swap"
  BY <1>1, TiersRight DEF Sent
<1>2. CASE guard = "sprite_swap"
  <2>1. q \in SentUniformly(p)
    BY <1>2 DEF Sent
  <2>2. Fits(p) => q = p
    BY <2>1 DEF SentUniformly
  <2>3. Total(q) < Limit
    BY <2>1, FittingIsBelow DEF SentUniformly
  <2> QED BY <1>2, <2>2, <2>3 DEF SentRight
<1> QED BY <1>1, <1>2

LEMMA TuplesAreSeqs ==
  ASSUME NEW S, NEW a \in S, NEW b \in S, NEW c \in S, NEW d \in S
  PROVE  /\ <<a>> \in Seq(S) /\ <<a, b>> \in Seq(S)
         /\ <<a, b, c>> \in Seq(S) /\ <<a, b, c, d>> \in Seq(S)
OBVIOUS

\* The statement the run checks on its payloads.
THEOREM PayloadAlwaysFits == ASSUME Margin > 0 PROVE Spec => []PayloadFits
<1>1. ASSUME NEW guard \in Guards, NEW p \in Payloads(guard)
      PROVE  p \in Seq(Seq(Nat)) /\ Len(p) > 0
  <2>1. One \subseteq Seq(Nat) /\ Pair \subseteq Seq(Nat) /\ << >> \in Seq(Nat)
    <3>1. ASSUME NEW i \in Sizes, NEW j \in Sizes PROVE <<i>> \in Seq(Nat) /\ <<i, j>> \in Seq(Nat)
      BY SizesAssumption, TuplesAreSeqs
    <3>2. << >> \in Seq(Nat)
      OBVIOUS
    <3>3. ASSUME NEW g \in One PROVE g \in Seq(Nat)
      <4>1. PICK n \in Sizes : g = <<n>>
        BY DEF One
      <4> QED BY <3>1, <4>1
    <3>4. ASSUME NEW g \in Pair PROVE g \in Seq(Nat)
      <4>1. PICK m, n \in Sizes : g = <<m, n>>
        BY DEF Pair
      <4> QED BY <3>1, <4>1
    <3> QED BY <3>2, <3>3, <3>4
  <2> DEFINE G == One \cup Pair \cup {<< >>}
  <2>2. \/ \E a, b \in G : p = <<a, b>>
        \/ \E a, b, c \in G : p = <<a, b, c>>
        \/ \E a, b, c, d \in G : p = <<a, b, c, d>>
    <3> HIDE DEF G
    <3>1. One \subseteq G /\ Pair \subseteq G /\ << >> \in G
      BY DEF G
    <3> QED BY <3>1 DEF Payloads, Guards
  <2>3. G \subseteq Seq(Nat)
    BY <2>1
  <2>4. ASSUME NEW a \in G, NEW b \in G, NEW c \in G, NEW d \in G
        PROVE  /\ <<a, b>> \in Seq(Seq(Nat)) /\ <<a, b, c>> \in Seq(Seq(Nat))
               /\ <<a, b, c, d>> \in Seq(Seq(Nat))
    <3> HIDE DEF G
    <3>1. a \in Seq(Nat) /\ b \in Seq(Nat) /\ c \in Seq(Nat) /\ d \in Seq(Nat)
      BY <2>3
    <3> QED BY <3>1, TuplesAreSeqs
  <2>5. p \in Seq(Seq(Nat))
    <3> HIDE DEF G
    <3> QED BY <2>2, <2>4
  <2>6. Len(p) > 0
    <3> HIDE DEF G
    <3>1. \A a, b, c, d : Len(<<a, b>>) = 2 /\ Len(<<a, b, c>>) = 3 /\ Len(<<a, b, c, d>>) = 4
      OBVIOUS
    <3>2. CASE \E a, b \in G : p = <<a, b>>
      BY <3>1, <3>2
    <3>3. CASE \E a, b, c \in G : p = <<a, b, c>>
      BY <3>1, <3>3
    <3>4. CASE \E a, b, c, d \in G : p = <<a, b, c, d>>
      BY <3>1, <3>4
    <3> QED BY <2>2, <3>2, <3>3, <3>4
  <2> QED BY <2>5, <2>6
<1>2. ASSUME NEW guard \in Guards, NEW p \in Payloads(guard), NEW q \in Sent(guard, p)
      PROVE  SentRight(guard, p, q)
  BY <1>1, GuardsKeepTheLimit
<1>3. PayloadsRight
  BY <1>2 DEF PayloadsRight, SentRight
<1>4. PayloadFits
  BY <1>3 DEF PayloadFits
<1> QED BY <1>4, PTL
=============================================================================
