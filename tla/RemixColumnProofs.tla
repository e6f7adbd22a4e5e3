------------------------- MODULE RemixColumnProofs -------------------------
(***************************************************************************)
(* What RemixColumn guarantees for every set of requests and saves and     *)
(* every bound; what concerns lost work needs a semaphore of one permit.   *)
(***************************************************************************)
EXTENDS RemixColumn, FiniteSetTheorems, TLAPS

-----------------------------------------------------------------------------
(* Types                                                                   *)

LEMMA TypeInit == Init => TypeOK
BY NumbersAssumption DEF Init, TypeOK, Active, Holding

LEMMA TypeStep == TypeOK /\ [Next]_vars => TypeOK'
<1> SUFFICES ASSUME TypeOK, [Next]_vars PROVE TypeOK'
  OBVIOUS
<1> USE DEF TypeOK, Active, Holding, rows, handler, editor, stored, limits
<1>1. ASSUME NEW j \in Jobs, Request(j) PROVE TypeOK'
  <2>1. CASE RequestLoad(j)
    BY <2>1 DEF RequestLoad
  <2>2. CASE RequestCheck(j)
    BY <2>2 DEF RequestCheck
  <2>3. CASE RequestInsert(j)
    BY <2>3 DEF RequestInsert
  <2> QED BY <1>1, <2>1, <2>2, <2>3 DEF Request
<1>2. ASSUME NEW j \in Jobs, Handler(j) PROVE TypeOK'
  <2>1. CASE Acquire(j)
    BY <2>1 DEF Acquire, Goto
  <2>2. CASE Start(j)
    BY <2>2 DEF Start, Goto
  <2>3. CASE Load(j)
    BY <2>3 DEF Load, Goto
  <2>4. CASE GiveUp(j)
    BY <2>4 DEF GiveUp, Goto
  <2>5. CASE Persist(j)
    BY <2>5 DEF Persist, Goto
  <2>6. CASE PersistFault(j)
    BY <2>6 DEF PersistFault, Goto
  <2>7. CASE Commit(j)
    BY <2>7 DEF Commit, Goto
  <2>8. CASE RunnerFault(j)
    BY <2>8 DEF RunnerFault, Goto
  <2> QED BY <1>2, <2>1, <2>2, <2>3, <2>4, <2>5, <2>6, <2>7, <2>8 DEF Handler
<1>3. ASSUME NEW j \in Jobs, Reap(j) PROVE TypeOK'
  BY <1>3 DEF Reap
<1>4. ASSUME NEW e \in Edits, Editor(e) PROVE TypeOK'
  <2>1. CASE EditorLoad(e)
    BY <2>1 DEF EditorLoad
  <2>2. CASE EditorSave(e)
    BY <2>2 DEF EditorSave
  <2> QED BY <1>4, <2>1, <2>2 DEF Editor
<1>5. CASE DeleteCheck
  BY <1>5 DEF DeleteCheck
<1>6. CASE DeleteRow
  BY <1>6 DEF DeleteRow
<1>7. CASE Restart
  BY <1>7 DEF Restart
<1>8. CASE UNCHANGED vars
  BY <1>8 DEF vars
<1> QED BY <1>1, <1>2, <1>3, <1>4, <1>5, <1>6, <1>7, <1>8 DEF Next

\* Every state of the column's model is well typed, and no column outlives its remix.
THEOREM TypeCorrect == Spec => []TypeOK
<1> QED BY TypeInit, TypeStep, PTL DEF Spec

-----------------------------------------------------------------------------
(* DELETE against the enqueue route                                        *)

\* Between the look of DELETE and its statement every active job is a late one.
OnlyLateActive == deletion = "checked" => ActiveJobs \subseteq late

LEMMA OnlyLateStep == TypeOK /\ OnlyLateActive /\ [Next]_vars => OnlyLateActive'
<1> SUFFICES ASSUME TypeOK, OnlyLateActive, [Next]_vars PROVE OnlyLateActive'
  OBVIOUS
<1> USE DEF TypeOK, OnlyLateActive, ActiveJobs, Active, rows, handler, editor, stored, limits
<1>1. ASSUME NEW j \in Jobs, Request(j) PROVE OnlyLateActive'
  BY <1>1 DEF Request, RequestLoad, RequestCheck, RequestInsert
<1>2. ASSUME NEW j \in Jobs, Handler(j) PROVE OnlyLateActive'
  <2>1. CASE Start(j)
    BY <2>1 DEF Start
  <2>2. CASE Commit(j)
    BY <2>2 DEF Commit
  <2>3. CASE RunnerFault(j)
    BY <2>3 DEF RunnerFault
  <2>4. CASE Acquire(j) \/ Load(j) \/ GiveUp(j) \/ Persist(j) \/ PersistFault(j)
    BY <2>4 DEF Acquire, Load, GiveUp, Persist, PersistFault
  <2> QED BY <1>2, <2>1, <2>2, <2>3, <2>4 DEF Handler
<1>3. ASSUME NEW j \in Jobs, Reap(j) PROVE OnlyLateActive'
  BY <1>3 DEF Reap
<1>4. ASSUME NEW e \in Edits, Editor(e) PROVE OnlyLateActive'
  BY <1>4 DEF Editor, EditorLoad, EditorSave
<1>5. CASE DeleteCheck \/ DeleteRow
  BY <1>5 DEF DeleteCheck, DeleteRow
<1>6. CASE Restart
  BY <1>6 DEF Restart
<1>7. CASE UNCHANGED vars
  BY <1>7 DEF vars
<1> QED BY <1>1, <1>2, <1>3, <1>4, <1>5, <1>6, <1>7 DEF Next

\* Only the DELETE statement takes the remix away.
LEMMA RemixGoes ==
  ASSUME [Next]_vars, remix' # remix
  PROVE  DeleteRow
<1> USE DEF rows, handler, editor, stored, limits
<1>1. ASSUME NEW j \in Jobs, Request(j) \/ Handler(j) \/ Reap(j) PROVE FALSE
  BY <1>1 DEF Request, RequestLoad, RequestCheck, RequestInsert, Handler, Acquire, Start, Load,
              GiveUp, Persist, PersistFault, Commit, RunnerFault, Reap
<1>2. ASSUME NEW e \in Edits, Editor(e) PROVE FALSE
  BY <1>2 DEF Editor, EditorLoad, EditorSave
<1>3. ~DeleteCheck /\ ~Restart /\ ~UNCHANGED vars
  BY DEF DeleteCheck, Restart, vars
<1> QED BY <1>1, <1>2, <1>3 DEF Next

\* DELETE spares every job it could have seen, for any number of requests and any cap: what it
\* can take the remix away from was inserted between its check and its statement.
THEOREM DeleteSpares == Spec => DeleteSparesOlderJobs
<1>1. Init => TypeOK /\ OnlyLateActive
  BY TypeInit DEF Init, OnlyLateActive
<1>2. TypeOK /\ OnlyLateActive /\ [Next]_vars => TypeOK' /\ OnlyLateActive'
  BY TypeStep, OnlyLateStep
<1>3. OnlyLateActive /\ [Next]_vars =>
        [remix = "present" /\ remix' = "deleted" => ActiveJobs \subseteq late]_vars
  BY RemixGoes DEF OnlyLateActive, DeleteRow
<1> QED BY <1>1, <1>2, <1>3, PTL DEF Spec, DeleteSparesOlderJobs

-----------------------------------------------------------------------------
(* A semaphore of one permit                                               *)

\* At most one handler is past the semaphore, zombies of reaped jobs included.
OneHolder == \A j, k \in Jobs : task[j] \in Holding /\ task[k] \in Holding => j = k

LEMMA OneHolderStep ==
  ASSUME Cap = 1, TypeOK, OneHolder, [Next]_vars
  PROVE  OneHolder'
<1> USE DEF TypeOK, OneHolder, Holding, Goto, rows, handler, editor, stored, limits
<1>1. ASSUME NEW j \in Jobs, Request(j) PROVE OneHolder'
  BY <1>1 DEF Request, RequestLoad, RequestCheck, RequestInsert
<1>2. ASSUME NEW j \in Jobs, Handler(j) PROVE OneHolder'
  <2>1. CASE Acquire(j)
    <3>1. IsFiniteSet(Holders)
      BY WritersAssumption, FS_Subset DEF Holders
    <3>2. Cardinality(Holders) = 0
      BY <2>1, <3>1, FS_CardinalityType DEF Acquire
    <3>3. Holders = {}
      BY <3>1, <3>2, FS_EmptySet
    <3> QED BY <2>1, <3>3 DEF Acquire, Holders
  <2>2. CASE Start(j)
    BY <2>2 DEF Start
  <2>3. CASE Load(j)
    BY <2>3 DEF Load
  <2>4. CASE GiveUp(j)
    BY <2>4 DEF GiveUp
  <2>5. CASE Persist(j) \/ PersistFault(j)
    BY <2>5 DEF Persist, PersistFault
  <2>6. CASE Commit(j)
    BY <2>6 DEF Commit
  <2>7. CASE RunnerFault(j)
    BY <2>7 DEF RunnerFault
  <2> QED BY <1>2, <2>1, <2>2, <2>3, <2>4, <2>5, <2>6, <2>7 DEF Handler
<1>3. ASSUME NEW j \in Jobs, Reap(j) PROVE OneHolder'
  BY <1>3 DEF Reap
<1>4. ASSUME NEW e \in Edits, Editor(e) PROVE OneHolder'
  BY <1>4 DEF Editor, EditorLoad, EditorSave
<1>5. CASE DeleteCheck \/ DeleteRow
  BY <1>5 DEF DeleteCheck, DeleteRow
<1>6. CASE Restart
  BY <1>6 DEF Restart
<1>7. CASE UNCHANGED vars
  BY <1>7 DEF vars
<1> QED BY <1>1, <1>2, <1>3, <1>4, <1>5, <1>6, <1>7 DEF Next

Unedited == \A e \in Edits : saved[e] # "saved"

\* The copy of a handler at work is the column, unless the editor wrote after the handler's row
\* was reaped.
CopyFresh ==
  \A j \in Jobs :
    task[j] = "working" /\ remix = "present" /\ (status[j] = "running" \/ Unedited)
      => copy[j] = column

Fresh == TypeOK /\ OneHolder /\ CopyFresh /\ AckedIsStored

LEMMA FreshInit == Init => Fresh
<1>1. Init => OneHolder /\ CopyFresh
  BY DEF Init, OneHolder, CopyFresh, Holding
<1> QED BY <1>1, TypeInit DEF Init, Fresh, AckedIsStored

LEMMA FreshStep ==
  ASSUME Cap = 1, Fresh, [Next]_vars
  PROVE  Fresh'
<1> USE DEF Fresh, CopyFresh, AckedIsStored, Unedited, Active, ActiveJobs, Goto,
            rows, handler, editor, stored, limits
<1>0. TypeOK' /\ OneHolder'
  BY TypeStep, OneHolderStep
<1>t. /\ task \in [Jobs -> Holding \cup {"none", "waiting", "done"}]
      /\ copy \in [Jobs -> SUBSET (Jobs \cup Edits)]
      /\ status \in [Jobs -> Active \cup {"absent", "completed", "failed"}]
      /\ saved \in [Edits -> {"idle", "loaded", "saved"}]
  BY DEF TypeOK
<1>1. ASSUME NEW j \in Jobs, Request(j) PROVE CopyFresh' /\ AckedIsStored'
  <2>1. CASE RequestLoad(j) \/ RequestCheck(j)
    BY <2>1 DEF RequestLoad, RequestCheck
  <2>2. CASE RequestInsert(j)
    BY <2>2, <1>t DEF RequestInsert
  <2> QED BY <1>1, <2>1, <2>2 DEF Request
<1>2. ASSUME NEW j \in Jobs, Handler(j) PROVE CopyFresh' /\ AckedIsStored'
  <2>1. CASE Acquire(j)
    BY <2>1, <1>t DEF Acquire
  <2>2. CASE Start(j)
    BY <2>2, <1>t DEF Start
  <2>3. CASE Load(j)
    BY <2>3, <1>t DEF Load
  <2>4. CASE GiveUp(j)
    BY <2>4, <1>t DEF GiveUp
  <2>5. CASE Persist(j) \/ PersistFault(j)
    <3>1. task[j] = "working" /\ task' = [task EXCEPT ![j] = "completing"]
      BY <2>5 DEF Persist, PersistFault
    <3>2. \A k \in Jobs : task'[k] # "working"
      BY <3>1, <1>t DEF OneHolder, Holding
    <3>3. UNCHANGED <<remix, saved>> /\ acked' \subseteq acked \cup {j}
      BY <2>5 DEF Persist, PersistFault
    <3>4. remix = "present" /\ Unedited => copy[j] = column
      BY <3>1
    <3>5. remix = "present" => column' = copy[j] \cup {j} \/ (column' = column /\ acked' = acked)
      BY <2>5 DEF Persist, PersistFault
    <3>6. remix = "present" => column' = copy[j] \cup {j} \/ acked' = acked
      BY <3>5
    <3> QED BY <3>2, <3>3, <3>4, <3>5
  <2>6. CASE Commit(j)
    BY <2>6, <1>t DEF Commit
  <2>7. CASE RunnerFault(j)
    BY <2>7, <1>t DEF RunnerFault
  <2> QED BY <1>2, <2>1, <2>2, <2>3, <2>4, <2>5, <2>6, <2>7 DEF Handler
<1>3. ASSUME NEW j \in Jobs, Reap(j) PROVE CopyFresh' /\ AckedIsStored'
  BY <1>3, <1>t DEF Reap
<1>4. ASSUME NEW e \in Edits, Editor(e) PROVE CopyFresh' /\ AckedIsStored'
  <2>1. CASE EditorLoad(e)
    BY <2>1, <1>t DEF EditorLoad
  <2>2. CASE EditorSave(e)
    BY <2>2, <1>t DEF EditorSave
  <2> QED BY <1>4, <2>1, <2>2 DEF Editor
<1>5. ASSUME DeleteCheck \/ DeleteRow PROVE CopyFresh' /\ AckedIsStored'
  BY <1>5, <1>t DEF DeleteCheck, DeleteRow
<1>6. ASSUME Restart PROVE CopyFresh' /\ AckedIsStored'
  BY <1>6, <1>t DEF Restart
<1>7. ASSUME UNCHANGED vars PROVE CopyFresh' /\ AckedIsStored'
  BY <1>7, <1>t DEF vars
<1> QED BY <1>0, <1>1, <1>2, <1>3, <1>4, <1>5, <1>6, <1>7 DEF Next

\* With one permit, work that was returned as processed stays in the column as long as only jobs
\* write it, whatever the reaper, a duplicate request or a restart do.
THEOREM AckedStays == ASSUME Cap = 1 PROVE Spec => []AckedIsStored
<1>1. Fresh /\ [Next]_vars => Fresh'
  BY FreshStep
<1>2. Fresh => AckedIsStored
  BY DEF Fresh
<1> QED BY FreshInit, <1>1, <1>2, PTL DEF Spec

\* A step that takes a handler from its work to its report, with its remix there, adds to the
\* column or leaves it.
LEMMA WriteKeeps ==
  ASSUME Fresh, [Next]_vars, NEW j \in Jobs,
         task[j] = "working", task'[j] = "completing", status[j] = "running", remix = "present"
  PROVE  column \subseteq column'
<1> USE DEF rows, handler, editor, stored, limits, Goto
<1>t. task \in [Jobs -> Holding \cup {"none", "waiting", "done"}]
  BY DEF Fresh, TypeOK
<1>c. copy[j] = column
  BY DEF Fresh, CopyFresh
<1>1. ASSUME NEW k \in Jobs, Request(k) \/ Reap(k) PROVE column' = column
  BY <1>1 DEF Request, RequestLoad, RequestCheck, RequestInsert, Reap
<1>2. ASSUME NEW k \in Jobs, Handler(k) PROVE column \subseteq column'
  <2>1. CASE Acquire(k) \/ Start(k) \/ Load(k) \/ GiveUp(k) \/ Commit(k) \/ RunnerFault(k)
    BY <2>1 DEF Acquire, Start, Load, GiveUp, Commit, RunnerFault
  <2>2. CASE Persist(k) \/ PersistFault(k)
    <3>1. task[k] = "working"
      BY <2>2 DEF Persist, PersistFault
    <3>2. k = j
      BY <3>1 DEF Fresh, OneHolder, Holding
    <3> QED BY <2>2, <3>2, <1>c DEF Persist, PersistFault
  <2> QED BY <1>2, <2>1, <2>2 DEF Handler
<1>3. ASSUME NEW e \in Edits, Editor(e) PROVE FALSE
  BY <1>3 DEF Editor, EditorLoad, EditorSave
<1>4. ~DeleteCheck /\ ~DeleteRow /\ ~UNCHANGED vars
  BY DEF DeleteCheck, DeleteRow, vars
<1>5. ~Restart
  BY <1>t DEF Restart
<1> QED BY <1>1, <1>2, <1>3, <1>4, <1>5 DEF Next

\* With one permit a live job's write loses nobody's work, although the enqueue route can let two
\* requests for the same column through.
THEOREM LosesNothing == ASSUME Cap = 1 PROVE Spec => LiveJobLosesNothing
<1>1. Fresh /\ [Next]_vars => Fresh'
  BY FreshStep
<1>2. Fresh /\ [Next]_vars =>
        [\A j \in Jobs :
           task[j] = "working" /\ task'[j] = "completing" /\ status[j] = "running"
             /\ remix = "present" => column \subseteq column']_vars
  BY WriteKeeps
<1> QED BY FreshInit, <1>1, <1>2, PTL DEF Spec, LiveJobLosesNothing
=============================================================================
