-------------------------- MODULE JobRunnerProofs --------------------------
(***************************************************************************)
(* What JobRunner guarantees for every set of jobs, every semaphore cap    *)
(* and every bound.                                                        *)
(***************************************************************************)
EXTENDS JobRunner, FiniteSetTheorems, TLAPS

\* Only a row the reaper may still sweep is stale: the listed statuses are active ones.
StaleActive == \A j \in Jobs : stale[j] => row[j] \in {"queued", "running"}

TypeInv == TypeOK /\ StaleActive

-----------------------------------------------------------------------------
(* Types                                                                   *)

LEMMA CasType ==
  ASSUME TypeInv, NEW j \in Jobs, NEW from, NEW to \in Status, Cas(j, from, to)
  PROVE  /\ row' \in [Jobs -> Status]
         /\ stale' \in [Jobs -> BOOLEAN]
         /\ StaleActive'
BY DEF TypeInv, TypeOK, StaleActive, Cas

LEMMA EndType ==
  ASSUME TypeInv, NEW j \in Jobs, End(j)
  PROVE  /\ task' \in [Jobs -> TaskPC]
         /\ permits' \in [Types -> Nat]
         /\ verdict' \in [Jobs -> Terminal]
         /\ seenCancel' \in [Jobs -> BOOLEAN]
         /\ reports' \in [Jobs -> Nat]
<1>1. TypeOf[j] \in Types /\ permits \in [Types -> Nat]
  BY TypeOfAssumption DEF TypeInv, TypeOK
<1>2. permits' \in [Types -> Nat]
  BY <1>1 DEF End, Release
<1> QED BY <1>2 DEF TypeInv, TypeOK, End, Goto, TaskPC, Terminal, Spc!Terminal

LEMMA ToRescueType ==
  ASSUME TypeInv, NEW j \in Jobs, NEW v \in Terminal, ToRescue(j, v)
  PROVE  /\ task' \in [Jobs -> TaskPC]
         /\ permits' \in [Types -> Nat]
         /\ verdict' \in [Jobs -> Terminal]
         /\ seenCancel' \in [Jobs -> BOOLEAN]
         /\ reports' \in [Jobs -> Nat]
BY DEF TypeInv, TypeOK, ToRescue, Goto, TaskPC, Holding

LEMMA RunHookType ==
  ASSUME TypeInv, NEW j \in Jobs, RunHook(j)
  PROVE  hooked' \in [Jobs -> SUBSET Terminal]
BY DEF TypeInv, TypeOK, RunHook

LEMMA TypeInit == Init => TypeInv
BY SemCapAssumption
DEF Init, TypeInv, TypeOK, StaleActive, Status, TaskPC, Terminal, Spc!Terminal, SweepState, ProcState

LEMMA TypeStep == TypeInv /\ [Next]_vars => TypeInv'
<1> SUFFICES ASSUME TypeInv, [Next]_vars PROVE TypeInv'
  OBVIOUS
<1> USE DEF TypeInv
<1> USE DEF rowVars, taskVars, locals, counters, stops
<1>ter. Terminal = {"completed", "failed", "cancelled"} /\ Spc!Active = {"queued", "running"}
  BY DEF Terminal, Spc!Terminal, Spc!Active
<1>1. ASSUME NEW j \in Jobs, Enqueue(j) PROVE TypeInv'
  BY <1>1 DEF Enqueue, Insert, Spawn, Goto, TypeOK, StaleActive, Status, TaskPC
<1>2. ASSUME NEW j \in Jobs, Worker(j) PROVE TypeInv'
  <2>1. CASE Acquire(j)
    <3>1. TypeOf[j] \in Types /\ permits \in [Types -> Nat] /\ permits[TypeOf[j]] - 1 \in Nat
      BY <2>1, TypeOfAssumption DEF Acquire, TypeOK
    <3>2. permits' \in [Types -> Nat]
      BY <2>1, <3>1 DEF Acquire
    <3> QED BY <2>1, <3>2 DEF Acquire, Goto, TypeOK, StaleActive, TaskPC, Holding
  <2>2. CASE Start(j)
    <3>1. StaleActive' /\ row' \in [Jobs -> Status] /\ stale' \in [Jobs -> BOOLEAN]
      BY <2>2, CasType DEF Start, Status
    <3>2. CASE row[j] = "queued"
      BY <2>2, <3>1, <3>2 DEF Start, Goto, TypeOK, TaskPC, Holding
    <3>3. CASE row[j] # "queued"
      BY <2>2, <3>1, <3>3, EndType DEF Start, TypeOK
    <3> QED BY <3>2, <3>3
  <2>3. CASE StartFault(j)
    <3>1. StaleActive' /\ row' \in [Jobs -> Status] /\ stale' \in [Jobs -> BOOLEAN]
      BY <2>3, CasType DEF StartFault, MaybeCas, TypeOK, StaleActive, Status
    <3> QED BY <2>3, <3>1, EndType DEF StartFault, Fault, TypeOK
  <2>4. CASE Handler(j)
    <3>1. CASE Report(j)
      BY <3>1 DEF Report, Touch, TypeOK, StaleActive
    <3>2. CASE PollCancel(j)
      BY <3>2 DEF PollCancel, TypeOK, StaleActive
    <3>3. CASE HandlerReturns(j)
      BY <3>3 DEF HandlerReturns, Goto, TypeOK, StaleActive, TaskPC, Holding
    <3>4. CASE HandlerRaises(j)
      BY <3>4, <1>ter, ToRescueType DEF HandlerRaises, TypeOK, StaleActive
    <3> QED BY <2>4, <3>1, <3>2, <3>3, <3>4 DEF Handler
  <2>5. CASE Settle(j)
    <3>0. verdict[j] \in Status
      BY DEF TypeOK, Status
    <3>1. CASE Finalize(j)
      BY <3>1, RunHookType DEF Finalize, Goto, TypeOK, StaleActive, TaskPC, Holding
    <3>2. CASE Commit(j)
      BY <3>0, <3>2, CasType, EndType DEF Commit, TypeOK
    <3>3. CASE CommitFault(j)
      <4>1. StaleActive' /\ row' \in [Jobs -> Status] /\ stale' \in [Jobs -> BOOLEAN]
        BY <3>0, <3>3, CasType DEF CommitFault, MaybeCas, TypeOK, StaleActive
      <4> QED BY <3>3, <4>1, <1>ter, EndType, ToRescueType DEF CommitFault, Fault, TypeOK
    <3> QED BY <2>5, <3>1, <3>2, <3>3 DEF Settle
  <2>6. CASE Abort(j)
    <3>0. verdict[j] \in Status
      BY DEF TypeOK, Status
    <3>1. StaleActive' /\ row' \in [Jobs -> Status] /\ stale' \in [Jobs -> BOOLEAN]
      BY <2>6, <3>0, CasType DEF Abort, TypeOK, StaleActive, Status
    <3>2. hooked' \in [Jobs -> SUBSET Terminal]
      BY <2>6, RunHookType DEF Abort, TypeOK
    <3>3. CASE task[j] = "waiting"
      BY <2>6, <3>1, <3>2, <3>3 DEF Abort, Goto, TypeOK, TaskPC
    <3>4. CASE task[j] \in {"starting", "rescuing", "recommitting"}
      BY <2>6, <3>1, <3>2, <3>4, EndType DEF Abort, TypeOK
    <3>5. CASE task[j] \in {"handling", "finalizing", "committing"}
      BY <2>6, <3>1, <3>2, <3>5, <1>ter, ToRescueType DEF Abort, TypeOK
    <3> QED BY <2>6, <3>3, <3>4, <3>5 DEF Abort
  <2> QED BY <1>2, <2>1, <2>2, <2>3, <2>4, <2>5, <2>6 DEF Worker
<1>3. ASSUME NEW j \in Jobs, Ages(j) PROVE TypeInv'
  BY <1>3, <1>ter DEF Ages, TypeOK, StaleActive
<1>4. ASSUME NEW j \in Jobs, Client(j) PROVE TypeInv'
  BY <1>4 DEF Client, CancelCheck, CancelWrite, Touch, TypeOK, StaleActive
<1>5. ASSUME Reaper PROVE TypeInv'
  <2>1. CASE ReapList
    BY <2>1 DEF ReapList, TypeOK, StaleActive, SweepState
  <2>2. CASE ReapFault
    BY <2>2, CasType DEF ReapFault, MaybeCas, Fault, TypeOK, StaleActive, SweepState, Status, Terminal, Spc!Terminal
  <2>3. ASSUME NEW j \in Jobs, ReapRow(j) PROVE TypeInv'
    BY <2>3, CasType DEF ReapRow, TypeOK, SweepState, Status, Terminal, Spc!Terminal
  <2>4. ASSUME NEW j \in Jobs, ReapHook(j) PROVE TypeInv'
    BY <2>4, <1>ter DEF ReapHook, TypeOK, StaleActive, SweepState
  <2> QED BY <1>5, <2>1, <2>2, <2>3, <2>4 DEF Reaper
<1>6. ASSUME Process PROVE TypeInv'
  <2>1. CASE BeginShutdown
    <3>1. StaleActive' /\ row' \in [Jobs -> Status] /\ stale' \in [Jobs -> BOOLEAN]
      BY <2>1, <1>ter, CasType DEF BeginShutdown, TypeOK, StaleActive, Status
    <3> QED BY <2>1, <3>1 DEF BeginShutdown, TypeOK, SweepState, ProcState
  <2>2. CASE DrainTimeout
    BY <2>2 DEF DrainTimeout, TypeOK, StaleActive, ProcState
  <2>3. CASE Forget /\ shutdowns' = shutdowns /\ crashes' \in Nat
    BY <2>3, <1>ter, SemCapAssumption DEF Forget, TypeOK, StaleActive, TaskPC, SweepState, ProcState
  <2>4. CASE Exit
    BY <2>3, <2>4 DEF Exit, TypeOK
  <2>5. CASE Crash
    BY <2>3, <2>5 DEF Crash, TypeOK
  <2>6. CASE Restart
    BY <2>6 DEF Restart, TypeOK, StaleActive, ProcState
  <2> QED BY <1>6, <2>1, <2>2, <2>4, <2>5, <2>6 DEF Process
<1>7. CASE UNCHANGED vars
  BY <1>7 DEF vars, TypeOK, StaleActive
<1> QED BY <1>1, <1>2, <1>3, <1>4, <1>5, <1>6, <1>7 DEF Next

\* Type correctness: the states of rows, coroutines, sweeps and the process stay within their
\* ranges in every reachable state, for all parameters.
THEOREM TypeCorrect == Spec => []TypeOK
<1>1. Init => TypeInv
  BY TypeInit
<1>2. TypeInv /\ [Next]_vars => TypeInv'
  BY TypeStep
<1>3. TypeInv => TypeOK
  BY DEF TypeInv
<1> QED BY <1>1, <1>2, <1>3, PTL DEF Spec

-----------------------------------------------------------------------------
(* Refinement of JobSpec                                                   *)

\* Every statement of the worker and of the reaper that changes a row is a step of JobSpec.
LEMMA CasRefines ==
  ASSUME TypeInv, NEW j \in Jobs, NEW to \in Terminal,
         \/ Cas(j, "queued", "running")
         \/ Cas(j, "queued", "failed")
         \/ Cas(j, "running", to)
  PROVE  [Spc!Next]_row
BY DEF Cas, Spc!Next, Spc!Begin, Spc!Decide, Spc!Discard, Spc!Terminal, Terminal

LEMMA RowStep == TypeInv /\ [Next]_vars => [Spc!Next]_row
<1> SUFFICES ASSUME TypeInv, [Next]_vars PROVE [Spc!Next]_row
  OBVIOUS
<1> USE DEF rowVars
<1>v. \A j \in Jobs : verdict[j] \in Terminal
  BY DEF TypeInv, TypeOK
<1>f. "failed" \in Terminal
  BY DEF Terminal, Spc!Terminal
<1>1. ASSUME NEW j \in Jobs, Enqueue(j) PROVE [Spc!Next]_row
  BY <1>1 DEF Enqueue, Insert, Spawn, Spc!Next, Spc!Submit
<1>2. ASSUME NEW j \in Jobs, Worker(j) PROVE [Spc!Next]_row
  <2>1. CASE Start(j) \/ StartFault(j)
    BY <2>1, <1>f, CasRefines DEF Start, StartFault, MaybeCas
  <2>2. CASE Commit(j) \/ CommitFault(j)
    BY <2>2, <1>v, CasRefines DEF Commit, CommitFault, MaybeCas
  <2>3. CASE Abort(j)
    BY <2>3, <1>v, CasRefines DEF Abort
  <2>4. CASE Acquire(j) \/ Handler(j) \/ Finalize(j)
    BY <2>4 DEF Acquire, Handler, Report, PollCancel, HandlerReturns, HandlerRaises, Finalize
  <2> QED BY <1>2, <2>1, <2>2, <2>3, <2>4 DEF Worker, Settle
<1>3. ASSUME NEW j \in Jobs, Ages(j) \/ Client(j) PROVE [Spc!Next]_row
  BY <1>3 DEF Ages, Client, CancelCheck, CancelWrite
<1>4. ASSUME Reaper PROVE [Spc!Next]_row
  <2>1. CASE ReapList
    BY <2>1 DEF ReapList
  <2>2. CASE ReapFault
    BY <2>2, <1>f, CasRefines DEF ReapFault, MaybeCas
  <2>3. ASSUME NEW j \in Jobs, ReapRow(j) PROVE [Spc!Next]_row
    BY <2>3, <1>f, CasRefines DEF ReapRow
  <2>4. ASSUME NEW j \in Jobs, ReapHook(j) PROVE [Spc!Next]_row
    BY <2>4 DEF ReapHook
  <2> QED BY <1>4, <2>1, <2>2, <2>3, <2>4 DEF Reaper
<1>5. ASSUME Process PROVE [Spc!Next]_row
  <2>1. CASE BeginShutdown
    BY <2>1, <1>f, CasRefines DEF BeginShutdown
  <2>2. CASE DrainTimeout \/ Exit \/ Crash \/ Restart
    BY <2>2 DEF DrainTimeout, Exit, Crash, Restart, Forget
  <2> QED BY <1>5, <2>1, <2>2 DEF Process
<1>6. CASE UNCHANGED vars
  BY <1>6 DEF vars
<1> QED BY <1>1, <1>2, <1>3, <1>4, <1>5, <1>6 DEF Next

\* The rows of background_jobs implement JobSpec: whatever workers, reaper, zombies, clients,
\* shutdowns and crashes do, a job begins at most once and its outcome is decided at most once.
THEOREM Refinement == Spec => RefinesJobSpec
<1>1. Init => TypeInv /\ Spc!Init
  BY TypeInit DEF Init, Spc!Init
<1>2. TypeInv /\ [Next]_vars => TypeInv' /\ [Spc!Next]_row
  BY TypeStep, RowStep
<1> QED BY <1>1, <1>2, PTL DEF Spec, RefinesJobSpec, Spc!Spec

\* A job has no coroutine before its row is inserted.
AbsentIdle == \A j \in Jobs : row[j] = "absent" => task[j] = "none"

LEMMA AbsentIdleStep == TypeInv /\ AbsentIdle /\ [Next]_vars => AbsentIdle'
<1> SUFFICES ASSUME TypeInv, AbsentIdle, [Next]_vars, NEW k \in Jobs, row'[k] = "absent"
             PROVE  task'[k] = "none"
  BY DEF AbsentIdle
<1>1. row[k] = "absent" /\ task[k] = "none"
  BY RowStep DEF AbsentIdle, TypeInv, TypeOK, Spc!Next, Spc!Submit, Spc!Begin, Spc!Decide,
                 Spc!Discard, Spc!Terminal
<1> USE DEF TypeInv, TypeOK, taskVars, Goto
<1>2. ASSUME NEW j \in Jobs, Enqueue(j) PROVE task'[k] = "none"
  BY <1>1, <1>2 DEF Enqueue, Insert, Spawn
<1>3. ASSUME NEW j \in Jobs, Worker(j) PROVE task'[k] = "none"
  <2>1. task[j] # "none"
    BY <1>3 DEF Worker, Acquire, Start, StartFault, Handler, Report, PollCancel, HandlerReturns,
                HandlerRaises, Settle, Finalize, Commit, CommitFault, Abort
  <2>2. task'[k] = task[k]
    BY <1>1, <1>3, <2>1
    DEF Worker, Acquire, Start, StartFault, Handler, Report, PollCancel, HandlerReturns,
        HandlerRaises, Settle, Finalize, Commit, CommitFault, Abort, End, ToRescue
  <2> QED BY <1>1, <2>2
<1>4. ASSUME NEW j \in Jobs, Ages(j) \/ Client(j) PROVE task'[k] = "none"
  BY <1>1, <1>4 DEF Ages, Client, CancelCheck, CancelWrite
<1>5. ASSUME Reaper PROVE task'[k] = "none"
  BY <1>1, <1>5 DEF Reaper, ReapList, ReapFault, ReapRow, ReapHook
<1>6. ASSUME Process PROVE task'[k] = "none"
  BY <1>1, <1>6 DEF Process, BeginShutdown, DrainTimeout, Exit, Crash, Restart, Forget
<1>7. CASE UNCHANGED vars
  BY <1>1, <1>7 DEF vars
<1> QED BY <1>2, <1>3, <1>4, <1>5, <1>6, <1>7 DEF Next

-----------------------------------------------------------------------------
(* Permits                                                                 *)

LEMMA HoldersFinite == \A t : IsFiniteSet(Holders(t)) /\ Cardinality(Holders(t)) \in Nat
BY JobsAssumption, FS_Subset, FS_CardinalityType DEF Holders

\* A coroutine that stays on its side of `async with sem` changes no set of holders.
LEMMA HoldersStay ==
  ASSUME \A j \in Jobs : task'[j] \in Holding <=> task[j] \in Holding
  PROVE  \A t : Cardinality(Holders(t))' = Cardinality(Holders(t))
BY DEF Holders

LEMMA HoldersEnter ==
  ASSUME TypeInv, NEW j \in Jobs, NEW pc \in Holding, task[j] \notin Holding, Goto(j, pc)
  PROVE  \A t \in Types : Cardinality(Holders(t))' =
           IF t = TypeOf[j] THEN Cardinality(Holders(t)) + 1 ELSE Cardinality(Holders(t))
<1> SUFFICES ASSUME NEW t \in Types
             PROVE  Cardinality(Holders(t))' =
                      IF t = TypeOf[j] THEN Cardinality(Holders(t)) + 1 ELSE Cardinality(Holders(t))
  OBVIOUS
<1>1. \A k \in Jobs : task'[k] = IF k = j THEN pc ELSE task[k]
  BY DEF Goto, TypeInv, TypeOK
<1>2. CASE t = TypeOf[j]
  <2>1. Holders(t)' = Holders(t) \cup {j} /\ j \notin Holders(t)
    BY <1>1, <1>2 DEF Holders
  <2> QED BY <1>2, <2>1, HoldersFinite, FS_AddElement
<1>3. CASE t # TypeOf[j]
  <2>1. Holders(t)' = Holders(t)
    BY <1>1, <1>3 DEF Holders
  <2> QED BY <1>3, <2>1
<1> QED BY <1>2, <1>3

LEMMA HoldersLeave ==
  ASSUME TypeInv, NEW j \in Jobs, task[j] \in Holding, Goto(j, "done")
  PROVE  \A t \in Types : Cardinality(Holders(t))' =
           IF t = TypeOf[j] THEN Cardinality(Holders(t)) - 1 ELSE Cardinality(Holders(t))
<1> SUFFICES ASSUME NEW t \in Types
             PROVE  Cardinality(Holders(t))' =
                      IF t = TypeOf[j] THEN Cardinality(Holders(t)) - 1 ELSE Cardinality(Holders(t))
  OBVIOUS
<1>1. \A k \in Jobs : task'[k] = IF k = j THEN "done" ELSE task[k]
  BY DEF Goto, TypeInv, TypeOK
<1>2. CASE t = TypeOf[j]
  <2>1. Holders(t)' = Holders(t) \ {j} /\ j \in Holders(t)
    BY <1>1, <1>2 DEF Holders, Holding
  <2> QED BY <1>2, <2>1, HoldersFinite, FS_RemoveElement
<1>3. CASE t # TypeOf[j]
  <2>1. Holders(t)' = Holders(t)
    BY <1>1, <1>3 DEF Holders
  <2> QED BY <1>3, <2>1
<1> QED BY <1>2, <1>3

LEMMA BalanceStays ==
  ASSUME PermitsBalance, UNCHANGED permits,
         \A j \in Jobs : task'[j] \in Holding <=> task[j] \in Holding
  PROVE  PermitsBalance'
BY HoldersStay DEF PermitsBalance

\* A task ends from inside `async with sem`: one holder less, one permit more.
LEMMA BalanceEnds ==
  ASSUME TypeInv, PermitsBalance, NEW j \in Jobs, task[j] \in Holding, End(j)
  PROVE  PermitsBalance'
<1>1. TypeOf[j] \in Types /\ permits \in [Types -> Nat] /\ SemCap \in [Types -> Nat]
  BY TypeOfAssumption, SemCapAssumption DEF TypeInv, TypeOK
<1>2. \A t \in Types : permits'[t] = IF t = TypeOf[j] THEN permits[t] + 1 ELSE permits[t]
  BY <1>1 DEF End, Release
<1>3. \A t \in Types : Cardinality(Holders(t))' =
        IF t = TypeOf[j] THEN Cardinality(Holders(t)) - 1 ELSE Cardinality(Holders(t))
  BY HoldersLeave DEF End
<1> QED BY <1>1, <1>2, <1>3, HoldersFinite DEF PermitsBalance

LEMMA BalanceRescues ==
  ASSUME TypeInv, PermitsBalance, NEW j \in Jobs, NEW v, task[j] \in Holding, ToRescue(j, v)
  PROVE  PermitsBalance'
BY BalanceStays DEF ToRescue, Goto, TypeInv, TypeOK, Holding

LEMMA BalanceInit == Init => PermitsBalance
<1> SUFFICES ASSUME Init, NEW t \in Types PROVE permits[t] + Cardinality(Holders(t)) = SemCap[t]
  BY DEF PermitsBalance
<1>1. Holders(t) = {}
  BY DEF Init, Holders, Holding
<1> QED BY <1>1, FS_EmptySet, SemCapAssumption DEF Init

LEMMA BalanceStep == TypeInv /\ AbsentIdle /\ PermitsBalance /\ [Next]_vars => PermitsBalance'
<1> SUFFICES ASSUME TypeInv, AbsentIdle, PermitsBalance, [Next]_vars PROVE PermitsBalance'
  OBVIOUS
<1> USE DEF taskVars
<1>1. ASSUME NEW j \in Jobs, Enqueue(j) PROVE PermitsBalance'
  <2>1. CASE Insert(j)
    <3>1. \A k \in Jobs : task'[k] \in Holding <=> task[k] \in Holding
      BY <2>1 DEF Insert, Goto, AbsentIdle, TypeInv, TypeOK, Holding
    <3> QED BY <2>1, <3>1, BalanceStays DEF Insert
  <2>2. CASE Spawn(j)
    BY <2>2, BalanceStays DEF Spawn, Goto, TypeInv, TypeOK, Holding
  <2> QED BY <1>1, <2>1, <2>2 DEF Enqueue
<1>2. ASSUME NEW j \in Jobs, Acquire(j) PROVE PermitsBalance'
  <2>1. TypeOf[j] \in Types /\ permits \in [Types -> Nat] /\ SemCap \in [Types -> Nat]
    BY TypeOfAssumption, SemCapAssumption DEF TypeInv, TypeOK
  <2>2. \A t \in Types : permits'[t] = IF t = TypeOf[j] THEN permits[t] - 1 ELSE permits[t]
    BY <1>2, <2>1 DEF Acquire
  <2>3. "starting" \in Holding /\ task[j] \notin Holding /\ Goto(j, "starting")
    BY <1>2 DEF Acquire, Holding
  <2>4. \A t \in Types : Cardinality(Holders(t))' =
          IF t = TypeOf[j] THEN Cardinality(Holders(t)) + 1 ELSE Cardinality(Holders(t))
    BY <2>3, HoldersEnter
  <2> QED BY <2>1, <2>2, <2>4, HoldersFinite DEF PermitsBalance
<1>3. ASSUME NEW j \in Jobs, Start(j) \/ StartFault(j) PROVE PermitsBalance'
  <2>1. task[j] \in Holding
    BY <1>3 DEF Start, StartFault, Holding
  <2>2. CASE End(j)
    BY <2>1, <2>2, BalanceEnds
  <2>3. CASE ~End(j)
    <3>1. Goto(j, "handling") /\ UNCHANGED permits
      BY <1>3, <2>3 DEF Start, StartFault
    <3> QED BY <2>1, <3>1, BalanceStays DEF Goto, TypeInv, TypeOK, Holding
  <2> QED BY <2>2, <2>3
<1>4. ASSUME NEW j \in Jobs, Handler(j) PROVE PermitsBalance'
  <2>1. CASE Report(j) \/ PollCancel(j)
    BY <2>1, BalanceStays DEF Report, PollCancel
  <2>2. CASE HandlerReturns(j)
    BY <2>2, BalanceStays DEF HandlerReturns, Goto, TypeInv, TypeOK, Holding
  <2>3. CASE HandlerRaises(j)
    BY <2>3, BalanceRescues DEF HandlerRaises, Holding
  <2> QED BY <1>4, <2>1, <2>2, <2>3 DEF Handler
<1>5. ASSUME NEW j \in Jobs, Settle(j) PROVE PermitsBalance'
  <2>1. CASE Finalize(j)
    BY <2>1, BalanceStays DEF Finalize, Goto, TypeInv, TypeOK, Holding
  <2>2. CASE Commit(j)
    BY <2>2, BalanceEnds DEF Commit, Holding
  <2>3. CASE CommitFault(j)
    BY <2>3, BalanceEnds, BalanceRescues DEF CommitFault, Holding
  <2> QED BY <1>5, <2>1, <2>2, <2>3 DEF Settle
<1>6. ASSUME NEW j \in Jobs, Abort(j) PROVE PermitsBalance'
  <2>1. CASE task[j] = "waiting"
    BY <1>6, <2>1, BalanceStays DEF Abort, Goto, TypeInv, TypeOK, Holding
  <2>2. CASE task[j] \in {"starting", "rescuing", "recommitting"}
    BY <1>6, <2>2, BalanceEnds DEF Abort, Holding
  <2>3. CASE task[j] \in {"handling", "finalizing", "committing"}
    BY <1>6, <2>3, BalanceRescues DEF Abort, Holding
  <2> QED BY <1>6, <2>1, <2>2, <2>3 DEF Abort
<1>7. ASSUME NEW j \in Jobs, Ages(j) \/ Client(j) PROVE PermitsBalance'
  BY <1>7, BalanceStays DEF Ages, Client, CancelCheck, CancelWrite
<1>8. ASSUME Reaper PROVE PermitsBalance'
  BY <1>8, BalanceStays DEF Reaper, ReapList, ReapFault, ReapRow, ReapHook
<1>9. ASSUME Process PROVE PermitsBalance'
  <2>1. CASE Forget
    <3> SUFFICES ASSUME NEW t \in Types PROVE permits'[t] + Cardinality(Holders(t))' = SemCap[t]
      BY DEF PermitsBalance
    <3>1. Holders(t)' = {} /\ permits' = SemCap
      BY <2>1 DEF Forget, Holders, Holding
    <3> QED BY <3>1, FS_EmptySet, SemCapAssumption
  <2>2. CASE BeginShutdown \/ DrainTimeout \/ Restart
    BY <2>2, BalanceStays DEF BeginShutdown, DrainTimeout, Restart
  <2> QED BY <1>9, <2>1, <2>2 DEF Process, Exit, Crash
<1>10. CASE UNCHANGED vars
  BY <1>10, BalanceStays DEF vars
<1> QED BY <1>1, <1>2, <1>3, <1>4, <1>5, <1>6, <1>7, <1>8, <1>9, <1>10 DEF Next, Worker

\* No path out of a worker, be it an abort, a lost CAS, or an error of any statement, leaks a
\* semaphore permit or returns one twice, whatever the cap of the type.
THEOREM PermitsBalanced == Spec => []PermitsBalance
<1>1. Init => TypeInv /\ AbsentIdle /\ PermitsBalance
  BY TypeInit, BalanceInit DEF Init, AbsentIdle
<1>2. TypeInv /\ AbsentIdle /\ PermitsBalance /\ [Next]_vars
        => TypeInv' /\ AbsentIdle' /\ PermitsBalance'
  BY TypeStep, AbsentIdleStep, BalanceStep
<1> QED BY <1>1, <1>2, PTL DEF Spec

-----------------------------------------------------------------------------
(* Why a job is cancelled, and what its hook knows before the status       *)

\* What the coroutine remembers of the cancel flag is true, and a cancelled verdict has a cause.
CauseInv ==
  \A j \in Jobs :
    /\ seenCancel[j] => cancelReq[j]
    /\ verdict[j] = "cancelled" => cancelReq[j] \/ j \in aborted
    /\ row[j] = "cancelled" => cancelReq[j] \/ j \in aborted

\* A coroutine that stands before its commit has told the hook the verdict.
ToldInv == \A j \in Jobs : task[j] \in {"committing", "recommitting"} => verdict[j] \in hooked[j]

CommitInv == CauseInv /\ ToldInv

LEMMA CommitStep == TypeInv /\ AbsentIdle /\ CommitInv /\ [Next]_vars => CommitInv'
<1> SUFFICES ASSUME TypeInv, AbsentIdle, CommitInv, [Next]_vars PROVE CommitInv'
  OBVIOUS
<1> USE DEF TypeInv, TypeOK, CommitInv, CauseInv, ToldInv, rowVars, taskVars, locals, Goto
<1>1. ASSUME NEW j \in Jobs, Enqueue(j) PROVE CommitInv'
  BY <1>1 DEF Enqueue, Insert, Spawn
<1>2. ASSUME NEW j \in Jobs, Acquire(j) PROVE CommitInv'
  BY <1>2 DEF Acquire
<1>3. ASSUME NEW j \in Jobs, Start(j) \/ StartFault(j) PROVE CommitInv'
  BY <1>3 DEF Start, StartFault, MaybeCas, Cas, End
<1>4. ASSUME NEW j \in Jobs, Handler(j) PROVE CommitInv'
  <2>1. CASE Report(j) \/ PollCancel(j)
    BY <2>1 DEF Report, PollCancel
  <2>2. CASE HandlerReturns(j)
    BY <2>2 DEF HandlerReturns
  <2>3. CASE HandlerRaises(j)
    BY <2>3 DEF HandlerRaises, ToRescue
  <2> QED BY <1>4, <2>1, <2>2, <2>3 DEF Handler
<1>5. ASSUME NEW j \in Jobs, Settle(j) PROVE CommitInv'
  <2>1. CASE Finalize(j)
    BY <2>1 DEF Finalize, RunHook
  <2>2. CASE Commit(j)
    BY <2>2 DEF Commit, Cas, End
  <2>3. CASE CommitFault(j)
    BY <2>3 DEF CommitFault, MaybeCas, Cas, End, ToRescue
  <2> QED BY <1>5, <2>1, <2>2, <2>3 DEF Settle
<1>6. ASSUME NEW j \in Jobs, Abort(j) PROVE CommitInv'
  <2>1. CauseInv'
    BY <1>6 DEF Abort, Cas, End, ToRescue
  <2>2. ToldInv'
    <3>1. hooked \in [Jobs -> SUBSET Terminal] /\ \A k \in Jobs : hooked[k] \subseteq hooked'[k]
      BY <1>6 DEF Abort, RunHook
    <3>2. task'[j] \notin {"committing", "recommitting"}
      BY <1>6 DEF Abort, End, ToRescue
    <3>3. \A k \in Jobs : k # j => task'[k] = task[k] /\ verdict'[k] = verdict[k]
      BY <1>6 DEF Abort, End, ToRescue
    <3> QED BY <3>1, <3>2, <3>3
  <2> QED BY <2>1, <2>2
<1>7. ASSUME NEW j \in Jobs, Ages(j) \/ Client(j) PROVE CommitInv'
  BY <1>7 DEF Ages, Client, CancelCheck, CancelWrite
<1>8. ASSUME Reaper PROVE CommitInv'
  BY <1>8 DEF Reaper, ReapList, ReapFault, ReapRow, ReapHook, MaybeCas, Cas
<1>9. ASSUME Process PROVE CommitInv'
  BY <1>9 DEF Process, BeginShutdown, DrainTimeout, Exit, Crash, Restart, Forget, Cas
<1>10. CASE UNCHANGED vars
  BY <1>10 DEF vars
<1> QED BY <1>1, <1>2, <1>3, <1>4, <1>5, <1>6, <1>7, <1>8, <1>9, <1>10 DEF Next, Worker

LEMMA CommitInvariant == Spec => [](TypeInv /\ AbsentIdle /\ CommitInv)
<1>1. Init => TypeInv /\ AbsentIdle /\ CommitInv
  BY TypeInit DEF Init, AbsentIdle, CommitInv, CauseInv, ToldInv
<1>2. TypeInv /\ AbsentIdle /\ CommitInv /\ [Next]_vars => TypeInv' /\ AbsentIdle' /\ CommitInv'
  BY TypeStep, AbsentIdleStep, CommitStep
<1> QED BY <1>1, <1>2, PTL DEF Spec

\* A job ends cancelled only when a client asked for it or the shutdown aborted its task.
THEOREM CancelCause == Spec => []CancelledHasCause
<1>1. CommitInv => CancelledHasCause
  BY DEF CommitInv, CauseInv, CancelledHasCause
<1> QED BY <1>1, CommitInvariant, PTL

\* The statement of the worker about to run writes nothing but the verdict the hook was told.
LEMMA HookStep ==
  ASSUME TypeInv, CommitInv, [Next]_vars, NEW k \in Jobs, row'[k] # row[k],
         row'[k] \in {"completed", "cancelled"}
  PROVE  row'[k] \in hooked[k]
<1> USE DEF TypeInv, TypeOK, CommitInv, ToldInv, rowVars
<1>1. ASSUME NEW j \in Jobs, Enqueue(j) PROVE row'[k] \in hooked[k]
  BY <1>1 DEF Enqueue, Insert, Spawn
<1>2. ASSUME NEW j \in Jobs, Worker(j) PROVE row'[k] \in hooked[k]
  <2>1. CASE Acquire(j) \/ Handler(j) \/ Finalize(j)
    BY <2>1 DEF Acquire, Handler, Report, PollCancel, HandlerReturns, HandlerRaises, Finalize
  <2>2. CASE Start(j) \/ StartFault(j)
    BY <2>2 DEF Start, StartFault, MaybeCas, Cas
  <2>3. CASE Commit(j) \/ CommitFault(j)
    BY <2>3 DEF Commit, CommitFault, MaybeCas, Cas
  <2>4. CASE Abort(j)
    BY <2>4 DEF Abort, Cas
  <2> QED BY <1>2, <2>1, <2>2, <2>3, <2>4 DEF Worker, Settle
<1>3. ASSUME NEW j \in Jobs, Ages(j) \/ Client(j) PROVE row'[k] \in hooked[k]
  BY <1>3 DEF Ages, Client, CancelCheck, CancelWrite
<1>4. ASSUME Reaper PROVE row'[k] \in hooked[k]
  BY <1>4 DEF Reaper, ReapList, ReapFault, ReapRow, ReapHook, MaybeCas, Cas
<1>5. ASSUME Process PROVE row'[k] \in hooked[k]
  BY <1>5 DEF Process, BeginShutdown, DrainTimeout, Exit, Crash, Restart, Forget, Cas
<1>6. CASE UNCHANGED vars
  BY <1>6 DEF vars
<1> QED BY <1>1, <1>2, <1>3, <1>4, <1>5, <1>6 DEF Next

\* Finalize before status: no poller sees completed or cancelled before the hook was told so,
\* through commit errors, retries in the except block and aborts at any await.
THEOREM HookFirst == Spec => HookBeforeStatus
<1>1. TypeInv /\ CommitInv /\ [Next]_vars
        => [\A j \in Jobs : row'[j] # row[j] /\ row'[j] \in {"completed", "cancelled"}
                             => row'[j] \in hooked[j]]_vars
  BY HookStep
<1> QED BY <1>1, CommitInvariant, PTL DEF Spec, HookBeforeStatus

\* A handler is entered only by the CAS queued -> running of its own row.
THEOREM EnterOnce == Spec => EnterOnlyByStart
<1>1. TypeInv /\ [Next]_vars
        => [\A j \in Jobs : task'[j] = "handling" /\ task[j] # "handling"
                             => row[j] = "queued" /\ row'[j] = "running"]_vars
  <2> SUFFICES ASSUME TypeInv, Next, NEW k \in Jobs, task'[k] = "handling", task[k] # "handling"
               PROVE  row[k] = "queued" /\ row'[k] = "running"
    OBVIOUS
  <2> USE DEF TypeInv, TypeOK, taskVars, Goto
  <2>1. ASSUME NEW j \in Jobs, Start(j) PROVE row[k] = "queued" /\ row'[k] = "running"
    BY <2>1 DEF Start, Cas, End
  <2>2. ASSUME NEW j \in Jobs,
               Enqueue(j) \/ Acquire(j) \/ StartFault(j) \/ Handler(j) \/ Settle(j) \/ Abort(j)
        PROVE  FALSE
    <3>1. CASE Enqueue(j) \/ Acquire(j) \/ StartFault(j)
      BY <3>1 DEF Enqueue, Insert, Spawn, Acquire, StartFault, End
    <3>2. CASE Handler(j)
      BY <3>2 DEF Handler, Report, PollCancel, HandlerReturns, HandlerRaises, ToRescue
    <3>3. CASE Settle(j)
      BY <3>3 DEF Settle, Finalize, Commit, CommitFault, End, ToRescue
    <3>4. CASE Abort(j)
      BY <3>4 DEF Abort, End, ToRescue
    <3> QED BY <2>2, <3>1, <3>2, <3>3, <3>4
  <2>3. ASSUME NEW j \in Jobs, Ages(j) \/ Client(j) PROVE FALSE
    BY <2>3 DEF Ages, Client, CancelCheck, CancelWrite
  <2>4. ASSUME Reaper PROVE FALSE
    BY <2>4 DEF Reaper, ReapList, ReapFault, ReapRow, ReapHook
  <2>5. ASSUME Process PROVE FALSE
    BY <2>5 DEF Process, BeginShutdown, DrainTimeout, Exit, Crash, Restart, Forget
  <2> QED BY <2>1, <2>2, <2>3, <2>4, <2>5 DEF Next, Worker
<1> QED BY <1>1, CommitInvariant, PTL DEF Spec, EnterOnlyByStart

-----------------------------------------------------------------------------
(* Who is behind a running row, and whom the hook heard                    *)

LEMMA WorkerStep == TypeInv /\ AbsentIdle /\ RunningHasWorker /\ [Next]_vars => RunningHasWorker'
<1> SUFFICES ASSUME TypeInv, AbsentIdle, RunningHasWorker, [Next]_vars, faults' = 0, crashes' = 0,
                    NEW k \in Jobs, row'[k] = "running"
             PROVE  task'[k] \in Holding \ {"starting"} \/ k \in aborted'
  BY DEF RunningHasWorker
<1>0. faults = 0 /\ crashes = 0 /\ aborted \subseteq aborted'
  <2> USE DEF TypeInv, TypeOK, counters, stops
  <2>1. ASSUME NEW j \in Jobs, Enqueue(j) \/ Worker(j) \/ Ages(j) \/ Client(j)
        PROVE  faults = 0 /\ crashes = 0 /\ aborted \subseteq aborted'
    BY <2>1 DEF Enqueue, Insert, Spawn, Worker, Acquire, Start, StartFault, Handler, Report, PollCancel, HandlerReturns,
         HandlerRaises, Settle, Finalize, Commit, CommitFault, Abort, Ages, Client, CancelCheck, CancelWrite, Fault
  <2>2. ASSUME Reaper PROVE faults = 0 /\ crashes = 0 /\ aborted \subseteq aborted'
    BY <2>2 DEF Reaper, ReapList, ReapFault, ReapRow, ReapHook, Fault
  <2>3. ASSUME Process PROVE faults = 0 /\ crashes = 0 /\ aborted \subseteq aborted'
    BY <2>3 DEF Process, BeginShutdown, DrainTimeout, Exit, Crash, Restart, Forget
  <2>4. CASE UNCHANGED vars
    BY <2>4 DEF vars
  <2> QED BY <2>1, <2>2, <2>3, <2>4 DEF Next
<1>1. row[k] = "running" => task[k] \in Holding \ {"starting"} \/ k \in aborted
  BY <1>0 DEF RunningHasWorker
<1> USE DEF TypeInv, TypeOK, rowVars, taskVars, Goto
<1>2. ASSUME NEW j \in Jobs, Enqueue(j) PROVE task'[k] \in Holding \ {"starting"} \/ k \in aborted'
  BY <1>0, <1>1, <1>2 DEF Enqueue, Insert, Spawn, Holding
<1>3. ASSUME NEW j \in Jobs, Worker(j) PROVE task'[k] \in Holding \ {"starting"} \/ k \in aborted'
  <2>1. CASE Acquire(j)
    BY <1>0, <1>1, <2>1 DEF Acquire, Holding
  <2>2. CASE Start(j)
    BY <1>0, <1>1, <2>2 DEF Start, Cas, End, Holding
  <2>3. CASE StartFault(j) \/ CommitFault(j)
    BY <1>0, <2>3 DEF StartFault, CommitFault, Fault
  <2>4. CASE Handler(j)
    BY <1>0, <1>1, <2>4 DEF Handler, Report, PollCancel, HandlerReturns, HandlerRaises, ToRescue, Holding
  <2>5. CASE Finalize(j)
    BY <1>0, <1>1, <2>5 DEF Finalize, Holding
  <2>6. CASE Commit(j)
    BY <1>0, <1>1, <2>6 DEF Commit, Cas, End, Terminal, Spc!Terminal
  <2>7. CASE Abort(j)
    <3>1. k = j => k \in aborted'
      BY <2>7 DEF Abort
    <3>2. k # j => row'[k] = row[k] /\ task'[k] = task[k]
      BY <2>7 DEF Abort, Cas, End, ToRescue
    <3> QED BY <1>0, <1>1, <3>1, <3>2
  <2> QED BY <1>3, <2>1, <2>2, <2>3, <2>4, <2>5, <2>6, <2>7 DEF Worker, Settle
<1>4. ASSUME NEW j \in Jobs, Ages(j) \/ Client(j) PROVE task'[k] \in Holding \ {"starting"} \/ k \in aborted'
  BY <1>0, <1>1, <1>4 DEF Ages, Client, CancelCheck, CancelWrite
<1>5. ASSUME Reaper PROVE task'[k] \in Holding \ {"starting"} \/ k \in aborted'
  BY <1>0, <1>1, <1>5 DEF Reaper, ReapList, ReapFault, ReapRow, ReapHook, MaybeCas, Cas
<1>6. ASSUME Process PROVE task'[k] \in Holding \ {"starting"} \/ k \in aborted'
  <2>1. CASE BeginShutdown
    BY <1>0, <1>1, <2>1 DEF BeginShutdown, Cas
  <2>2. CASE DrainTimeout \/ Restart
    BY <1>0, <1>1, <2>2 DEF DrainTimeout, Restart
  <2>3. CASE Exit
    BY <1>0, <1>1, <2>3 DEF Exit, Forget, Holding
  <2>4. CASE Crash
    BY <1>0, <2>4 DEF Crash
  <2> QED BY <1>6, <2>1, <2>2, <2>3, <2>4 DEF Process
<1>7. CASE UNCHANGED vars
  BY <1>0, <1>1, <1>7 DEF vars
<1> QED BY <1>2, <1>3, <1>4, <1>5, <1>6, <1>7 DEF Next

\* Without database errors and crashes no way out of a worker leaves its row running, whatever the
\* reaper, clients and shutdowns do meanwhile.
THEOREM RunningIsServed == Spec => []RunningHasWorker
<1>1. Init => RunningHasWorker
  BY DEF Init, RunningHasWorker
<1> QED BY <1>1, CommitInvariant, WorkerStep, PTL DEF Spec

\* A row the reaper won is failed until its hook was called.
WonFailed == \A j \in Jobs : sweep[j] = "won" => row[j] = "failed"

\* Without a stop the process is up.
Undisturbed == crashes = 0 /\ shutdowns = 0 => proc = "up"

LEMMA WonStep == TypeInv /\ WonFailed /\ [Next]_vars => WonFailed'
<1> SUFFICES ASSUME TypeInv, WonFailed, [Next]_vars, NEW k \in Jobs, sweep'[k] = "won"
             PROVE  row'[k] = "failed"
  BY DEF WonFailed
<1> USE DEF TypeInv, TypeOK
<1>1. row[k] = "failed" => row'[k] = "failed"
  BY RowStep DEF Spc!Next, Spc!Submit, Spc!Begin, Spc!Decide, Spc!Discard, Spc!Terminal
<1>2. CASE sweep[k] = "won"
  BY <1>1, <1>2 DEF WonFailed
<1>3. ASSUME sweep[k] # "won" PROVE row'[k] = "failed"
  <2>1. ASSUME NEW j \in Jobs, Enqueue(j) \/ Worker(j) \/ Ages(j) \/ Client(j) PROVE sweep' = sweep
    BY <2>1 DEF Enqueue, Insert, Spawn, Worker, Acquire, Start, StartFault, Handler, Report, PollCancel, HandlerReturns,
         HandlerRaises, Settle, Finalize, Commit, CommitFault, Abort, Ages, Client, CancelCheck, CancelWrite
  <2>2. ASSUME Reaper PROVE row'[k] = "failed"
    <3>1. CASE ReapList
      BY <1>3, <3>1 DEF ReapList, StaleActive
    <3>2. CASE ReapFault
      BY <1>3, <3>2 DEF ReapFault
    <3>3. ASSUME NEW j \in Jobs, ReapRow(j) PROVE row'[k] = "failed"
      BY <1>3, <3>3 DEF ReapRow, Cas
    <3>4. ASSUME NEW j \in Jobs, ReapHook(j) PROVE row'[k] = "failed"
      BY <1>3, <3>4 DEF ReapHook
    <3> QED BY <2>2, <3>1, <3>2, <3>3, <3>4 DEF Reaper
  <2>3. ASSUME Process PROVE row'[k] = "failed"
    BY <1>3, <2>3 DEF Process, BeginShutdown, DrainTimeout, Exit, Crash, Restart, Forget
  <2>4. CASE UNCHANGED vars
    BY <1>3, <2>4 DEF vars
  <2> QED BY <1>3, <2>1, <2>2, <2>3, <2>4 DEF Next
<1> QED BY <1>2, <1>3

LEMMA UndisturbedStep ==
  ASSUME TypeInv, Undisturbed, [Next]_vars, crashes' = 0, shutdowns' = 0
  PROVE  crashes = 0 /\ shutdowns = 0 /\ proc = "up" /\ proc' = "up"
<1> USE DEF TypeInv, TypeOK, counters, stops
<1>1. ASSUME NEW j \in Jobs, Enqueue(j) \/ Worker(j) \/ Ages(j) \/ Client(j)
      PROVE  proc' = proc /\ stops' = stops
  BY <1>1 DEF Enqueue, Insert, Spawn, Worker, Acquire, Start, StartFault, Handler, Report, PollCancel, HandlerReturns,
       HandlerRaises, Settle, Finalize, Commit, CommitFault, Abort, Ages, Client, CancelCheck, CancelWrite
<1>2. ASSUME Reaper PROVE proc' = proc /\ stops' = stops
  BY <1>2 DEF Reaper, ReapList, ReapFault, ReapRow, ReapHook
<1>3. CASE BeginShutdown \/ Crash
  BY <1>3 DEF BeginShutdown, Crash
<1>4. CASE DrainTimeout \/ Exit \/ Restart
  BY <1>4 DEF DrainTimeout, Exit, Restart, Forget, Undisturbed
<1>5. ASSUME UNCHANGED vars PROVE proc' = proc /\ stops' = stops
  BY <1>5 DEF vars
<1> QED BY <1>1, <1>2, <1>3, <1>4, <1>5 DEF Next, Process, Undisturbed

LEMMA HeardStep ==
  TypeInv /\ CommitInv /\ WonFailed /\ Undisturbed /\ HookHearsVerdict /\ [Next]_vars => HookHearsVerdict'
<1> SUFFICES ASSUME TypeInv, CommitInv, WonFailed, Undisturbed, HookHearsVerdict, [Next]_vars,
                    faults' = 0, crashes' = 0, shutdowns' = 0, NEW k \in Jobs, row'[k] \in Terminal
             PROVE  row'[k] \in hooked'[k] \/ sweep'[k] = "won"
  BY DEF HookHearsVerdict
<1>0. crashes = 0 /\ shutdowns = 0 /\ proc = "up" /\ proc' = "up"
  BY UndisturbedStep
<1> USE DEF TypeInv, TypeOK, rowVars
<1>t. Terminal = {"completed", "failed", "cancelled"}
  BY DEF Terminal, Spc!Terminal
<1>1. ASSUME faults = 0, row[k] \in Terminal PROVE row[k] \in hooked[k] \/ sweep[k] = "won"
  BY <1>0, <1>1 DEF HookHearsVerdict
<1>2. ASSUME NEW j \in Jobs, Enqueue(j) \/ Ages(j) \/ Client(j) PROVE row'[k] \in hooked'[k] \/ sweep'[k] = "won"
  BY <1>1, <1>2, <1>t DEF Enqueue, Insert, Spawn, Ages, Client, CancelCheck, CancelWrite, counters
<1>3. ASSUME NEW j \in Jobs, Worker(j) PROVE row'[k] \in hooked'[k] \/ sweep'[k] = "won"
  <2>1. CASE Acquire(j) \/ Handler(j)
    BY <1>1, <2>1 DEF Acquire, Handler, Report, PollCancel, HandlerReturns, HandlerRaises, counters
  <2>2. CASE Start(j)
    BY <1>1, <1>t, <2>2 DEF Start, Cas, counters
  <2>3. CASE StartFault(j) \/ CommitFault(j)
    BY <2>3 DEF StartFault, CommitFault, Fault
  <2>4. CASE Finalize(j)
    BY <1>1, <2>4 DEF Finalize, RunHook, counters
  <2>5. CASE Commit(j)
    BY <1>1, <2>5 DEF Commit, Cas, CommitInv, ToldInv, counters
  <2>6. CASE Abort(j)
    BY <1>0, <2>6 DEF Abort
  <2> QED BY <1>3, <2>1, <2>2, <2>3, <2>4, <2>5, <2>6 DEF Worker, Settle
<1>4. ASSUME Reaper PROVE row'[k] \in hooked'[k] \/ sweep'[k] = "won"
  <2>1. CASE ReapList
    BY <1>1, <2>1 DEF ReapList, ReaperIdle, counters
  <2>2. CASE ReapFault
    BY <2>2 DEF ReapFault, Fault
  <2>3. ASSUME NEW j \in Jobs, ReapRow(j) PROVE row'[k] \in hooked'[k] \/ sweep'[k] = "won"
    BY <1>1, <2>3 DEF ReapRow, Cas, counters
  <2>4. ASSUME NEW j \in Jobs, ReapHook(j) PROVE row'[k] \in hooked'[k] \/ sweep'[k] = "won"
    BY <1>1, <2>4 DEF ReapHook, WonFailed, counters
  <2> QED BY <1>4, <2>1, <2>2, <2>3, <2>4 DEF Reaper
<1>5. ASSUME Process PROVE row'[k] \in hooked'[k] \/ sweep'[k] = "won"
  BY <1>0, <1>5 DEF Process, BeginShutdown, DrainTimeout, Exit, Crash, Restart, Forget
<1>6. CASE UNCHANGED vars
  BY <1>1, <1>6 DEF vars, counters
<1> QED BY <1>2, <1>3, <1>4, <1>5, <1>6 DEF Next

\* While nothing stops or fails, worker and reaper between them tell the hook what the row says.
THEOREM HookHears == Spec => []HookHearsVerdict
<1>1. Init => WonFailed /\ Undisturbed /\ HookHearsVerdict
  BY DEF Init, WonFailed, Undisturbed, HookHearsVerdict, Terminal, Spc!Terminal
<1>2. TypeInv /\ Undisturbed /\ [Next]_vars => Undisturbed'
  BY UndisturbedStep DEF Undisturbed
<1> QED BY <1>1, <1>2, CommitInvariant, WonStep, HeardStep, PTL DEF Spec
=============================================================================
