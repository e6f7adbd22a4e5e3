------------------------ MODULE ProviderCallsProofs ------------------------
(***************************************************************************)
(* What ProviderCalls guarantees for any number of requests, tiles, slots  *)
(* and attempts: the slot is conserved, every prediction leaves its usage  *)
(* row, and the shutdown loses no row of a request that returned.          *)
(***************************************************************************)
EXTENDS ProviderCalls, OrderLemmas

-----------------------------------------------------------------------------
(* Types                                                                   *)

LEMMA TypeInit == Init => TypeOK
BY CapsAssumption DEF Init, TypeOK, RequestStates, Live

LEMMA CallsFinite == IsFiniteSet(Calls) /\ \A S \in SUBSET Calls : IsFiniteSet(S)
<1>1. IsFiniteSet(Requests)
  BY RequestsAssumption DEF Requests
<1>2. IsFiniteSet(1 .. MaxCalls)
  BY CapsAssumption, FS_Interval
<1>3. IsFiniteSet(Calls)
  BY <1>1, <1>2, FS_Product DEF Calls
<1> QED BY <1>3, FS_Subset

\* The slots a request holds are finitely many.
LEMMA HeldCount == \A r \in Requests : Cardinality(Held \cap Of(r)) \in Nat
<1> SUFFICES ASSUME NEW r \in Requests PROVE Cardinality(Held \cap Of(r)) \in Nat
  OBVIOUS
<1>1. Held \cap Of(r) \in SUBSET Calls
  BY DEF Of
<1> QED BY <1>1, CallsFinite, FS_CardinalityType

LEMMA TypeStep == TypeOK /\ [Next]_vars => TypeOK'
<1> SUFFICES ASSUME TypeOK, [Next]_vars PROVE TypeOK'
  OBVIOUS
<1> USE DEF TypeOK, call, usage, RequestStates, Live, Holding, Failures, Ended
<1>1. ASSUME NEW r \in Requests, Upscale(r) \/ RemoveBg(r) PROVE TypeOK'
  <2>1. ASSUME NEW n, Launch(r, n) PROVE TypeOK'
    BY <2>1 DEF Launch
  <2>2. CASE Rejected(r)
    BY <2>2 DEF Rejected
  <2> QED BY <1>1, <2>1, <2>2 DEF Upscale, RemoveBg
<1>2. ASSUME NEW r \in Requests, Handle(r) PROVE TypeOK'
  <2>1. CASE Outcome(r)
    BY <2>1 DEF Outcome
  <2>2. CASE Fail(r)
    BY <2>2 DEF Fail
  <2>3. CASE Cancel(r)
    <3>1. slots' \in Nat
      <4>1. Cardinality(Held \cap Of(r)) \in Nat
        BY HeldCount
      <4>2. slots' = slots + Cardinality(Held \cap Of(r))
        BY <2>3 DEF Cancel
      <4> QED BY <4>1, <4>2
    <3>2. pc' \in [Calls -> {"idle"} \cup Live \cup Ended]
      BY <2>3 DEF Cancel
    <3>3. attempt' \in [Calls -> Nat] /\ ahead' \in [Requests -> SUBSET Requests]
      BY <2>3 DEF Cancel
    <3> QED BY <2>3, <3>1, <3>2, <3>3 DEF Cancel
  <2> QED BY <1>2, <2>1, <2>2, <2>3 DEF Handle, Assemble, Deliver
<1>3. ASSUME NEW c \in Calls, Predict(c) PROVE TypeOK'
  <2> c[1] \in Requests
    BY DEF Calls
  <2>1. CASE Acquire(c)
    BY <2>1 DEF Acquire, Goto
  <2>2. CASE Create(c)
    BY <2>2 DEF Create, Goto
  <2>3. CASE Created(c)
    BY <2>3 DEF Created, Goto
  <2>4. CASE Throttled(c)
    <3>1. pc' \in [Calls -> {"idle"} \cup Live \cup Ended]
      BY <2>4 DEF Throttled, Goto, Release
    <3>2. slots' \in Nat /\ attempt' \in [Calls -> Nat]
      BY <2>4 DEF Throttled, Release
    <3> QED BY <2>4, <3>1, <3>2 DEF Throttled
  <2>5. CASE Wake(c)
    BY <2>5 DEF Wake, Goto
  <2>6. CASE Refused(c)
    BY <2>6 DEF Refused, Goto, Release
  <2>7. CASE Succeeded(c)
    BY <2>7 DEF Succeeded, Goto, Release, Log, Detach
  <2>8. CASE Bad(c)
    BY <2>8 DEF Bad, Goto, Release, Log, Detach
  <2>9. CASE TimedOut(c)
    BY <2>9 DEF TimedOut, Goto, Release, Log, Detach
  <2>10. CASE Fetch(c)
    BY <2>10 DEF Fetch, Goto
  <2> QED BY <1>3, <2>1, <2>2, <2>3, <2>4, <2>5, <2>6, <2>7, <2>8, <2>9, <2>10 DEF Predict
<1>4. ASSUME NEW c \in Calls, Insert(c) PROVE TypeOK'
  BY <1>4 DEF Insert
<1>5. CASE Stop
  BY <1>5 DEF Stop, Shutdown, Deadline, Drain, ClosePool
<1>6. CASE UNCHANGED vars
  BY <1>6 DEF vars
<1> QED BY <1>1, <1>2, <1>3, <1>4, <1>5, <1>6 DEF Next, Requests

\* Every state of the provider calls is well typed; the free slots never go below zero.
THEOREM TypeCorrect == Spec => []TypeOK
<1> QED BY TypeInit, TypeStep, PTL DEF Spec

-----------------------------------------------------------------------------
(* The slot                                                                *)

\* A call that moves into the slot takes one, one that moves out gives one back.
LEMMA HeldGrows ==
  ASSUME TypeOK, NEW c \in Calls, NEW s, pc' = [pc EXCEPT ![c] = s], c \notin Held, s \in Holding
  PROVE  Cardinality(Held') = Cardinality(Held) + 1
<1>1. Held' = Held \cup {c}
  BY DEF TypeOK, Held
<1>2. IsFiniteSet(Held)
  BY CallsFinite DEF Held
<1> QED BY <1>1, <1>2, FS_AddElement

LEMMA HeldShrinks ==
  ASSUME TypeOK, NEW c \in Calls, NEW s, pc' = [pc EXCEPT ![c] = s], c \in Held, s \notin Holding
  PROVE  Cardinality(Held') = Cardinality(Held) - 1
<1>1. Held' = Held \ {c}
  BY DEF TypeOK, Held
<1>2. IsFiniteSet(Held)
  BY CallsFinite DEF Held
<1> QED BY <1>1, <1>2, FS_RemoveElement

LEMMA HeldStays ==
  ASSUME TypeOK, NEW c \in Calls, NEW s, pc' = [pc EXCEPT ![c] = s], c \in Held <=> s \in Holding
  PROVE  Held' = Held
BY DEF TypeOK, Held

\* A cancelled request gives back exactly the slots its calls held.
LEMMA HeldCancelled ==
  ASSUME TypeOK, NEW r \in Requests, Cancel(r)
  PROVE  Cardinality(Held') = Cardinality(Held) - Cardinality(Held \cap Of(r))
<1>1. Held' = Held \ Of(r)
  BY DEF TypeOK, Held, Of, Cancel, Holding, Live
<1>2. IsFiniteSet(Held)
  BY CallsFinite DEF Held
<1> QED BY <1>1, <1>2, FS_Difference

\* The calls of a request that has not begun have not begun.
Untouched == \A c \in Calls : request[c[1]] = "idle" => pc[c] = "idle"

LEMMA UntouchedStep == TypeOK /\ Untouched /\ [Next]_vars => Untouched'
<1> SUFFICES ASSUME TypeOK, Untouched, [Next]_vars PROVE Untouched'
  OBVIOUS
<1> USE DEF TypeOK, Untouched, call, usage
<1>1. ASSUME NEW r \in Requests, Upscale(r) \/ RemoveBg(r) PROVE Untouched'
  <2>1. ASSUME NEW n, Launch(r, n) PROVE Untouched'
    BY <2>1 DEF Launch
  <2>2. CASE Rejected(r)
    BY <2>2 DEF Rejected
  <2> QED BY <1>1, <2>1, <2>2 DEF Upscale, RemoveBg
<1>2. ASSUME NEW r \in Requests, Handle(r) PROVE Untouched'
  <2>1. CASE Outcome(r) \/ Fail(r)
    BY <2>1 DEF Outcome, Fail, Calls
  <2>2. CASE Cancel(r)
    <3> SUFFICES ASSUME NEW d \in Calls, request'[d[1]] = "idle" PROVE pc'[d] = "idle"
      OBVIOUS
    <3>1. d[1] # r /\ request[d[1]] = "idle"
      BY <2>2 DEF Cancel, Calls
    <3> QED BY <2>2, <3>1 DEF Cancel
  <2> QED BY <1>2, <2>1, <2>2 DEF Handle, Assemble, Deliver
<1>3. ASSUME NEW c \in Calls, Predict(c) PROVE Untouched'
  <2> SUFFICES ASSUME NEW d \in Calls, request'[d[1]] = "idle" PROVE pc'[d] = "idle"
    OBVIOUS
  <2>1. request' = request /\ pc[c] # "idle"
    BY <1>3 DEF Predict, Acquire, Create, Created, Throttled, Wake, Refused, Succeeded, Bad, TimedOut, Fetch
  <2>2. \E s : pc' = [pc EXCEPT ![c] = s]
    BY <1>3 DEF Predict, Acquire, Create, Created, Throttled, Wake, Refused, Succeeded, Bad, TimedOut, Fetch,
                Goto, Release
  <2> QED BY <2>1, <2>2
<1>4. ASSUME NEW c \in Calls, Insert(c) PROVE Untouched'
  BY <1>4 DEF Insert
<1>5. CASE Stop
  BY <1>5 DEF Stop, Shutdown, Deadline, Drain, ClosePool
<1>6. CASE UNCHANGED vars
  BY <1>6 DEF vars
<1> QED BY <1>1, <1>2, <1>3, <1>4, <1>5, <1>6 DEF Next, Requests

LEMMA SlotsStep == TypeOK /\ Untouched /\ SlotsConserved /\ [Next]_vars => SlotsConserved'
<1> SUFFICES ASSUME TypeOK, Untouched, SlotsConserved, [Next]_vars PROVE SlotsConserved'
  OBVIOUS
<1> USE DEF SlotsConserved
<1> Cardinality(Held) \in Nat
  BY CallsFinite, FS_CardinalityType DEF Held
<1> Inflight \in Nat /\ slots \in Nat
  BY CapsAssumption DEF TypeOK
<1>1. ASSUME NEW r \in Requests, Upscale(r) \/ RemoveBg(r) PROVE SlotsConserved'
  <2>1. ASSUME NEW n, Launch(r, n), request[r] = "idle" PROVE Held' = Held /\ slots' = slots
    BY <2>1 DEF Launch, Untouched, Held, Holding, TypeOK
  <2>2. CASE Rejected(r)
    BY <2>2 DEF Rejected, call, Held
  <2> QED BY <1>1, <2>1, <2>2 DEF Upscale, RemoveBg
<1>2. ASSUME NEW r \in Requests, Handle(r) PROVE SlotsConserved'
  <2>1. CASE Outcome(r) \/ Fail(r)
    BY <2>1 DEF Outcome, Fail, call, Held
  <2>2. CASE Cancel(r)
    <3>1. slots' = slots + Cardinality(Held \cap Of(r))
      BY <2>2 DEF Cancel
    <3>2. Cardinality(Held') = Cardinality(Held) - Cardinality(Held \cap Of(r))
      BY <2>2, HeldCancelled
    <3>3. Cardinality(Held \cap Of(r)) \in Nat
      BY HeldCount
    <3> QED BY <3>1, <3>2, <3>3
  <2> QED BY <1>2, <2>1, <2>2 DEF Handle, Assemble, Deliver
<1>3. ASSUME NEW c \in Calls, Predict(c) PROVE SlotsConserved'
  <2>1. CASE Acquire(c)
    <3>1. pc' = [pc EXCEPT ![c] = "slotted"] /\ slots' = slots - 1 /\ c \notin Held
      BY <2>1 DEF Acquire, Goto, Held, Holding
    <3>2. "slotted" \in Holding
      BY DEF Holding
    <3>3. Cardinality(Held') = Cardinality(Held) + 1
      BY <3>1, <3>2, HeldGrows
    <3> QED BY <3>1, <3>3
  <2>2. ASSUME NEW s, Release(c, s), c \in Held, s \notin Holding PROVE SlotsConserved'
    <3>1. Cardinality(Held') = Cardinality(Held) - 1
      BY <2>2, HeldShrinks DEF Release, Goto
    <3>2. slots' = slots + 1
      BY <2>2 DEF Release
    <3> QED BY <3>1, <3>2
  <2>3. CASE Refused(c) \/ Succeeded(c) \/ Bad(c) \/ TimedOut(c)
    <3>1. c \in Held
      BY <2>3 DEF Refused, Succeeded, Bad, TimedOut, Held, Holding
    <3>2. Release(c, "refused") \/ Release(c, "fetching") \/ Release(c, "bad") \/ Release(c, "timed_out")
      BY <2>3 DEF Refused, Succeeded, Bad, TimedOut
    <3> QED BY <3>1, <3>2, <2>2 DEF Holding
  <2>4. ASSUME NEW s, Goto(c, s), slots' = slots, c \in Held <=> s \in Holding PROVE SlotsConserved'
    BY <2>4, HeldStays DEF Goto
  <2>5. CASE Throttled(c)
    <3>1. c \in Held
      BY <2>5 DEF Throttled, Held, Holding
    <3>2. Release(c, "throttled") \/ (Goto(c, "sleeping") /\ slots' = slots)
      BY <2>5 DEF Throttled
    <3> QED BY <3>1, <3>2, <2>2, <2>4 DEF Holding
  <2>6. CASE Create(c) \/ Created(c) \/ Wake(c)
    <3>1. c \in Held /\ slots' = slots
      BY <2>6 DEF Create, Created, Wake, Held, Holding
    <3>2. Goto(c, "creating") \/ Goto(c, "polling") \/ Goto(c, "slotted")
      BY <2>6 DEF Create, Created, Wake
    <3> QED BY <3>1, <3>2, <2>4 DEF Holding
  <2>7. CASE Fetch(c)
    <3>1. c \notin Held /\ slots' = slots
      BY <2>7 DEF Fetch, Held, Holding
    <3>2. Goto(c, "done") \/ Goto(c, "unfetched")
      BY <2>7 DEF Fetch
    <3> QED BY <3>1, <3>2, <2>4 DEF Holding
  <2> QED BY <1>3, <2>1, <2>3, <2>5, <2>6, <2>7 DEF Predict
<1>4. ASSUME NEW c \in Calls, Insert(c) PROVE SlotsConserved'
  BY <1>4 DEF Insert, call, Held
<1>5. CASE Stop
  BY <1>5 DEF Stop, Shutdown, Deadline, Drain, ClosePool, call, Held
<1>6. CASE UNCHANGED vars
  BY <1>6 DEF vars, call, Held
<1> QED BY <1>1, <1>2, <1>3, <1>4, <1>5, <1>6 DEF Next, Requests

LEMMA SlotsInit == Init => Untouched /\ SlotsConserved
<1> SUFFICES ASSUME Init PROVE Untouched /\ SlotsConserved
  OBVIOUS
<1>1. Held = {}
  BY DEF Init, Held, Holding
<1>2. slots = Inflight /\ Inflight \in Nat /\ Cardinality(Held) = 0
  BY <1>1, FS_EmptySet, CapsAssumption DEF Init
<1> QED BY <1>2 DEF Init, Untouched, SlotsConserved, Calls

\* The global slot is never lost and never handed out twice, for any number of requests, tiles,
\* permits and attempts, whichever way a call leaves it.
THEOREM SlotsKept == Spec => []SlotsConserved
<1> QED BY TypeInit, TypeStep, SlotsInit, UntouchedStep, SlotsStep, PTL DEF Spec

-----------------------------------------------------------------------------
(* The usage rows                                                          *)

\* A step that moves a call between states that call for the same rows and logs nothing.
LEMMA SameRows ==
  ASSUME TypeOK, OneRowPerPrediction, NEW c \in Calls, NEW s,
         pc' = [pc EXCEPT ![c] = s], logged' = logged,
         pc[c] # "cancelled", s # "cancelled", Expected(s) = Expected(pc[c])
  PROVE  OneRowPerPrediction'
BY DEF TypeOK, OneRowPerPrediction, Expected

\* A step that ends the polling of a call and logs the row its new state calls for.
LEMMA NewRow ==
  ASSUME TypeOK, OneRowPerPrediction, NEW c \in Calls, NEW s, NEW status, pc[c] = "polling",
         pc' = [pc EXCEPT ![c] = s], Log(c, status),
         (s = "fetching" /\ status = "success") \/ (s \in {"bad", "timed_out"} /\ status = "error")
  PROVE  OneRowPerPrediction'
<1>1. logged[c] = [success |-> 0, error |-> 0]
  BY DEF OneRowPerPrediction, Expected
<1>2. logged'[c] = Expected(s)
  <2>1. logged'[c] = [logged[c] EXCEPT ![status] = @ + 1]
    BY DEF Log, Detach, TypeOK
  <2>2. CASE status = "success"
    BY <1>1, <2>1, <2>2 DEF Expected
  <2>3. CASE status = "error"
    BY <1>1, <2>1, <2>3 DEF Expected
  <2> QED BY <2>2, <2>3
<1>3. \A d \in Calls : d # c => logged'[d] = logged[d] /\ pc'[d] = pc[d]
  BY DEF Log, Detach, TypeOK
<1>4. pc'[c] = s /\ s # "cancelled"
  BY DEF TypeOK
<1> QED BY <1>2, <1>3, <1>4 DEF OneRowPerPrediction, Expected

LEMMA RowsStep == TypeOK /\ Untouched /\ OneRowPerPrediction /\ [Next]_vars => OneRowPerPrediction'
<1> SUFFICES ASSUME TypeOK, Untouched, OneRowPerPrediction, [Next]_vars PROVE OneRowPerPrediction'
  OBVIOUS
<1> USE DEF call, usage
<1>1. ASSUME NEW r \in Requests, Upscale(r) \/ RemoveBg(r) PROVE OneRowPerPrediction'
  <2>1. ASSUME NEW n, Launch(r, n), request[r] = "idle" PROVE OneRowPerPrediction'
    BY <2>1 DEF Launch, Untouched, OneRowPerPrediction, Expected, TypeOK
  <2>2. CASE Rejected(r)
    BY <2>2 DEF Rejected, OneRowPerPrediction, Expected
  <2> QED BY <1>1, <2>1, <2>2 DEF Upscale, RemoveBg
<1>2. ASSUME NEW r \in Requests, Handle(r) PROVE OneRowPerPrediction'
  <2>1. CASE Outcome(r) \/ Fail(r)
    BY <2>1 DEF Outcome, Fail, OneRowPerPrediction, Expected
  <2>2. CASE Cancel(r)
    <3> SUFFICES ASSUME NEW d \in Calls
                 PROVE IF pc'[d] = "cancelled" THEN logged'[d] \in {Expected("idle"), Expected("fetching")}
                       ELSE logged'[d] = Expected(pc'[d])
      BY DEF OneRowPerPrediction, Expected
    <3>1. logged'[d] = logged[d]
      BY <2>2 DEF Cancel
    <3>2. CASE d[1] # r \/ pc[d] \notin Live
      BY <2>2, <3>1, <3>2 DEF Cancel, OneRowPerPrediction
    <3>3. CASE d[1] = r /\ pc[d] \in Live
      <4>1. logged[d] = Expected(pc[d])
        BY <3>3 DEF OneRowPerPrediction, Live
      <4>2. pc'[d] = IF pc[d] = "polling" THEN "abandoned" ELSE "cancelled"
        BY <2>2, <3>3 DEF Cancel
      <4> QED BY <3>1, <3>3, <4>1, <4>2 DEF Expected, Live
    <3> QED BY <3>2, <3>3
  <2> QED BY <1>2, <2>1, <2>2 DEF Handle, Assemble, Deliver
<1>3. ASSUME NEW c \in Calls, Predict(c) PROVE OneRowPerPrediction'
  <2>1. CASE Acquire(c) \/ Create(c) \/ Created(c) \/ Throttled(c) \/ Wake(c) \/ Refused(c)
    <3>1. pc[c] \in {"queued", "slotted", "creating", "sleeping"} /\ logged' = logged
      BY <2>1 DEF Acquire, Create, Created, Throttled, Wake, Refused
    <3>2. \/ Goto(c, "slotted") \/ Goto(c, "creating") \/ Goto(c, "polling")
          \/ Goto(c, "sleeping") \/ Goto(c, "throttled") \/ Goto(c, "refused")
      BY <2>1 DEF Acquire, Create, Created, Throttled, Wake, Refused, Release
    <3>3. ASSUME NEW s \in {"slotted", "creating", "polling", "sleeping", "throttled", "refused"}, Goto(c, s)
          PROVE  OneRowPerPrediction'
      <4>1. Expected(s) = Expected(pc[c]) /\ pc[c] # "cancelled" /\ s # "cancelled"
        BY <3>1, <3>3 DEF Expected
      <4> QED BY <3>1, <3>3, <4>1, SameRows DEF Goto
    <3> QED BY <3>2, <3>3
  <2>2. CASE Succeeded(c)
    BY <2>2, NewRow DEF Succeeded, Release, Goto
  <2>3. CASE Bad(c)
    BY <2>3, NewRow DEF Bad, Release, Goto
  <2>4. CASE TimedOut(c)
    BY <2>4, NewRow DEF TimedOut, Release, Goto
  <2>5. CASE Fetch(c)
    <3>1. ASSUME NEW s \in {"done", "unfetched"}, Goto(c, s) PROVE OneRowPerPrediction'
      <4>1. Expected(s) = Expected(pc[c]) /\ pc[c] # "cancelled" /\ s # "cancelled" /\ logged' = logged
        BY <2>5, <3>1 DEF Expected, Fetch
      <4> QED BY <3>1, <4>1, SameRows DEF Goto
    <3> QED BY <2>5, <3>1 DEF Fetch
  <2> QED BY <1>3, <2>1, <2>2, <2>3, <2>4, <2>5 DEF Predict
<1>4. ASSUME NEW c \in Calls, Insert(c) PROVE OneRowPerPrediction'
  BY <1>4 DEF Insert, OneRowPerPrediction, Expected
<1>5. CASE Stop
  BY <1>5 DEF Stop, Shutdown, Deadline, Drain, ClosePool, OneRowPerPrediction, Expected
<1>6. CASE UNCHANGED vars
  BY <1>6 DEF vars, OneRowPerPrediction, Expected
<1> QED BY <1>1, <1>2, <1>3, <1>4, <1>5, <1>6 DEF Next, Requests

LEMMA RowsInit == Init => OneRowPerPrediction
BY DEF Init, OneRowPerPrediction, Expected

\* Every prediction that ended under the client's eyes has exactly one usage row, with its outcome,
\* whatever became of its output, its siblings and its request.
THEOREM OneRow == Spec => []OneRowPerPrediction
<1> QED BY TypeInit, TypeStep, SlotsInit, UntouchedStep, RowsInit, RowsStep, PTL DEF Spec

-----------------------------------------------------------------------------
(* The shutdown and the rows                                               *)

Unwaited(c) == request[c[1]] \in {"failed", "cancelled"}
Unlogged == {"idle", "queued", "slotted", "creating", "sleeping", "polling"}

\* What makes the order of the shutdown sound: once the drain begins no request runs, so a row that
\* is still to come, or that the drain did not see, is one that nobody waits for.
RowOrder ==
  /\ \A c \in Calls : request[c[1]] = "ok" => pc[c] \in {"idle", "done"}
  /\ system \in {"draining", "closed"} => \A r \in Requests : request[r] # "running"
  /\ \A c \in Calls : pc[c] \in Unlogged => row[c] = "none"
  /\ \A c \in drained : row[c] # "none"
  /\ system \in {"draining", "closed"} =>
       \A c \in Calls : row[c] = "pending" => c \in drained \/ Unwaited(c)
  /\ system = "closed" => \A c \in drained : row[c] # "pending"
  /\ \A c \in Calls : row[c] = "late" => Unwaited(c)

\* A step of a call changes its place, and its row only when it ends the polling.
LEMMA PredictStep ==
  ASSUME TypeOK, NEW c \in Calls, Predict(c)
  PROVE  /\ request' = request /\ system' = system /\ drained' = drained
         /\ pc[c] \notin {"idle", "done"}
         /\ \A d \in Calls : d # c => pc'[d] = pc[d] /\ row'[d] = row[d]
         /\ \/ row'[c] = row[c] /\ (pc'[c] \in Unlogged => pc[c] \in Unlogged)
            \/ row'[c] = "pending" /\ pc[c] = "polling" /\ pc'[c] \notin Unlogged
<1> USE DEF TypeOK, call, usage, Unlogged, Goto, Release, Log, Detach
<1>1. CASE Acquire(c)
  BY <1>1 DEF Acquire
<1>2. CASE Create(c)
  BY <1>2 DEF Create
<1>3. CASE Created(c)
  BY <1>3 DEF Created
<1>4. CASE Throttled(c)
  BY <1>4 DEF Throttled
<1>5. CASE Wake(c)
  BY <1>5 DEF Wake
<1>6. CASE Refused(c)
  BY <1>6 DEF Refused
<1>7. CASE Succeeded(c)
  BY <1>7 DEF Succeeded
<1>8. CASE Bad(c)
  BY <1>8 DEF Bad
<1>9. CASE TimedOut(c)
  BY <1>9 DEF TimedOut
<1>10. CASE Fetch(c)
  BY <1>10 DEF Fetch
<1> QED BY <1>1, <1>2, <1>3, <1>4, <1>5, <1>6, <1>7, <1>8, <1>9, <1>10 DEF Predict

LEMMA OrderStep == TypeOK /\ Untouched /\ RowOrder /\ [Next]_vars => RowOrder'
<1> SUFFICES ASSUME TypeOK, Untouched, RowOrder, [Next]_vars PROVE RowOrder'
  OBVIOUS
<1> USE DEF call, usage
<1>0. \A c \in Calls : c[1] \in Requests
  BY DEF Calls
<1>1. ASSUME NEW r \in Requests, Upscale(r) \/ RemoveBg(r) PROVE RowOrder'
  <2>1. ASSUME NEW n, Launch(r, n), request[r] = "idle", Accepting PROVE RowOrder'
    <3>1. \A c \in Calls : IF c[1] = r THEN request'[c[1]] = "running" ELSE request'[c[1]] = request[c[1]]
      BY <2>1, <1>0 DEF Launch, TypeOK
    <3>2. \A c \in Calls : pc'[c] = pc[c] \/ (c[1] = r /\ pc'[c] = "queued" /\ pc[c] = "idle")
      BY <2>1 DEF Launch, Untouched
    <3>3. row' = row /\ drained' = drained /\ system' = system /\ system \notin {"draining", "closed"}
      BY <2>1 DEF Launch, Accepting
    <3>4. \A c \in Calls : c[1] = r => row[c] = "none"
      BY <2>1 DEF Untouched, RowOrder, Unlogged
    <3> QED BY <3>1, <3>2, <3>3, <3>4 DEF RowOrder, Unwaited, Unlogged, TypeOK
  <2>2. CASE Rejected(r) /\ request[r] = "idle" /\ Accepting
    <3>1. \A c \in Calls : IF c[1] = r THEN request'[c[1]] = "failed" ELSE request'[c[1]] = request[c[1]]
      BY <2>2, <1>0 DEF Rejected, TypeOK
    <3> QED BY <2>2, <3>1 DEF Rejected, Accepting, RowOrder, Unwaited, TypeOK
  <2> QED BY <1>1, <2>1, <2>2 DEF Upscale, RemoveBg
<1>2. ASSUME NEW r \in Requests, Handle(r) PROVE RowOrder'
  <2>1. ASSUME NEW s \in {"ok", "failed", "cancelled"}, request[r] = "running",
               request' = [request EXCEPT ![r] = s],
               s = "ok" => \A c \in Of(r) : pc[c] \in {"idle", "done"},
               \A c \in Calls : pc'[c] = pc[c] \/ (c[1] = r /\ s # "ok" /\ pc'[c] \notin Unlogged),
               row' = row, drained' = drained, system' = system
        PROVE  RowOrder'
    <3>1. \A c \in Calls : IF c[1] = r THEN request'[c[1]] = s ELSE request'[c[1]] = request[c[1]]
      BY <2>1, <1>0 DEF TypeOK
    <3>2. system \notin {"draining", "closed"}
      BY <2>1 DEF RowOrder
    <3>3. \A c \in Calls : request'[c[1]] = "ok" => pc'[c] \in {"idle", "done"}
      BY <2>1, <3>1 DEF RowOrder, Of
    <3>4. \A c \in Calls : row[c] = "late" => c[1] # r
      BY <2>1 DEF RowOrder, Unwaited
    <3> QED BY <2>1, <3>1, <3>2, <3>3, <3>4 DEF RowOrder, Unwaited
  <2>2. CASE Outcome(r)
    BY <2>1, <2>2 DEF Outcome
  <2>3. CASE Fail(r)
    BY <2>1, <2>3 DEF Fail
  <2>4. CASE Cancel(r)
    <3>1. \A c \in Calls : pc'[c] = pc[c] \/ (c[1] = r /\ pc'[c] \notin Unlogged)
      BY <2>4 DEF Cancel, Unlogged
    <3> QED BY <2>1, <2>4, <3>1 DEF Cancel
  <2> QED BY <1>2, <2>2, <2>3, <2>4 DEF Handle, Assemble, Deliver
<1>3. ASSUME NEW c \in Calls, Predict(c) PROVE RowOrder'
  <2>1. /\ request' = request /\ system' = system /\ drained' = drained
        /\ pc[c] \notin {"idle", "done"}
        /\ \A d \in Calls : d # c => pc'[d] = pc[d] /\ row'[d] = row[d]
    BY <1>3, PredictStep
  <2>2. \/ row'[c] = row[c] /\ (pc'[c] \in Unlogged => pc[c] \in Unlogged)
        \/ row'[c] = "pending" /\ pc[c] = "polling" /\ pc'[c] \notin Unlogged
    BY <1>3, PredictStep
  <2>3. request[c[1]] \notin {"ok", "idle"}
    BY <2>1 DEF RowOrder, Untouched
  <2>4. system \in {"draining", "closed"} => Unwaited(c)
    BY <2>3, <1>0 DEF RowOrder, Unwaited, TypeOK, RequestStates
  <2>5. pc[c] = "polling" => c \notin drained
    BY DEF RowOrder, Unlogged, TypeOK
  <2>6. \A d \in Calls : request[d[1]] = "ok" => pc'[d] \in {"idle", "done"}
    BY <2>1, <2>3 DEF RowOrder
  <2>7. \A d \in Calls : pc'[d] \in Unlogged => row'[d] = "none"
    BY <2>1, <2>2 DEF RowOrder
  <2>8. \A d \in drained : row'[d] # "none" /\ (system = "closed" => row'[d] # "pending")
    BY <2>1, <2>2, <2>5 DEF RowOrder, TypeOK
  <2>9. \A d \in Calls : row'[d] = "late" => Unwaited(d)
    BY <2>1, <2>2 DEF RowOrder
  <2>10. system \in {"draining", "closed"} =>
           \A d \in Calls : row'[d] = "pending" => d \in drained \/ Unwaited(d)
    BY <2>1, <2>2, <2>4 DEF RowOrder
  <2>11. \A d \in Calls : Unwaited(d)' <=> Unwaited(d)
    BY <2>1 DEF Unwaited
  <2> QED BY <2>1, <2>6, <2>7, <2>8, <2>9, <2>10, <2>11 DEF RowOrder
<1>4. ASSUME NEW c \in Calls, Insert(c) PROVE RowOrder'
  <2>1. /\ request' = request /\ system' = system /\ drained' = drained /\ pc' = pc
        /\ row[c] = "pending"
        /\ \A d \in Calls : d # c => row'[d] = row[d]
        /\ row'[c] = IF system = "closed" THEN "late" ELSE "settled"
    BY <1>4 DEF Insert, TypeOK
  <2>2. system = "closed" => Unwaited(c)
    BY <2>1 DEF RowOrder
  <2> QED BY <2>1, <2>2 DEF RowOrder, Unwaited, TypeOK
<1>5. CASE Stop
  BY <1>5 DEF Stop, Shutdown, Deadline, Drain, ClosePool, RowOrder, Unwaited
<1>6. CASE UNCHANGED vars
  BY <1>6 DEF vars, RowOrder, Unwaited
<1> QED BY <1>1, <1>2, <1>3, <1>4, <1>5, <1>6 DEF Next, Requests

LEMMA OrderInit == Init => RowOrder
BY DEF Init, RowOrder, Unwaited

LEMMA OrderImplies == RowOrder => ResultsKeepTheirRows
BY DEF RowOrder, ResultsKeepTheirRows, Unwaited

\* The order of the shutdown loses no usage row of a request that returned its result: a row that
\* is written too late belongs to a request that failed or was cancelled.
THEOREM RowsKept == Spec => []ResultsKeepTheirRows
<1> QED BY TypeInit, TypeStep, SlotsInit, UntouchedStep, OrderInit, OrderStep, OrderImplies, PTL DEF Spec

-----------------------------------------------------------------------------
(* The tile plan                                                           *)

\* What the constants of upscale_core.py and tile_upscale.py satisfy (6 tiles, an overlap of 32
\* pixels, a cap of 2,096,704): the search of the tile count ends before its bound, a tile of an
\* image at the gate is wider than the overlap, and the overlap is a small part of a tile.
AmplePixels ==
  /\ MaxTiles <= 32
  /\ 4 * (MaxTiles * ((2 * Overlap + 1) * (2 * Overlap + 1))) <= PixelCap
  /\ (2 * MaxTiles * Overlap) * (2 * MaxTiles * Overlap) <= PixelCap

LEMMA Monotone == \A a, b \in Int : \A c \in Nat : a <= b => c * a <= c * b
OBVIOUS

\* A number is less than another whose square is greater.
LEMMA SquareTells == \A a, b \in Nat : a * a < b * b => a < b
OBVIOUS

LEMMA Divided ==
  ASSUME NEW a \in Nat, NEW n \in Nat \ {0}
  PROVE  /\ a \div n \in Nat /\ a % n \in 0 .. (n - 1)
         /\ a = n * (a \div n) + (a % n)
OBVIOUS

LEMMA CeilDivBound ==
  ASSUME NEW a \in Nat, NEW n \in Nat \ {0}
  PROVE  /\ CeilDiv(a, n) \in Nat
         /\ a <= n * CeilDiv(a, n) /\ n * CeilDiv(a, n) <= a + n - 1
<1> DEFINE x == a + n - 1
<1>1. x \in Nat
  OBVIOUS
<1>2. /\ x \div n \in Nat /\ x % n \in 0 .. (n - 1)
      /\ x = n * (x \div n) + (x % n)
  <2> HIDE DEF x
  <2> QED BY <1>1, Divided
<1>3. CeilDiv(a, n) = x \div n
  BY DEF CeilDiv
<1>4. n * (x \div n) \in Nat
  BY <1>2
<1> QED BY <1>2, <1>3, <1>4

\* The short side with its overlap is a small part of the cap.
LEMMA ShortSide ==
  ASSUME AmplePixels, NEW L \in Nat \ {0}, NEW S \in Nat \ {0}, S <= L,
         L * S <= MaxTiles * PixelCap
  PROVE  2 * (S * (2 * Overlap + 1)) <= PixelCap
<1> DEFINE W == PixelCap
           M == MaxTiles
           T == 2 * Overlap + 1
           X == S * T
<1>1. W \in Nat /\ M \in Nat /\ T \in Nat /\ X \in Nat
  BY CapsAssumption
<1>2. 4 * (M * (T * T)) <= W
  BY DEF AmplePixels
<1>3. S * S <= M * W
  <2>1. S * S <= S * L
    BY Monotone
  <2> QED BY <1>1, <2>1
<1> HIDE DEF W, M, T
<1>4. 4 * (X * X) <= W * W
  <2>1. X * X = (T * T) * (S * S)
    BY <1>1
  <2>2. (T * T) * (S * S) <= (T * T) * (M * W)
    <3>1. T * T \in Nat /\ S * S \in Nat /\ M * W \in Nat
      BY <1>1
    <3> QED BY <1>3, <3>1, Monotone
  <2>3. 4 * ((T * T) * (M * W)) = W * (4 * (M * (T * T)))
    BY <1>1
  <2>4. W * (4 * (M * (T * T))) <= W * W
    <3>1. 4 * (M * (T * T)) \in Nat
      BY <1>1
    <3> QED BY <1>1, <1>2, <3>1, Monotone
  <2>5. (T * T) * (M * W) \in Nat /\ W * W \in Nat /\ X * X \in Nat
    BY <1>1
  <2> QED BY <2>1, <2>2, <2>3, <2>4, <2>5
<1>5. ~(W < 2 * X)
  <2> HIDE DEF X
  <2> SUFFICES ASSUME W < 2 * X PROVE FALSE
    OBVIOUS
  <2>1. W * W < (2 * X) * (2 * X)
    BY <1>1
  <2> QED BY <1>1, <1>4, <2>1
<1> QED BY <1>1, <1>5 DEF W, T

\* An image at the gate gets a count of tiles that fits, in the bound of the search.
LEMMA CountFits ==
  ASSUME AmplePixels, NEW s \in (Nat \ {0}) \X (Nat \ {0}), Required(s) <= MaxTiles,
         PixelCap < Pixels(s)
  PROVE  /\ TileCount(s) \in 1 .. 2 * MaxTiles
         /\ (CeilDiv(Long(s), TileCount(s)) + 2 * Overlap) * Short(s) <= PixelCap
<1> DEFINE W == PixelCap
           M == MaxTiles
           n == 2 * M
           L == Long(s)
           S == Short(s)
           q == CeilDiv(L, n)
           Y == (q + 2 * Overlap) * S
           fit == {k \in Required(s) .. 64 : (CeilDiv(L, k) + 2 * Overlap) * S <= W}
<1>1. W \in Nat \ {0} /\ M \in Nat \ {0} /\ Overlap \in Nat
  BY CapsAssumption
<1>2. L \in Nat \ {0} /\ S \in Nat \ {0} /\ S <= L /\ Pixels(s) = L * S /\ Pixels(s) \in Nat
  <2>1. s[1] \in Nat \ {0} /\ s[2] \in Nat \ {0}
    OBVIOUS
  <2>2. s[1] * s[2] = s[2] * s[1] /\ s[1] * s[2] \in Nat
    BY <2>1
  <2> QED BY <2>1, <2>2 DEF Long, Short, Larger, Smaller, Pixels
<1>3. /\ Required(s) \in Nat /\ Pixels(s) <= W * Required(s)
  BY <1>1, <1>2, CeilDivBound DEF Required
<1>4. Required(s) # 0
  BY <1>1, <1>2, <1>3
<1> HIDE DEF W, M, L, S
<1>5. L * S <= M * W
  <2>1. W * Required(s) <= W * M
    BY <1>1, <1>3, Monotone DEF M
  <2>2. W * M = M * W /\ W * M \in Nat /\ W * Required(s) \in Nat
    BY <1>1, <1>3
  <2> QED BY <1>2, <1>3, <2>1, <2>2
<1>6. 2 * (S * (2 * Overlap + 1)) <= W
  BY <1>2, <1>5, ShortSide DEF M, W
<1>7. q \in Nat /\ n * q <= L + n - 1 /\ n \in Nat \ {0}
  <2>1. n \in Nat \ {0}
    BY <1>1
  <2> QED BY <1>2, <2>1, CeilDivBound
<1>8. Y <= W
  <2>1. S * (n * q) <= S * (L + n - 1)
    BY <1>2, <1>7, Monotone
  <2>2. n * Y = S * (n * q) + n * ((2 * Overlap) * S)
    BY <1>1, <1>2, <1>7
  <2>3. S * (L + n - 1) = L * S + n * S - S
    BY <1>2, <1>7
  <2>4. n * ((2 * Overlap) * S) + n * S = M * (2 * (S * (2 * Overlap + 1)))
    BY <1>1, <1>2
  <2>5. M * (2 * (S * (2 * Overlap + 1))) <= M * W
    <3>1. 2 * (S * (2 * Overlap + 1)) \in Nat
      BY <1>1, <1>2
    <3> QED BY <1>1, <1>6, <3>1, Monotone
  <2>6. n * W = M * W + M * W
    BY <1>1
  <2>7. n * Y <= n * W
    <3>1. /\ n * Y \in Int /\ S * (n * q) \in Int /\ n * ((2 * Overlap) * S) \in Int
          /\ L * S \in Int /\ n * S \in Int /\ M * W \in Int /\ n * W \in Int
          /\ S * (L + n - 1) \in Int /\ M * (2 * (S * (2 * Overlap + 1))) \in Int
      BY <1>1, <1>2, <1>7
    <3> HIDE DEF n, Y, q
    <3> QED BY <1>2, <1>5, <2>1, <2>2, <2>3, <2>4, <2>5, <2>6, <3>1
  <2>8. Y \in Int
    BY <1>1, <1>2, <1>7
  <2> HIDE DEF n, Y, q
  <2> QED BY <1>1, <1>7, <2>7, <2>8
<1>9. n \in fit
  <2>1. n <= 64 /\ Required(s) <= n
    BY <1>1, <1>3 DEF AmplePixels, M
  <2> QED BY <1>3, <1>7, <1>8, <2>1
<1>10. Least(fit) \in fit /\ Least(fit) <= n
  <2>1. fit \in SUBSET Int /\ fit \in SUBSET (Required(s) .. 64)
    BY <1>3
  <2>2. IsFiniteSet(fit)
    <3>1. IsFiniteSet(Required(s) .. 64)
      BY <1>3, FS_Interval
    <3> HIDE DEF fit
    <3> QED BY <2>1, <3>1, FS_Subset
  <2> HIDE DEF fit, n
  <2>3. \E k \in fit : \A m \in fit : k <= m
    BY <1>9, <2>1, <2>2, LeastExists
  <2> QED BY <1>9, <2>3 DEF Least
<1>11. TileCount(s) = Least(fit)
  <2>1. ~(Pixels(s) <= PixelCap)
    BY <1>1, <1>2 DEF W
  <2> QED BY <1>9, <2>1 DEF TileCount, L, S, W
<1> HIDE DEF fit
<1>12. Least(fit) \in Required(s) .. 64 /\ (CeilDiv(L, Least(fit)) + 2 * Overlap) * S <= W
  BY <1>10 DEF fit
<1> QED BY <1>3, <1>4, <1>10, <1>11, <1>12 DEF L, S, W, M

\* Where the core of a tile begins.
From(L, n, i) == (i - 1) * (L \div n) + Smaller(i - 1, L % n)

\* Cores follow each other from one end of the side to the other, and are of about one width.
LEMMA CoresShare ==
  ASSUME NEW L \in Nat \ {0}, NEW n \in Nat \ {0}
  PROVE  /\ From(L, n, 1) = 0 /\ From(L, n, n + 1) = L
         /\ \A i \in 1 .. n : /\ From(L, n, i) \in Nat /\ From(L, n, i + 1) \in Nat
                              /\ From(L, n, i + 1) - From(L, n, i) <= CeilDiv(L, n)
         /\ \A i \in 1 .. (n - 1) : /\ L \div n <= From(L, n, i + 1)
                                    /\ L \div n <= L - From(L, n, i + 1)
<1> DEFINE base == L \div n
           extra == L % n
           q == CeilDiv(L, n)
<1>1. base \in Nat /\ extra \in 0 .. (n - 1) /\ L = n * base + extra
  BY Divided
<1>2. q \in Nat /\ L <= n * q
  BY CeilDivBound
<1> HIDE DEF base, extra, q
<1>3. base <= q /\ (extra > 0 => base + 1 <= q)
  <2>1. ASSUME q < base PROVE FALSE
    <3>1. n * (q + 1) <= n * base
      BY <1>1, <1>2, <2>1, Monotone
    <3>2. n * (q + 1) = n * q + n /\ n * q \in Nat /\ n * base \in Nat
      BY <1>1, <1>2
    <3> QED BY <1>1, <1>2, <3>1, <3>2
  <2>2. ASSUME extra > 0, q = base PROVE FALSE
    <3>1. n * base \in Nat
      BY <1>1
    <3> QED BY <1>1, <1>2, <2>2, <3>1
  <2> QED BY <1>1, <1>2, <2>1, <2>2
<1>4. \A i : From(L, n, i) = (i - 1) * base + Smaller(i - 1, extra)
  BY DEF From, base, extra
<1>5. From(L, n, 1) = 0
  <2>1. (1 - 1) * base = 0
    BY <1>1
  <2> QED BY <1>1, <1>4, <2>1 DEF Smaller
<1>6. From(L, n, n + 1) = L
  <2>1. (n + 1) - 1 = n
    OBVIOUS
  <2> QED BY <1>1, <1>4, <2>1 DEF Smaller
<1>7. ASSUME NEW i \in 1 .. n
      PROVE  /\ From(L, n, i) \in Nat /\ From(L, n, i + 1) \in Nat
             /\ From(L, n, i + 1) - From(L, n, i) <= q
  <2>1. (i - 1) * base \in Nat /\ i * base = (i - 1) * base + base
    BY <1>1
  <2>2. Smaller(i - 1, extra) \in Nat /\ Smaller(i, extra) \in Nat
        /\ Smaller(i, extra) <= Smaller(i - 1, extra) + (IF extra > 0 THEN 1 ELSE 0)
    BY <1>1 DEF Smaller
  <2>3. From(L, n, i + 1) = i * base + Smaller(i, extra)
    <3>1. (i + 1) - 1 = i
      OBVIOUS
    <3> QED BY <1>4, <3>1
  <2>4. From(L, n, i) = (i - 1) * base + Smaller(i - 1, extra)
    BY <1>4
  <2> QED BY <1>1, <1>2, <1>3, <2>1, <2>2, <2>3, <2>4
<1>8. ASSUME NEW i \in 1 .. (n - 1)
      PROVE  base <= From(L, n, i + 1) /\ base <= L - From(L, n, i + 1)
  <2>1. From(L, n, i + 1) = i * base + Smaller(i, extra)
    <3>1. (i + 1) - 1 = i
      OBVIOUS
    <3> QED BY <1>4, <3>1
  <2>2. Smaller(i, extra) \in 0 .. extra
    BY <1>1 DEF Smaller
  <2>3. base * 1 <= base * i /\ base * (i + 1) <= base * n
    BY <1>1, Monotone
  <2>4. /\ base * 1 = base /\ base * i = i * base /\ base * (i + 1) = i * base + base
        /\ base * n = n * base /\ i * base \in Nat /\ n * base \in Nat
    BY <1>1
  <2> QED BY <1>1, <2>1, <2>2, <2>3, <2>4
<1> QED BY <1>5, <1>6, <1>7, <1>8 DEF base, q

LEMMA LayoutIs ==
  ASSUME NEW s, NEW n, n = TileCount(s)
  PROVE  TileLayout(s) =
           [i \in 1 .. n |->
              [first |-> Larger(0, From(Long(s), n, i) - (IF i = 1 THEN 0 ELSE Overlap)),
               last |-> Smaller(Long(s), From(Long(s), n, i + 1) + (IF i = n THEN 0 ELSE Overlap)),
               coreFirst |-> From(Long(s), n, i), coreLast |-> From(Long(s), n, i + 1)]]
BY DEF TileLayout, From

\* The tiles of one image.
Covered(s) ==
  LET t == TileLayout(s)
      n == Len(t)
  IN /\ \A i \in 1 .. n : (t[i].last - t[i].first) * Short(s) <= PixelCap
     /\ t[1].first = 0 /\ t[1].coreFirst = 0
     /\ t[n].last = Long(s) /\ t[n].coreLast = Long(s)
     /\ \A i \in 1 .. (n - 1) :
          /\ t[i].coreLast = t[i + 1].coreFirst
          /\ t[i].last - t[i + 1].first >= Smaller(2 * Overlap, Long(s))

LEMMA TilesCover ==
  ASSUME AmplePixels, NEW s \in (Nat \ {0}) \X (Nat \ {0}), Required(s) <= MaxTiles
  PROVE  Covered(s)
<1> DEFINE L == Long(s)
           S == Short(s)
           n == TileCount(s)
           q == CeilDiv(L, n)
           t == TileLayout(s)
           O == Overlap
<1>1. PixelCap \in Nat \ {0} /\ MaxTiles \in Nat \ {0} /\ O \in Nat
  BY CapsAssumption
<1>2. L \in Nat \ {0} /\ S \in Nat \ {0} /\ S <= L /\ Pixels(s) = L * S /\ Pixels(s) \in Nat
  <2>1. s[1] \in Nat \ {0} /\ s[2] \in Nat \ {0}
    OBVIOUS
  <2>2. s[1] * s[2] = s[2] * s[1] /\ s[1] * s[2] \in Nat
    BY <2>1
  <2> QED BY <2>1, <2>2 DEF Long, Short, Larger, Smaller, Pixels
<1>3. /\ n \in Nat \ {0}
      /\ n = 1 => L * S <= PixelCap \/ (q + 2 * O) * S <= PixelCap
      /\ n # 1 => (q + 2 * O) * S <= PixelCap /\ n <= 2 * MaxTiles /\ PixelCap < L * S
  <2>1. CASE PixelCap < Pixels(s)
    BY <1>1, <1>2, <2>1, CountFits
  <2>2. CASE ~(PixelCap < Pixels(s))
    <3>1. n = 1 /\ L * S <= PixelCap
      BY <1>1, <1>2, <2>2 DEF TileCount
    <3> QED BY <3>1
  <2> QED BY <2>1, <2>2
<1>4. t = [i \in 1 .. n |->
             [first |-> Larger(0, From(L, n, i) - (IF i = 1 THEN 0 ELSE O)),
              last |-> Smaller(L, From(L, n, i + 1) + (IF i = n THEN 0 ELSE O)),
              coreFirst |-> From(L, n, i), coreLast |-> From(L, n, i + 1)]]
  BY LayoutIs
<1> HIDE DEF L, S, n, q, t, O
<1>5. \A i \in 1 .. n :
        /\ t[i].first = Larger(0, From(L, n, i) - (IF i = 1 THEN 0 ELSE O))
        /\ t[i].last = Smaller(L, From(L, n, i + 1) + (IF i = n THEN 0 ELSE O))
        /\ t[i].coreFirst = From(L, n, i) /\ t[i].coreLast = From(L, n, i + 1)
  BY <1>4
<1>6. /\ From(L, n, 1) = 0 /\ From(L, n, n + 1) = L
      /\ \A i \in 1 .. n : /\ From(L, n, i) \in Nat /\ From(L, n, i + 1) \in Nat
                           /\ From(L, n, i + 1) - From(L, n, i) <= q
      /\ \A i \in 1 .. (n - 1) : /\ L \div n <= From(L, n, i + 1)
                                 /\ L \div n <= L - From(L, n, i + 1)
  BY <1>2, <1>3, CoresShare DEF q
<1>7. q \in Nat /\ L <= n * q
  BY <1>2, <1>3, CeilDivBound DEF q
<1>8. Len(t) = n
  <2> DEFINE E == [first : Int, last : Int, coreFirst : Int, coreLast : Int]
  <2>1. \A i \in 1 .. n : /\ Larger(0, From(L, n, i) - (IF i = 1 THEN 0 ELSE O)) \in Int
                         /\ Smaller(L, From(L, n, i + 1) + (IF i = n THEN 0 ELSE O)) \in Int
    BY <1>1, <1>2, <1>6 DEF Larger, Smaller
  <2>2. t \in [1 .. n -> E]
    BY <1>4, <1>6, <2>1
  <2>3. t \in Seq(E)
    <3> HIDE DEF E
    <3> QED BY <1>3, <2>2
  <2> HIDE DEF E
  <2> QED BY <1>3, <2>2, <2>3
<1>9. n # 1 => O <= L \div n
  <2> SUFFICES ASSUME n # 1, L \div n < O PROVE FALSE
    BY <1>1, <1>2, <1>3, Divided
  <2> DEFINE Z == 2 * MaxTiles * O
  <2>1. L \div n \in Nat /\ L % n \in 0 .. (n - 1) /\ L = n * (L \div n) + (L % n)
    BY <1>2, <1>3, Divided
  <2>2. n * (L \div n + 1) <= n * O
    BY <1>1, <1>3, <2>1, Monotone
  <2>3. n * (L \div n + 1) = n * (L \div n) + n /\ n * (L \div n) \in Nat /\ n * O \in Nat
    BY <1>1, <1>3, <2>1
  <2>4. L < n * O
    BY <1>2, <1>3, <2>1, <2>2, <2>3
  <2>5. n * O <= Z
    <3>1. O * n <= O * (2 * MaxTiles)
      BY <1>1, <1>3, Monotone
    <3>2. O * n = n * O /\ O * (2 * MaxTiles) = Z
      BY <1>1, <1>3
    <3> QED BY <3>1, <3>2
  <2>6. Z * Z <= PixelCap /\ Z \in Nat
    BY <1>1 DEF AmplePixels, O
  <2>7. L * S <= L * L
    BY <1>2, Monotone
  <2>8. Z * Z < L * L
    <3>1. Z * Z \in Nat /\ L * S \in Nat /\ L * L \in Nat
      BY <1>2, <2>6
    <3> QED BY <1>1, <1>3, <2>6, <2>7, <3>1
  <2>9. Z < L
    BY <1>2, <2>6, <2>8, SquareTells
  <2> HIDE DEF Z
  <2> QED BY <1>2, <2>3, <2>4, <2>5, <2>6, <2>9
<1>10. ASSUME NEW i \in 1 .. n
       PROVE  (t[i].last - t[i].first) * S <= PixelCap
  <2>1. /\ t[i].last - t[i].first <= q + 2 * O /\ t[i].last - t[i].first \in Int
        /\ n = 1 => t[i].last - t[i].first = L
    <3>1. /\ From(L, n, i) \in Nat /\ From(L, n, i + 1) \in Nat
          /\ From(L, n, i + 1) - From(L, n, i) <= q
      BY <1>6
    <3>2. t[i].first \in Int /\ From(L, n, i) - O <= t[i].first
      BY <1>1, <1>5, <3>1 DEF Larger
    <3>3. t[i].last \in Int /\ t[i].last <= From(L, n, i + 1) + O
      BY <1>1, <1>2, <1>5, <3>1 DEF Smaller
    <3>4. n = 1 => t[i].first = 0 /\ t[i].last = L
      BY <1>2, <1>5, <1>6 DEF Larger, Smaller
    <3> QED BY <1>1, <1>2, <1>7, <3>1, <3>2, <3>3, <3>4
  <2>2. S * (t[i].last - t[i].first) <= S * (q + 2 * O)
    BY <1>1, <1>2, <1>7, <2>1, Monotone
  <2>3. /\ S * (t[i].last - t[i].first) = (t[i].last - t[i].first) * S
        /\ S * (q + 2 * O) = (q + 2 * O) * S
        /\ (t[i].last - t[i].first) * S \in Int /\ (q + 2 * O) * S \in Int
    BY <1>1, <1>2, <1>7, <2>1
  <2> QED BY <1>1, <1>3, <2>1, <2>2, <2>3
<1>11. t[1].first = 0 /\ t[1].coreFirst = 0 /\ t[n].last = L /\ t[n].coreLast = L
  BY <1>1, <1>2, <1>3, <1>5, <1>6 DEF Larger, Smaller
<1>12. ASSUME NEW i \in 1 .. (n - 1)
       PROVE  /\ t[i].coreLast = t[i + 1].coreFirst
              /\ t[i].last - t[i + 1].first >= Smaller(2 * O, L)
  <2>1. i \in 1 .. n /\ i + 1 \in 1 .. n /\ i # n /\ i + 1 # 1 /\ n # 1
    BY <1>3
  <2>2. From(L, n, i + 1) \in Nat /\ O <= From(L, n, i + 1) /\ O <= L - From(L, n, i + 1)
    <3>1. L \div n \in Nat
      BY <1>2, <1>3, Divided
    <3> QED BY <1>1, <1>2, <1>6, <1>9, <2>1, <3>1
  <2>3. t[i].last = From(L, n, i + 1) + O /\ t[i + 1].first = From(L, n, i + 1) - O
    BY <1>1, <1>2, <1>5, <2>1, <2>2 DEF Larger, Smaller
  <2>4. t[i].last - t[i + 1].first = 2 * O
    BY <1>1, <2>2, <2>3
  <2> QED BY <1>1, <1>2, <1>5, <2>1, <2>4 DEF Smaller
<1> QED BY <1>8, <1>10, <1>11, <1>12 DEF Covered, L, S, t, O

\* The tiles of every upscale request cover its image, within the cap and with the whole overlap,
\* for every image the gate lets through and every plan of the code's constants
\* (tile_upscale.py's compute_tile_count and compute_tile_layout).
THEOREM TilesAlwaysCover == ASSUME AmplePixels PROVE Spec => []TilesCoverImage
<1>1. TypeOK => TilesCoverImage
  <2> SUFFICES ASSUME TypeOK, NEW r \in Upscales, Required(size[r]) <= MaxTiles
               PROVE  Covered(size[r])
    BY DEF TilesCoverImage, Covered
  <2>1. size[r] \in (Nat \ {0}) \X (Nat \ {0})
    BY SizesAssumption DEF TypeOK
  <2> QED BY <2>1, TilesCover
<1> QED BY <1>1, TypeInit, TypeStep, PTL DEF Spec
=============================================================================
