---------------------------- MODULE ProviderCalls ----------------------------
(***************************************************************************)
(* The calls this service makes to Replicate: remove-background and        *)
(* upscale requests, the latter cut into tiles when the image exceeds the  *)
(* model's pixel cap; the process-wide slot around each prediction; the    *)
(* retry of a throttled create; the usage row that each prediction leaves  *)
(* in the background; and the shutdown that waits for those rows.          *)
(*                                                                         *)
(* Time is not measured: a wait may end at any moment, and a timeout may   *)
(* strike whenever the code waits under one.                               *)
(***************************************************************************)
EXTENDS Integers, Sequences, FiniteSets

CONSTANTS Upscales,   \* upscale requests
          RemoveBgs,  \* remove-background requests
          Inflight,   \* REPLICATE_GLOBAL_INFLIGHT
          CreateCap,  \* TILE_CONCURRENCY
          Attempts,   \* max_attempts of a single call
          TileAttempts, \* TILE_RETRY_MAX_ATTEMPTS
          Sizes,      \* source images, <<width, height>>
          PixelCap,   \* max_input_pixels of the model
          Overlap,    \* TILE_OVERLAP_INPUT_PX
          MaxTiles,   \* TILE_MAX_COUNT
          MaxCalls    \* bound: images of more tiles are planned but not launched

ASSUME RequestsAssumption == Upscales \cap RemoveBgs = {} /\ IsFiniteSet(Upscales \cup RemoveBgs)
ASSUME CapsAssumption ==
  /\ {Inflight, CreateCap, Attempts, TileAttempts, PixelCap, MaxTiles, MaxCalls} \subseteq Nat \ {0}
  /\ Overlap \in Nat
ASSUME SizesAssumption == Sizes \subseteq (Nat \ {0}) \X (Nat \ {0})

Requests == Upscales \cup RemoveBgs
Calls == Requests \X (1 .. MaxCalls)

VARIABLES
  request,  \* where each request stands
  size,     \* the source image of an upscale request
  pc,       \* where each prediction call stands, or how it ended
  attempt,  \* attempts of create_with_429_retry, 0 outside it
  ahead,    \* the requests whose calls a request's calls queued up behind
  slots,    \* free slots of the global semaphore
  logged,   \* usage rows scheduled for a call: successes and errors
  row,      \* the insert task of the call's usage row
  system,   \* "up", or how far the shutdown has come
  drained   \* the insert tasks the drain waits for

call == <<pc, attempt, ahead, slots>>
usage == <<logged, row>>
vars == <<request, size, call, usage, system, drained>>

RequestStates == {"idle", "running", "ok", "failed", "cancelled"}
Live == {"queued", "slotted", "creating", "sleeping", "polling", "fetching"}
Holding == {"slotted", "creating", "sleeping", "polling"}   \* inside the slot
Failures == {"throttled", "refused", "timed_out", "bad", "unfetched"}
Ended == Failures \cup {"done", "cancelled", "abandoned"}

-----------------------------------------------------------------------------
(* The tile plan                                                           *)

CeilDiv(a, b) == (a + b - 1) \div b
Least(S) == CHOOSE n \in S : \A m \in S : n <= m
Smaller(a, b) == IF a <= b THEN a ELSE b
Larger(a, b) == IF a >= b THEN a ELSE b

Long(s) == Larger(s[1], s[2])
Short(s) == Smaller(s[1], s[2])
Pixels(s) == s[1] * s[2]

\* The gate before any tile is cut: it counts tiles without their overlap.
Required(s) == CeilDiv(Pixels(s), PixelCap)

\* Mutant: the search forgets the overlap.
TileCountBare(s) == Required(s)

\* The smallest count whose worst tile, overlap on both sides, is within the cap.
TileCount(s) ==
  LET fit == {n \in Required(s) .. 64 : (CeilDiv(Long(s), n) + 2 * Overlap) * Short(s) <= PixelCap}
  IN IF Pixels(s) <= PixelCap THEN 1 ELSE IF fit = {} THEN 65 ELSE Least(fit)

\* Strips along the long side: a core of its own and the overlap towards its neighbours.
TileLayout(s) ==
  LET n == TileCount(s)
      base == Long(s) \div n
      extra == Long(s) % n
      from(i) == (i - 1) * base + Smaller(i - 1, extra)
  IN [i \in 1 .. n |->
        [first |-> Larger(0, from(i) - (IF i = 1 THEN 0 ELSE Overlap)),
         last |-> Smaller(Long(s), from(i + 1) + (IF i = n THEN 0 ELSE Overlap)),
         coreFirst |-> from(i), coreLast |-> from(i + 1)]]

-----------------------------------------------------------------------------
Of(r) == {c \in Calls : c[1] = r}
Held == {c \in Calls : pc[c] \in Holding}
Tiled(c) == c[1] \in Upscales /\ TileCount(size[c[1]]) > 1
Budget(c) == IF Tiled(c) THEN TileAttempts ELSE Attempts

Init ==
  /\ request = [r \in Requests |-> "idle"]
  /\ size \in [Upscales -> Sizes]
  /\ pc = [c \in Calls |-> "idle"]
  /\ attempt = [c \in Calls |-> 0]
  /\ ahead = [r \in Requests |-> {}]
  /\ slots = Inflight
  /\ logged = [c \in Calls |-> [success |-> 0, error |-> 0]]
  /\ row = [c \in Calls |-> "none"]
  /\ system = "up"
  /\ drained = {}

Launch(r, n) ==
  /\ request' = [request EXCEPT ![r] = "running"]
  /\ pc' = [c \in Calls |-> IF c[1] = r /\ c[2] <= n THEN "queued" ELSE pc[c]]
  /\ ahead' = [ahead EXCEPT ![r] = {q \in Requests : \E c \in Of(q) : pc[c] = "queued"}]
  /\ UNCHANGED <<size, attempt, slots, usage, system, drained>>

\* The jobs go on calling while the shutdown waits for them, until its deadline cancels them.
Accepting == system \in {"up", "stopping"}

\* An input that cannot be fetched, decoded or sniffed ends the request before any prediction.
Rejected(r) ==
  /\ request' = [request EXCEPT ![r] = "failed"]
  /\ UNCHANGED <<size, call, usage, system, drained>>

\* So does an image the gate before the tiles turns down.
Upscale(r) ==
  /\ request[r] = "idle" /\ Accepting
  /\ \/ /\ Required(size[r]) <= MaxTiles /\ TileCount(size[r]) <= MaxCalls
        /\ Launch(r, TileCount(size[r]))
     \/ Rejected(r)

RemoveBg(r) ==
  /\ request[r] = "idle" /\ Accepting
  /\ Launch(r, 1) \/ Rejected(r)

-----------------------------------------------------------------------------
(* One prediction, of an upscale request or of a remove-background request *)

Goto(c, state) == pc' = [pc EXCEPT ![c] = state]

\* log_ai_request: a detached task, never awaited by the call.
Detach(c) == row' = [row EXCEPT ![c] = "pending"]

Log(c, status) == logged' = [logged EXCEPT ![c][status] = @ + 1] /\ Detach(c)

\* c has waited longest: the calls of a request queue up together, in their order.
Foremost(c) ==
  \A d \in Calls : pc[d] = "queued" =>
    d[1] \notin ahead[c[1]] /\ (d[1] = c[1] => c[2] <= d[2])

\* Mutant: the semaphore is entered without looking at its value.
AcquireFreely(c) ==
  /\ pc[c] = "queued" /\ Foremost(c)
  /\ slots' = slots - 1
  /\ ahead' = [ahead EXCEPT ![c[1]] = {}]
  /\ Goto(c, "slotted")
  /\ UNCHANGED <<request, size, attempt, usage, system, drained>>

\* The semaphore wakes its waiters in order; a cancelled waiter waits no more.
Acquire(c) ==
  /\ pc[c] = "queued" /\ Foremost(c) /\ slots > 0
  /\ slots' = slots - 1
  /\ ahead' = [ahead EXCEPT ![c[1]] = {}]
  /\ Goto(c, "slotted")
  /\ UNCHANGED <<request, size, attempt, usage, system, drained>>

\* The tiles of a request post one at a time, inside the slot they hold.
Create(c) ==
  /\ pc[c] = "slotted"
  /\ Tiled(c) => Cardinality({d \in Of(c[1]) : pc[d] = "creating"}) < CreateCap
  /\ Goto(c, "creating")
  /\ attempt' = [attempt EXCEPT ![c] = @ + 1]
  /\ UNCHANGED <<request, size, ahead, slots, usage, system, drained>>

Created(c) ==
  /\ pc[c] = "creating"
  /\ Goto(c, "polling")
  /\ attempt' = [attempt EXCEPT ![c] = 0]
  /\ UNCHANGED <<request, size, ahead, slots, usage, system, drained>>

\* Leaving the slot, by return or by exception.
Release(c, state) == Goto(c, state) /\ slots' = slots + 1

\* 429: sleep through the window with the slot held, or give up on the last attempt.
Throttled(c) ==
  /\ pc[c] = "creating"
  /\ \/ attempt[c] < Budget(c) /\ Goto(c, "sleeping") /\ UNCHANGED <<attempt, slots>>
     \/ attempt[c] >= Budget(c) /\ Release(c, "throttled") /\ attempt' = [attempt EXCEPT ![c] = 0]
  /\ UNCHANGED <<request, size, ahead, usage, system, drained>>

Wake(c) ==
  /\ pc[c] = "sleeping"
  /\ Goto(c, "slotted")
  /\ UNCHANGED <<request, size, attempt, ahead, slots, usage, system, drained>>

\* Any other error of the create.
Refused(c) ==
  /\ pc[c] = "creating"
  /\ Release(c, "refused")
  /\ attempt' = [attempt EXCEPT ![c] = 0]
  /\ UNCHANGED <<request, size, ahead, usage, system, drained>>

\* Mutant: the usage row is left to the fetch.
SucceededUnlogged(c) ==
  /\ pc[c] = "polling"
  /\ Release(c, "fetching")
  /\ UNCHANGED <<request, size, attempt, ahead, usage, system, drained>>

\* The prediction succeeded with an output; the output is fetched outside the slot.
Succeeded(c) ==
  /\ pc[c] = "polling"
  /\ Release(c, "fetching")
  /\ Log(c, "success")
  /\ UNCHANGED <<request, size, attempt, ahead, system, drained>>

\* It failed, was blocked or left no output, or the poll itself failed.
Bad(c) ==
  /\ pc[c] = "polling"
  /\ Release(c, "bad")
  /\ Log(c, "error")
  /\ UNCHANGED <<request, size, attempt, ahead, system, drained>>

\* Mutant: the timeout leaves the slot taken.
TimedOutHolding(c) ==
  /\ pc[c] = "polling"
  /\ Goto(c, "timed_out")
  /\ Log(c, "error")
  /\ UNCHANGED <<request, size, attempt, ahead, slots, system, drained>>

\* wait_for gives up; nothing cancels the prediction at Replicate.
TimedOut(c) ==
  /\ pc[c] = "polling"
  /\ Release(c, "timed_out")
  /\ Log(c, "error")
  /\ UNCHANGED <<request, size, attempt, ahead, system, drained>>

\* Fetching the output has a cap and a timeout of its own and is not billed.
Fetch(c) ==
  /\ pc[c] = "fetching"
  /\ Goto(c, "done") \/ Goto(c, "unfetched")
  /\ UNCHANGED <<request, size, attempt, ahead, slots, usage, system, drained>>

Predict(c) ==
  \/ Acquire(c) \/ Create(c) \/ Created(c) \/ Throttled(c) \/ Wake(c) \/ Refused(c)
  \/ Succeeded(c) \/ Bad(c) \/ TimedOut(c) \/ Fetch(c)

-----------------------------------------------------------------------------
(* The request                                                             *)

\* All outputs are there; what is still to be done with them may fail.
Outcome(r) ==
  /\ request[r] = "running"
  /\ \A c \in Of(r) : pc[c] \in {"idle", "done"}
  /\ \/ request' = [request EXCEPT ![r] = "ok"]
     \/ request' = [request EXCEPT ![r] = "failed"]
  /\ UNCHANGED <<size, call, usage, system, drained>>

\* Upscale: blend the tiles, normalise, upload.
Assemble(r) == r \in Upscales /\ Outcome(r)
\* Remove-background: make it a PNG, flattened if asked for, upload.
Deliver(r) == r \in RemoveBgs /\ Outcome(r)

\* gather raises the first failure of a tile; the other tiles run on, nobody awaits them.
Fail(r) ==
  /\ request[r] = "running"
  /\ \E c \in Of(r) : pc[c] \in Failures
  /\ request' = [request EXCEPT ![r] = "failed"]
  /\ UNCHANGED <<size, call, usage, system, drained>>

\* Mutant: the calls are cancelled where they wait, but the slots are not given back.
CancelLeaking(r) ==
  /\ request[r] = "running" /\ system = "overdue"
  /\ request' = [request EXCEPT ![r] = "cancelled"]
  /\ pc' = [c \in Calls |-> IF c[1] # r \/ pc[c] \notin Live THEN pc[c]
                            ELSE IF pc[c] = "polling" THEN "abandoned" ELSE "cancelled"]
  /\ attempt' = [c \in Calls |-> IF c[1] = r THEN 0 ELSE attempt[c]]
  /\ ahead' = [ahead EXCEPT ![r] = {}]
  /\ UNCHANGED <<size, slots, usage, system, drained>>

\* The deadline of the shutdown cancels the job behind the request, and with it the gathered calls:
\* the slot is released on the way out, the usage row of a running prediction is never written.
Cancel(r) ==
  /\ request[r] = "running" /\ system = "overdue"
  /\ request' = [request EXCEPT ![r] = "cancelled"]
  /\ pc' = [c \in Calls |-> IF c[1] # r \/ pc[c] \notin Live THEN pc[c]
                            ELSE IF pc[c] = "polling" THEN "abandoned" ELSE "cancelled"]
  /\ slots' = slots + Cardinality(Held \cap Of(r))
  /\ attempt' = [c \in Calls |-> IF c[1] = r THEN 0 ELSE attempt[c]]
  /\ ahead' = [ahead EXCEPT ![r] = {}]
  /\ UNCHANGED <<size, usage, system, drained>>

-----------------------------------------------------------------------------
(* The usage rows and the shutdown                                         *)

\* The insert task settles, by writing the row or by swallowing a database error; the error of a
\* closed pool is swallowed as well.
Insert(c) ==
  /\ row[c] = "pending"
  /\ row' = [row EXCEPT ![c] = IF system = "closed" THEN "late" ELSE "settled"]
  /\ UNCHANGED <<request, size, call, logged, system, drained>>

Shutdown ==
  /\ system = "up"
  /\ system' = "stopping"
  /\ UNCHANGED <<request, size, call, usage, drained>>

\* wait_for gives the jobs up: whichever still run are cancelled, and launch nothing more.
Deadline ==
  /\ system = "stopping"
  /\ system' = "overdue"
  /\ UNCHANGED <<request, size, call, usage, drained>>

\* Mutant: the drain does not wait for the jobs.
DrainEarly ==
  /\ system \in {"stopping", "overdue"}
  /\ system' = "draining"
  /\ drained' = {c \in Calls : row[c] = "pending"}
  /\ UNCHANGED <<request, size, call, usage>>

\* wait_all is over, in time or with every job cancelled; the drain waits for the insert tasks it
\* finds now.
Drain ==
  /\ system \in {"stopping", "overdue"} /\ \A r \in Requests : request[r] # "running"
  /\ system' = "draining"
  /\ drained' = {c \in Calls : row[c] = "pending"}
  /\ UNCHANGED <<request, size, call, usage>>

ClosePool ==
  /\ system = "draining" /\ \A c \in drained : row[c] # "pending"
  /\ system' = "closed"
  /\ UNCHANGED <<request, size, call, usage, drained>>

Stop == Shutdown \/ Deadline \/ Drain \/ ClosePool
Handle(r) == Assemble(r) \/ Deliver(r) \/ Fail(r) \/ Cancel(r)

Next ==
  \/ \E r \in Upscales : Upscale(r)
  \/ \E r \in RemoveBgs : RemoveBg(r)
  \/ \E r \in Requests : Handle(r)
  \/ \E c \in Calls : Predict(c) \/ Insert(c)
  \/ Stop

\* Each wait of a call ends: the poll and the fetch by their timeouts, the sleep by itself.
Fairness == \A c \in Calls : WF_vars(Predict(c))

Spec == Init /\ [][Next]_vars /\ Fairness

-----------------------------------------------------------------------------
(* Properties                                                              *)

TypeOK ==
  /\ request \in [Requests -> RequestStates]
  /\ size \in [Upscales -> Sizes]
  /\ pc \in [Calls -> {"idle"} \cup Live \cup Ended]
  /\ attempt \in [Calls -> Nat]
  /\ ahead \in [Requests -> SUBSET Requests]
  /\ slots \in Nat
  /\ logged \in [Calls -> [success : Nat, error : Nat]]
  /\ row \in [Calls -> {"none", "pending", "settled", "late"}]
  /\ system \in {"up", "stopping", "overdue", "draining", "closed"}
  /\ drained \in SUBSET Calls

\* The slot is neither lost nor handed out twice, whichever of return, error, timeout, last 429
\* or cancellation a call leaves it by.
SlotsConserved == slots + Cardinality(Held) = Inflight

\* The rows each state of a call calls for.
Expected(state) ==
  CASE state \in {"fetching", "done", "unfetched"} -> [success |-> 1, error |-> 0]
    [] state \in {"bad", "timed_out"} -> [success |-> 0, error |-> 1]
    [] OTHER -> [success |-> 0, error |-> 0]

\* "One row per prediction": a prediction the client saw created leaves exactly one usage row with
\* its outcome, even when the output cannot be fetched or a sibling tile failed the request, and a
\* throttled create leaves none. Only a cancellation drops a row.
OneRowPerPrediction ==
  \A c \in Calls :
    IF pc[c] = "cancelled" THEN logged[c] \in {Expected("idle"), Expected("fetching")}
    ELSE logged[c] = Expected(pc[c])

\* The shutdown order (jobs, then rows, then the pool) never loses a row of a request that
\* returned its result: only predictions nobody waits for any more can log too late.
ResultsKeepTheirRows ==
  \A c \in Calls : row[c] = "late" => request[c[1]] \in {"failed", "cancelled"}

\* The tiles of a request: each is within the model's cap, the cores follow each other over the
\* whole side, and neighbours share the overlap the blend fades over.
TilesCoverImage ==
  \A r \in Upscales : Required(size[r]) <= MaxTiles =>
    LET t == TileLayout(size[r])
        n == Len(t)
    IN /\ \A i \in 1 .. n : (t[i].last - t[i].first) * Short(size[r]) <= PixelCap
       /\ t[1].first = 0 /\ t[1].coreFirst = 0
       /\ t[n].last = Long(size[r]) /\ t[n].coreLast = Long(size[r])
       /\ \A i \in 1 .. (n - 1) :
            /\ t[i].coreLast = t[i + 1].coreFirst
            /\ t[i].last - t[i + 1].first >= Smaller(2 * Overlap, Long(size[r]))

\* A call that waits for the slot gets it and ends, behind calls that sleep with the slot held
\* and behind tiles of requests that have already failed.
EveryCallEnds == \A c \in Calls : pc[c] = "queued" ~> pc[c] \in Ended
=============================================================================
