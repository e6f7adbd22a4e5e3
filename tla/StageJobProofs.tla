--------------------------- MODULE StageJobProofs ---------------------------
(***************************************************************************)
(* What StageJob guarantees for every layout of batches, sheets and        *)
(* positions, every sheet concurrency and every bound.                     *)
(***************************************************************************)
EXTENDS StageJob, FiniteSetTheorems, SequenceTheorems, TLAPS

-----------------------------------------------------------------------------
(* The operators on results                                                *)

\* A result list is a function on 1 .. n.
LEMMA ResultsFunction ==
  ASSUME NEW results \in Seq(Result)
  PROVE  /\ Len(results) \in Nat
         /\ DOMAIN results = 1 .. Len(results)
         /\ \A i \in DOMAIN results : results[i] \in Result
BY LenProperties, ElementOfSeq

\* Mapping a result list entry by entry gives a result list.
LEMMA MapResults ==
  ASSUME NEW results \in Seq(Result), NEW f \in [DOMAIN results -> Result]
  PROVE  f \in Seq(Result) /\ DOMAIN f = DOMAIN results
<1>1. Len(results) \in Nat /\ DOMAIN results = 1 .. Len(results)
  BY ResultsFunction
<1> QED BY <1>1

LEMMA UnselectType ==
  ASSUME NEW results \in Seq(Result)
  PROVE  /\ Unselect(results) \in Seq(Result)
         /\ DOMAIN Unselect(results) = DOMAIN results
         /\ \A i \in DOMAIN results :
              /\ ~Unselect(results)[i].sel
              /\ Unselect(results)[i].crops = results[i].crops
              /\ Unselect(results)[i].final = results[i].final
<1>1. \A i \in DOMAIN results : results[i] \in Result
  BY ResultsFunction
<1>2. Unselect(results) \in [DOMAIN results -> Result]
  BY <1>1 DEF Unselect, Result
<1>3. \A i \in DOMAIN results :
        /\ ~Unselect(results)[i].sel
        /\ Unselect(results)[i].crops = results[i].crops
        /\ Unselect(results)[i].final = results[i].final
  BY <1>1 DEF Unselect, Result
<1> QED BY <1>2, <1>3, MapResults

LEMMA ClearType ==
  ASSUME NEW results \in Seq(Result), NEW keys
  PROVE  /\ Clear(results, keys) \in Seq(Result)
         /\ DOMAIN Clear(results, keys) = DOMAIN results
         /\ \A i \in DOMAIN results :
              /\ Clear(results, keys)[i].sel = results[i].sel
              /\ Clear(results, keys)[i].crops = results[i].crops
              /\ Clear(results, keys)[i].final = results[i].final \ keys
<1>1. \A i \in DOMAIN results : results[i] \in Result
  BY ResultsFunction
<1>2. Clear(results, keys) \in [DOMAIN results -> Result]
  BY <1>1 DEF Clear, Result
<1>3. \A i \in DOMAIN results :
        /\ Clear(results, keys)[i].sel = results[i].sel
        /\ Clear(results, keys)[i].crops = results[i].crops
        /\ Clear(results, keys)[i].final = results[i].final \ keys
  BY <1>1 DEF Clear, Result
<1> QED BY <1>2, <1>3, MapResults

\* The list after a sheet is done: the old entries kept or dropped, and one selected at the end.
LEMMA AddResultType ==
  ASSUME NEW results \in Seq(Result), NEW f \in BOOLEAN, NEW crops \in SUBSET Keys
  PROVE  LET new == AddResult(results, f, crops)
             n == Len(new)
         IN  /\ new \in Seq(Result)
             /\ n \in DOMAIN new
             /\ new[n] = [sel |-> TRUE, crops |-> crops, final |-> {}]
             /\ \A i \in DOMAIN new : i # n =>
                  /\ i \in DOMAIN results
                  /\ ~new[i].sel
                  /\ new[i].crops = results[i].crops
                  /\ new[i].final = results[i].final
<1> DEFINE old == IF f THEN << >> ELSE Unselect(results)
           r == [sel |-> TRUE, crops |-> crops, final |-> {}]
           new == AddResult(results, f, crops)
<1>1. old \in Seq(Result) /\ r \in Result
  <2>1. r \in Result
    BY DEF Result
  <2>2. Unselect(results) \in Seq(Result)
    BY UnselectType
  <2>3. << >> \in Seq(Result)
    BY EmptySeq
  <2> QED BY <2>1, <2>2, <2>3
<1>2. new = Append(old, r)
  BY DEF AddResult
<1> HIDE DEF old, r, new
<1>3. /\ new \in Seq(Result) /\ Len(new) = Len(old) + 1 /\ new[Len(new)] = r
      /\ \A i \in 1 .. Len(old) : new[i] = old[i]
  BY <1>1, <1>2
<1>4. Len(old) \in Nat /\ DOMAIN new = 1 .. (Len(old) + 1) /\ DOMAIN old = 1 .. Len(old)
  BY <1>1, <1>3, LenProperties
<1>5. ASSUME NEW i \in DOMAIN new, i # Len(new)
      PROVE  /\ i \in DOMAIN results
             /\ ~new[i].sel
             /\ new[i].crops = results[i].crops
             /\ new[i].final = results[i].final
  <2>1. i \in DOMAIN old /\ new[i] = old[i]
    BY <1>3, <1>4, <1>5
  <2>2. CASE f
    <3>1. old = << >>
      BY <2>2 DEF old
    <3> QED BY <1>4, <2>1, <3>1
  <2>3. CASE ~f
    BY <2>1, <2>3, UnselectType DEF old
  <2> QED BY <2>2, <2>3
<1>6. new[Len(new)] = [sel |-> TRUE, crops |-> crops, final |-> {}]
  BY <1>3 DEF r
<1> QED BY <1>3, <1>4, <1>5, <1>6 DEF new

LEMMA WonResult ==
  ASSUME NEW crops \in SUBSET Keys, NEW x \in Result, x.sel, x.crops = crops
  PROVE  /\ [x EXCEPT !.final = crops] \in Result
         /\ [x EXCEPT !.final = crops].sel
         /\ [x EXCEPT !.final = crops].crops = crops
         /\ [x EXCEPT !.final = crops].final = crops
BY DEF Result

\* Store: the new result wins, the other sheets of its batch are left alone, and the other
\* batches lose the positions it won.
LEMMA StoreEffect ==
  ASSUME NEW col \in Column, NEW b \in Batches, NEW s \in Sheets, NEW f \in BOOLEAN,
         NEW crops \in SUBSET Keys
  PROVE  LET new == AddResult(col[b][s], f, crops)
             st == Store(col, b, s, f, crops)
         IN  /\ st \in Column
             /\ DOMAIN st[b][s] = DOMAIN new
             /\ \A i \in DOMAIN new : i # Len(new) => st[b][s][i] = new[i]
             /\ LET r == st[b][s][Len(new)] IN r.sel /\ r.crops = crops /\ r.final = crops
             /\ \A t \in Sheets : t # s => st[b][t] = col[b][t]
             /\ \A c \in Batches : c # b => \A t \in Sheets : st[c][t] = Clear(col[c][t], crops)
<1> DEFINE new == AddResult(col[b][s], f, crops)
           n == Len(new)
           col1 == [col EXCEPT ![b][s] = AddResult(@, f, crops)]
           st == Store(col, b, s, f, crops)
<1>1. col[b][s] \in Seq(Result)
  BY DEF Column
<1>2. /\ new \in Seq(Result) /\ n \in DOMAIN new
      /\ new[n] = [sel |-> TRUE, crops |-> crops, final |-> {}]
      /\ \A i \in DOMAIN new : i # n => ~new[i].sel
  BY <1>1, AddResultType
<1>3. col1[b][s] = new /\ \A t \in Sheets : t # s => col1[b][t] = col[b][t]
  BY DEF Column
<1>4. \A c \in Batches : c # b => col1[c] = col[c]
  BY DEF Column
<1>5. col1[b] \in [Sheets -> Seq(Result)]
  BY <1>2 DEF Column
<1>6. FirstSelected(new) = n
  <2>1. DOMAIN new = 1 .. n /\ n \in Nat
    BY <1>2, ResultsFunction
  <2>2. new[n].sel /\ \A k \in 1 .. (n - 1) : ~new[k].sel
    BY <1>2, <2>1
  <2>3. \A i \in DOMAIN new : new[i].sel => i = n
    BY <1>2
  <2> HIDE DEF new, n
  <2> QED BY <1>2, <2>2, <2>3 DEF FirstSelected
<1>7. st = [c \in Batches |->
              IF c = b THEN [col1[b] EXCEPT ![s][n].final = crops]
              ELSE [t \in Sheets |-> Clear(col1[c][t], crops)]]
  <2>1. st = Promote(col1, b, s)
    BY DEF Store
  <2>2. FirstSelected(col1[b][s]) = n /\ col1[b][s][n].crops = crops
    BY <1>2, <1>3, <1>6
  <2> HIDE DEF st, col1, n, new
  <2> QED BY <2>1, <2>2 DEF Promote
<1> HIDE DEF st, col1
<1>8. st[b][s] = [new EXCEPT ![n].final = crops]
  BY <1>3, <1>5, <1>7
<1>9. \A t \in Sheets : t # s => st[b][t] = col[b][t]
  BY <1>3, <1>5, <1>7
<1>10. \A c \in Batches : c # b => \A t \in Sheets : st[c][t] = Clear(col[c][t], crops)
  BY <1>4, <1>7
<1>11. /\ st[b][s] \in Seq(Result)
       /\ DOMAIN st[b][s] = DOMAIN new
       /\ \A i \in DOMAIN new : i # n => st[b][s][i] = new[i]
       /\ st[b][s][n].sel /\ st[b][s][n].crops = crops /\ st[b][s][n].final = crops
  <2> DEFINE r == [new[n] EXCEPT !.final = crops]
  <2>1. r \in Result /\ r.sel /\ r.crops = crops /\ r.final = crops
    <3>1. new[n] \in Result /\ new[n].sel /\ new[n].crops = crops
      BY <1>2, ResultsFunction
    <3> HIDE DEF new, n
    <3> QED BY <3>1, WonResult
  <2>2. st[b][s] = [new EXCEPT ![n] = r]
    BY <1>8
  <2>3. n \in 1 .. Len(new)
    BY <1>2, ResultsFunction
  <2> HIDE DEF new, r
  <2> QED BY <1>2, <2>1, <2>2, <2>3, ExceptSeq
<1>12. \A c \in Batches, t \in Sheets : st[c][t] \in Seq(Result)
  <2> TAKE c \in Batches, t \in Sheets
  <2>1. col[c][t] \in Seq(Result)
    BY DEF Column
  <2> QED BY <1>9, <1>10, <1>11, <2>1, ClearType
<1>13. st \in Column
  <2>1. st = [c \in Batches |-> st[c]]
    BY <1>7
  <2>2. \A c \in Batches : st[c] = [t \in Sheets |-> st[c][t]]
    BY <1>5, <1>7
  <2>3. \A c \in Batches : st[c] \in [Sheets -> Seq(Result)]
    BY <1>12, <2>2
  <2> QED BY <2>1, <2>3 DEF Column
<1> QED BY <1>9, <1>10, <1>11, <1>13 DEF st

\* The entries of the stored sheet, one by one.
LEMMA StoreEntries ==
  ASSUME NEW col \in Column, NEW b \in Batches, NEW s \in Sheets, NEW f \in BOOLEAN,
         NEW crops \in SUBSET Keys
  PROVE  LET r == Store(col, b, s, f, crops)[b][s]
             n == Len(AddResult(col[b][s], f, crops))
         IN  /\ n \in DOMAIN r
             /\ r[n].sel /\ r[n].crops = crops /\ r[n].final = crops
             /\ \A i \in DOMAIN r : i # n =>
                  /\ i \in DOMAIN col[b][s]
                  /\ ~r[i].sel
                  /\ r[i].crops = col[b][s][i].crops
                  /\ r[i].final = col[b][s][i].final
<1> DEFINE new == AddResult(col[b][s], f, crops)
           n == Len(new)
           r == Store(col, b, s, f, crops)[b][s]
<1>1. /\ DOMAIN r = DOMAIN new /\ \A i \in DOMAIN new : i # n => r[i] = new[i]
      /\ r[n].sel /\ r[n].crops = crops /\ r[n].final = crops
  BY StoreEffect
<1>2. col[b][s] \in Seq(Result)
  BY DEF Column
<1>3. /\ new \in Seq(Result) /\ n \in DOMAIN new
      /\ new[n] = [sel |-> TRUE, crops |-> crops, final |-> {}]
      /\ \A i \in DOMAIN new : i # n =>
           /\ i \in DOMAIN col[b][s]
           /\ ~new[i].sel
           /\ new[i].crops = col[b][s][i].crops
           /\ new[i].final = col[b][s][i].final
  BY <1>2, AddResultType
<1> HIDE DEF new, n, r
<1> QED BY <1>1, <1>3 DEF new, n, r

-----------------------------------------------------------------------------
(* Types and counts                                                        *)

Over == {"done", "failed", "cancelled"}

\* Where do_sheet stands decides what step_details may say of the sheet; outside the gather no
\* sheet of a run that still has a handler is under way.
SheetsInStep ==
  /\ \A s \in Sheets :
       /\ sheet[s] \in {"waiting", "working", "polling", "cutting"} => mark[s] \notin Over
       /\ mark[s] \in Over => sheet[s] \in {"finishing", "finished"}
  /\ phase \in {"idle", "queued", "polling"} =>
       \A s \in Sheets : sheet[s] = "none" /\ mark[s] \in {"none", "pending"}
  /\ phase \in {"persisting", "demoting", "settling"} \cup Returned =>
       \A s \in Sheets : sheet[s] \in {"none", "finished"}

Accounts == TypeOK /\ SheetsInStep /\ TallyMatchesMarks

LEMMA SheetSets ==
  \A T \in SUBSET Sheets : IsFiniteSet(T) /\ Cardinality(T) \in Nat
BY SheetsAssumption, FS_Subset, FS_CardinalityType

\* One more sheet in a set of sheets.
LEMMA OneMore ==
  ASSUME NEW T \in SUBSET Sheets, NEW s \in Sheets, s \notin T
  PROVE  Cardinality(T \cup {s}) = Cardinality(T) + 1
BY SheetSets, FS_AddElement

LEMMA DisjointCount ==
  ASSUME NEW T \in SUBSET Sheets, NEW U \in SUBSET Sheets, T \cap U = {}
  PROVE  Cardinality(T \cup U) = Cardinality(T) + Cardinality(U)
<1>1. IsFiniteSet(T) /\ IsFiniteSet(U) /\ Cardinality(T) \in Nat /\ Cardinality(U) \in Nat
  BY SheetSets
<1>2. Cardinality(T \cup U) = Cardinality(T) + Cardinality(U) - Cardinality(T \cap U)
  BY <1>1, FS_Union
<1>3. Cardinality(T \cap U) = 0
  BY FS_EmptySet
<1> QED BY <1>1, <1>2, <1>3

LEMMA SettledCounts ==
  ASSUME Accounts, NEW s \in Sheets, NEW m \in Over, NEW field,
         sheet[s] \in {"working", "polling", "cutting"}, Settled(s, m, field)
  PROVE  /\ Cardinality(Marked(m)') = Cardinality(Marked(m)) + 1
         /\ \A x \in Over \ {m} : Marked(x)' = Marked(x)
         /\ At("finished")' = At("finished")
<1>1. mark[s] \notin Over /\ mark \in [Sheets -> Marks] /\ mark' = [mark EXCEPT ![s] = m]
  BY DEF Accounts, SheetsInStep, TypeOK, Settled
<1>2. Marked(m)' = Marked(m) \cup {s} /\ s \notin Marked(m)
  BY <1>1 DEF Marked
<1>3. \A x \in Over \ {m} : Marked(x)' = Marked(x)
  BY <1>1 DEF Marked
<1>4. At("finished")' = At("finished")
  BY DEF At, Settled, Accounts, TypeOK
<1>5. Marked(m) \in SUBSET Sheets
  BY DEF Marked
<1> QED BY <1>2, <1>3, <1>4, <1>5, OneMore

LEMMA ApplyType ==
  ASSUME TypeOK, NEW s \in Sheets, Apply(s)
  PROVE  mem' \in Column
<1>1. PICK crops \in SUBSET CropsOf[target][s] \ {{}} : mem' = Store(mem, target, s, force, crops)
  BY DEF Apply
<1>2. crops \in SUBSET Keys
  BY LayoutAssumption, <1>1 DEF TypeOK
<1> QED BY <1>1, <1>2, StoreEffect DEF TypeOK

LEMMA TypeInit == Init => Accounts
<1> SUFFICES ASSUME Init PROVE Accounts
  OBVIOUS
<1>1. << >> \in Seq(Result)
  BY EmptySeq
<1>2. TypeOK
  BY <1>1 DEF Init, TypeOK, Column, Running, Ended, Returned, Marks
<1>3. SheetsInStep
  BY DEF Init, SheetsInStep, Over, Returned
<1>4. TallyMatchesMarks
  <2>1. Marked("done") = {} /\ Marked("cancelled") = {} /\ Marked("failed") = {} /\ At("finished") = {}
    BY DEF Init, Marked, At
  <2> QED BY <2>1, FS_EmptySet DEF Init, TallyMatchesMarks
<1> QED BY <1>2, <1>3, <1>4 DEF Accounts

LEMMA SettledType ==
  ASSUME TypeOK, NEW s \in Sheets, NEW m \in Over, NEW field \in {"processed", "skipped", "failed"},
         Settled(s, m, field)
  PROVE  /\ sheet' \in [Sheets -> {"none", "waiting", "finished"} \cup Entered]
         /\ mark' \in [Sheets -> Marks]
         /\ tally' \in [processed : Nat, skipped : Nat, failed : Nat, done : Nat]
BY DEF TypeOK, Settled, Count, Over, Entered, Marks

LEMMA TypeStep ==
  ASSUME Accounts, [Next]_vars
  PROVE  TypeOK'
<1> USE DEF request, work, limits
<1>a. TypeOK
  BY DEF Accounts
<1>b. \A T \in SUBSET Sheets : Cardinality(T) \in Nat
  BY SheetSets
<1>1. CASE Enqueue
  <2>1. target' \in Batches /\ force' \in BOOLEAN
    BY <1>1 DEF Enqueue
  <2>2. /\ sheet' \in [Sheets -> {"none", "waiting", "finished"} \cup Entered]
        /\ mark' \in [Sheets -> Marks]
        /\ tally' \in [processed : Nat, skipped : Nat, failed : Nat, done : Nat]
    BY <1>1 DEF Enqueue, Marks
  <2>3. /\ UNCHANGED <<column, mem, faults, patches, aborts>>
        /\ phase' \in Running /\ cancelReq' \in BOOLEAN /\ jobs' = jobs + 1
    BY <1>1 DEF Enqueue, Running
  <2>4. /\ column' \in Column /\ mem' \in Column
        /\ jobs' \in Nat /\ faults' \in Nat /\ patches' \in Nat /\ aborts' \in Nat
    BY <1>a, <2>3 DEF TypeOK
  <2> QED BY <2>1, <2>2, <2>3, <2>4 DEF TypeOK
<1>2. CASE Patch
  <2>1. PICK b \in Batches, s \in Sheets : column' = [column EXCEPT ![b][s] = Unselect(@)]
    BY <1>2 DEF Patch
  <2>2. Unselect(column[b][s]) \in Seq(Result)
    BY <1>a, UnselectType DEF TypeOK, Column
  <2>3. column' \in Column
    BY <1>a, <2>1, <2>2 DEF TypeOK, Column
  <2> QED BY <1>a, <1>2, <2>3 DEF Patch, TypeOK
<1>3. CASE RequestCancel
  BY <1>a, <1>3 DEF RequestCancel, TypeOK
<1>4. CASE Before
  BY <1>a, <1>4 DEF Before, Load, LoadFault, FirstPoll, Fault, TypeOK, Running, Ended, Returned, Marks
<1>5. CASE After
  <2>1. CASE Gathered \/ Persist \/ ReportDemoted \/ Settle
    BY <1>a, <2>1 DEF Gathered, Persist, ReportDemoted, Settle, TypeOK, Running, Ended, Returned
  <2>2. CASE PersistFault
    <3>1. Cardinality(Marked("done")) \in Nat /\ tally.processed = Cardinality(Marked("done"))
      BY <1>b DEF Marked, Accounts, TallyMatchesMarks
    <3>2. tally' \in [processed : Nat, skipped : Nat, failed : Nat, done : Nat]
      <4> DEFINE c == Cardinality(Marked("done"))
      <4>1. /\ tally \in [processed : Nat, skipped : Nat, failed : Nat, done : Nat]
            /\ tally' = [tally EXCEPT !.processed = @ - c, !.failed = @ + c]
        BY <1>a, <2>2 DEF PersistFault, TypeOK
      <4>2. c \in Nat /\ tally.processed - c \in Nat /\ tally.failed + c \in Nat
        BY <3>1, <4>1
      <4> HIDE DEF c
      <4> QED BY <4>1, <4>2
    <3>3. mark' \in [Sheets -> Marks]
      BY <1>a, <2>2 DEF PersistFault, TypeOK, Marks
    <3> QED BY <1>a, <2>2, <3>2, <3>3 DEF PersistFault, Fault, TypeOK, Running
  <2> QED BY <1>5, <2>1, <2>2 DEF After
<1>6. CASE HandlerFault
  BY <1>a, <1>6 DEF HandlerFault, Fault, TypeOK, Ended
<1>7. CASE Abort
  <2>1. Cardinality({s \in Sheets : sheet[s] \in Entered}) \in Nat
    BY <1>b
  <2>2. tally' \in [processed : Nat, skipped : Nat, failed : Nat, done : Nat]
    BY <1>a, <1>7, <2>1 DEF Abort, Count, TypeOK
  <2>3. sheet' \in [Sheets -> {"none", "waiting", "finished"} \cup Entered]
    BY <1>a, <1>7 DEF Abort, TypeOK, Entered
  <2>4. column' \in Column
    BY <1>a, <1>7 DEF Abort, TypeOK
  <2> QED BY <1>a, <1>7, <2>2, <2>3, <2>4 DEF Abort, TypeOK, Ended
<1>8. ASSUME NEW s \in Sheets, DoSheet(s) PROVE TypeOK'
  <2>1. CASE SheetBegins(s) \/ Heartbeat(s)
    BY <1>a, <2>1 DEF SheetBegins, Heartbeat, TypeOK, Entered, Marks
  <2>2. CASE SheetFails(s)
    BY <1>a, <2>2, SettledType DEF SheetFails, TypeOK, Over
  <2>3. CASE PollSheet(s)
    <3>1. CASE cancelReq
      BY <1>a, <2>3, <3>1, SettledType DEF PollSheet, TypeOK, Over
    <3>2. CASE ~cancelReq
      BY <1>a, <2>3, <3>2 DEF PollSheet, TypeOK, Entered
    <3> QED BY <3>1, <3>2
  <2>4. CASE PollFault(s)
    BY <1>a, <2>4, SettledType DEF PollFault, Fault, TypeOK, Over
  <2>5. CASE Apply(s)
    BY <1>a, <2>5, ApplyType, SettledType DEF Apply, TypeOK, Over
  <2>6. CASE Finish(s)
    BY <1>a, <2>6 DEF Finish, Fault, Count, TypeOK, Ended
  <2> QED BY <1>8, <2>1, <2>2, <2>3, <2>4, <2>5, <2>6 DEF DoSheet
<1>9. CASE UNCHANGED vars
  BY <1>a, <1>9 DEF vars, TypeOK
<1> QED BY <1>1, <1>2, <1>3, <1>4, <1>5, <1>6, <1>7, <1>8, <1>9 DEF Next, Client

LEMMA StepsStep ==
  ASSUME Accounts, [Next]_vars
  PROVE  SheetsInStep'
<1> USE DEF request, work, limits
<1>a. /\ SheetsInStep
      /\ sheet \in [Sheets -> {"none", "waiting", "finished"} \cup Entered]
      /\ mark \in [Sheets -> Marks]
  BY DEF Accounts, TypeOK
<1>1. CASE Enqueue
  BY <1>a, <1>1 DEF Enqueue, SheetsInStep, Over, Returned
<1>2. CASE Patch \/ RequestCancel
  BY <1>a, <1>2 DEF Patch, RequestCancel, SheetsInStep
<1>3. CASE Before
  <2>1. CASE Load
    BY <1>a, <2>1 DEF Load, SheetsInStep, Over, Returned
  <2>2. CASE LoadFault
    BY <1>a, <2>2 DEF LoadFault, SheetsInStep, Over, Returned
  <2>3. CASE FirstPoll
    <3>1. CASE cancelReq
      BY <1>a, <2>3, <3>1 DEF FirstPoll, SheetsInStep, Over, Returned
    <3>2. CASE ~cancelReq
      BY <1>a, <2>3, <3>2 DEF FirstPoll, SheetsInStep, Over, Returned
    <3> QED BY <3>1, <3>2
  <2> QED BY <1>3, <2>1, <2>2, <2>3 DEF Before
<1>4. CASE After
  <2>1. CASE Gathered \/ Persist \/ ReportDemoted \/ Settle
    BY <1>a, <2>1 DEF Gathered, Persist, ReportDemoted, Settle, SheetsInStep, Returned
  <2>2. CASE PersistFault
    BY <1>a, <2>2 DEF PersistFault, SheetsInStep, Over, Returned
  <2> QED BY <1>4, <2>1, <2>2 DEF After
<1>5. CASE HandlerFault
  BY <1>a, <1>5 DEF HandlerFault, SheetsInStep, Returned
<1>6. CASE Abort
  BY <1>a, <1>6 DEF Abort, SheetsInStep, Over, Entered, Returned
<1>7. ASSUME NEW s \in Sheets, DoSheet(s) PROVE SheetsInStep'
  <2>0. sheet[s] \in {"waiting", "working", "polling", "cutting", "finishing"}
    BY <1>7 DEF DoSheet, SheetBegins, SheetFails, Heartbeat, PollSheet, PollFault, Apply, Finish
  <2>1. phase \notin {"idle", "queued", "polling", "persisting", "demoting", "settling"} \cup Returned
    BY <1>a, <2>0 DEF SheetsInStep
  <2>2. CASE SheetBegins(s) \/ Heartbeat(s)
    BY <1>a, <2>1, <2>2 DEF SheetBegins, Heartbeat, SheetsInStep, Over
  <2>3. CASE SheetFails(s) \/ PollFault(s) \/ Apply(s)
    BY <1>a, <2>1, <2>3 DEF SheetFails, PollFault, Apply, Settled, SheetsInStep, Over
  <2>4. CASE PollSheet(s)
    BY <1>a, <2>1, <2>4 DEF PollSheet, Settled, SheetsInStep, Over
  <2>5. CASE Finish(s)
    BY <1>a, <2>1, <2>5 DEF Finish, SheetsInStep, Over, Returned
  <2> QED BY <1>7, <2>2, <2>3, <2>4, <2>5 DEF DoSheet
<1>8. CASE UNCHANGED vars
  BY <1>a, <1>8 DEF vars, SheetsInStep
<1> QED BY <1>1, <1>2, <1>3, <1>4, <1>5, <1>6, <1>7, <1>8 DEF Next, Client

\* A sheet that settles adds one to the counter of its mark, whatever the mark.
LEMMA SettledTally ==
  ASSUME Accounts, NEW s \in Sheets, sheet[s] \in {"working", "polling", "cutting"},
         \/ Settled(s, "done", "processed")
         \/ Settled(s, "cancelled", "skipped")
         \/ Settled(s, "failed", "failed")
  PROVE  TallyMatchesMarks'
<1>a. /\ TallyMatchesMarks
      /\ tally \in [processed : Nat, skipped : Nat, failed : Nat, done : Nat]
  BY DEF Accounts, TypeOK
<1>1. CASE Settled(s, "done", "processed")
  <2>1. /\ Cardinality(Marked("done")') = Cardinality(Marked("done")) + 1
        /\ Marked("cancelled")' = Marked("cancelled") /\ Marked("failed")' = Marked("failed")
        /\ At("finished")' = At("finished")
    BY <1>1, SettledCounts DEF Over
  <2>2. tally' = [tally EXCEPT !.processed = @ + 1]
    BY <1>1 DEF Settled, Count
  <2> QED BY <1>a, <2>1, <2>2 DEF TallyMatchesMarks
<1>2. CASE Settled(s, "cancelled", "skipped")
  <2>1. /\ Cardinality(Marked("cancelled")') = Cardinality(Marked("cancelled")) + 1
        /\ Marked("done")' = Marked("done") /\ Marked("failed")' = Marked("failed")
        /\ At("finished")' = At("finished")
    BY <1>2, SettledCounts DEF Over
  <2>2. tally' = [tally EXCEPT !.skipped = @ + 1]
    BY <1>2 DEF Settled, Count
  <2> QED BY <1>a, <2>1, <2>2 DEF TallyMatchesMarks
<1>3. CASE Settled(s, "failed", "failed")
  <2>1. /\ Cardinality(Marked("failed")') = Cardinality(Marked("failed")) + 1
        /\ Marked("done")' = Marked("done") /\ Marked("cancelled")' = Marked("cancelled")
        /\ At("finished")' = At("finished")
    BY <1>3, SettledCounts DEF Over
  <2>2. tally' = [tally EXCEPT !.failed = @ + 1]
    BY <1>3 DEF Settled, Count
  <2> QED BY <1>a, <2>1, <2>2 DEF TallyMatchesMarks
<1> QED BY <1>1, <1>2, <1>3

\* A step that changes no mark, no count and finishes no sheet keeps the counts.
LEMMA SameTally ==
  ASSUME TallyMatchesMarks, UNCHANGED tally,
         \A m \in Over : Marked(m)' = Marked(m), At("finished")' = At("finished")
  PROVE  TallyMatchesMarks'
BY DEF TallyMatchesMarks, Over

LEMMA TallyStep ==
  ASSUME Accounts, [Next]_vars
  PROVE  TallyMatchesMarks'
<1> USE DEF request, work, limits
<1>a. /\ SheetsInStep /\ TallyMatchesMarks
      /\ sheet \in [Sheets -> {"none", "waiting", "finished"} \cup Entered]
      /\ mark \in [Sheets -> Marks]
      /\ tally \in [processed : Nat, skipped : Nat, failed : Nat, done : Nat]
  BY DEF Accounts, TypeOK
<1>1. CASE Enqueue
  <2>1. /\ Marked("done")' = {} /\ Marked("cancelled")' = {} /\ Marked("failed")' = {}
        /\ At("finished")' = {}
    BY <1>1 DEF Enqueue, Marked, At
  <2> QED BY <1>1, <2>1, FS_EmptySet DEF Enqueue, TallyMatchesMarks
<1>2. CASE UNCHANGED work
  BY <1>a, <1>2, SameTally DEF Marked, At
<1>3. CASE Load
  <2>1. \A m \in Over : Marked(m)' = Marked(m)
    BY <1>a, <1>3 DEF Load, Marked, SheetsInStep, Over
  <2> QED BY <1>a, <1>3, <2>1, SameTally DEF Load, At
<1>4. CASE FirstPoll
  <2>1. At("finished")' = At("finished")
    BY <1>a, <1>4 DEF FirstPoll, At, SheetsInStep
  <2> QED BY <1>a, <1>4, <2>1, SameTally DEF FirstPoll, Marked
<1>5. CASE PersistFault
  <2>1. /\ Marked("done")' = {} /\ Marked("cancelled")' = Marked("cancelled")
        /\ Marked("failed")' = Marked("failed") \cup Marked("done")
        /\ At("finished")' = At("finished")
    BY <1>a, <1>5 DEF PersistFault, Marked, At
  <2>2. Cardinality(Marked("failed") \cup Marked("done"))
          = Cardinality(Marked("failed")) + Cardinality(Marked("done"))
    <3>1. Marked("failed") \cap Marked("done") = {}
      BY DEF Marked
    <3>2. Marked("failed") \in SUBSET Sheets /\ Marked("done") \in SUBSET Sheets
      BY DEF Marked
    <3> QED BY <3>1, <3>2, DisjointCount
  <2>3. /\ tally'.processed = tally.processed - Cardinality(Marked("done"))
        /\ tally'.failed = tally.failed + Cardinality(Marked("done"))
        /\ tally'.skipped = tally.skipped /\ tally'.done = tally.done
    BY <1>a, <1>5 DEF PersistFault
  <2>4. Cardinality(Marked("done")) \in Nat /\ Cardinality(Marked("failed")) \in Nat
    BY SheetSets DEF Marked
  <2>5. tally'.processed = 0 /\ Cardinality(Marked("done")') = 0
    BY <1>a, <2>1, <2>3, <2>4, FS_EmptySet DEF TallyMatchesMarks
  <2>6. tally'.failed = Cardinality(Marked("failed")')
    BY <1>a, <2>1, <2>2, <2>3 DEF TallyMatchesMarks
  <2> QED BY <1>a, <2>1, <2>3, <2>5, <2>6 DEF TallyMatchesMarks
<1>6. CASE Abort
  <2> DEFINE E == {s \in Sheets : sheet[s] \in Entered}
  <2>1. At("finished")' = At("finished") \cup E /\ \A m \in Over : Marked(m)' = Marked(m)
    BY <1>a, <1>6 DEF Abort, At, Marked, Entered
  <2>2. Cardinality(At("finished") \cup E) = Cardinality(At("finished")) + Cardinality(E)
    <3>1. At("finished") \cap E = {}
      BY DEF At, Entered
    <3>2. At("finished") \in SUBSET Sheets /\ E \in SUBSET Sheets
      BY DEF At
    <3> QED BY <3>1, <3>2, DisjointCount
  <2>3. tally' = [tally EXCEPT !.done = @ + Cardinality(E)]
    BY <1>6 DEF Abort, Count
  <2> HIDE DEF E
  <2> QED BY <1>a, <2>1, <2>2, <2>3 DEF TallyMatchesMarks, Over
<1>7. ASSUME NEW s \in Sheets, DoSheet(s) PROVE TallyMatchesMarks'
  <2>1. CASE SheetBegins(s) \/ Heartbeat(s)
    <3>1. \A m \in Over : Marked(m)' = Marked(m)
      BY <1>a, <2>1 DEF SheetBegins, Heartbeat, SheetsInStep, Marked, Over
    <3>2. At("finished")' = At("finished")
      BY <1>a, <2>1 DEF SheetBegins, Heartbeat, At
    <3> QED BY <1>a, <2>1, <3>1, <3>2, SameTally DEF SheetBegins, Heartbeat
  <2>2. CASE SheetFails(s) \/ PollFault(s) \/ Apply(s)
    BY <2>2, SettledTally DEF SheetFails, PollFault, Apply
  <2>3. CASE PollSheet(s)
    <3>1. CASE cancelReq
      BY <2>3, <3>1, SettledTally DEF PollSheet
    <3>2. CASE ~cancelReq
      <4>1. At("finished")' = At("finished")
        BY <1>a, <2>3, <3>2 DEF PollSheet, At
      <4> QED BY <1>a, <2>3, <3>2, <4>1, SameTally DEF PollSheet, Marked
    <3> QED BY <3>1, <3>2
  <2>4. CASE Finish(s)
    <3>1. At("finished")' = At("finished") \cup {s} /\ s \notin At("finished")
      BY <1>a, <2>4 DEF Finish, At
    <3>2. Cardinality(At("finished")') = Cardinality(At("finished")) + 1
      BY <3>1, OneMore DEF At
    <3>3. tally' = [tally EXCEPT !.done = @ + 1] /\ \A m \in Over : Marked(m)' = Marked(m)
      BY <2>4 DEF Finish, Count, Marked
    <3> QED BY <1>a, <3>2, <3>3 DEF TallyMatchesMarks, Over
  <2> QED BY <1>7, <2>1, <2>2, <2>3, <2>4 DEF DoSheet
<1> QED BY <1>1, <1>2, <1>3, <1>4, <1>5, <1>6, <1>7
  DEF Next, Client, Before, After, vars, Patch, RequestCancel, LoadFault, Gathered, Persist,
      ReportDemoted, Settle, HandlerFault

LEMMA AccountsInvariant == Spec => []Accounts
<1>1. Accounts /\ [Next]_vars => Accounts'
  BY TypeStep, StepsStep, TallyStep DEF Accounts
<1> QED BY <1>1, TypeInit, PTL DEF Spec

\* TypeOK, for every layout of the column and every bound.
THEOREM TypeCorrect == Spec => []TypeOK
<1>1. Accounts => TypeOK
  BY DEF Accounts
<1> QED BY <1>1, AccountsInvariant, PTL

\* TallyMatchesMarks: the result's counts agree with step_details after every step of any run.
THEOREM CountsCorrect == Spec => []TallyMatchesMarks
<1>1. Accounts => TallyMatchesMarks
  BY DEF Accounts
<1> QED BY <1>1, AccountsInvariant, PTL

-----------------------------------------------------------------------------
(* Cancellation                                                            *)

\* The flag a sheet acted on is still up, and the run has not ended as completed.
CancelSeen == \A s \in Sheets : mark[s] = "cancelled" => cancelReq /\ phase # "completed"

LEMMA CancelSeenStep ==
  ASSUME Accounts, CancelSeen, [Next]_vars
  PROVE  CancelSeen'
<1> USE DEF request, work, limits
<1>a. SheetsInStep /\ mark \in [Sheets -> Marks]
  BY DEF Accounts, TypeOK
<1>1. CASE Enqueue
  BY <1>1 DEF Enqueue, CancelSeen
<1>2. CASE Patch \/ RequestCancel
  BY <1>a, <1>2 DEF Patch, RequestCancel, CancelSeen, Running, Ended, Returned
<1>3. CASE Before
  <2>1. CASE Load
    BY <2>1 DEF Load, CancelSeen
  <2>2. CASE LoadFault \/ FirstPoll
    BY <2>2 DEF LoadFault, FirstPoll, CancelSeen
  <2> QED BY <1>3, <2>1, <2>2 DEF Before
<1>4. CASE After
  <2>1. CASE Gathered \/ Persist \/ ReportDemoted
    BY <2>1 DEF Gathered, Persist, ReportDemoted, CancelSeen
  <2>2. CASE PersistFault
    BY <1>a, <2>2 DEF PersistFault, CancelSeen
  <2>3. CASE Settle
    BY <2>3 DEF Settle, CancelSeen
  <2> QED BY <1>4, <2>1, <2>2, <2>3 DEF After
<1>5. CASE HandlerFault \/ Abort
  BY <1>5 DEF HandlerFault, Abort, CancelSeen
<1>6. ASSUME NEW s \in Sheets, DoSheet(s) PROVE CancelSeen'
  <2>0. sheet[s] \in {"waiting", "working", "polling", "cutting", "finishing"}
    BY <1>6 DEF DoSheet, SheetBegins, SheetFails, Heartbeat, PollSheet, PollFault, Apply, Finish
  <2>1. phase # "completed"
    BY <1>a, <2>0 DEF SheetsInStep, Returned
  <2>2. CASE SheetBegins(s) \/ Heartbeat(s)
    BY <1>a, <2>2 DEF SheetBegins, Heartbeat, CancelSeen
  <2>3. CASE SheetFails(s) \/ PollFault(s) \/ Apply(s)
    BY <1>a, <2>3 DEF SheetFails, PollFault, Apply, Settled, CancelSeen
  <2>4. CASE PollSheet(s)
    BY <1>a, <2>1, <2>4 DEF PollSheet, Settled, CancelSeen
  <2>5. CASE Finish(s)
    BY <1>a, <2>5 DEF Finish, CancelSeen
  <2> QED BY <1>6, <2>2, <2>3, <2>4, <2>5 DEF DoSheet
<1>7. CASE UNCHANGED vars
  BY <1>7 DEF vars, CancelSeen
<1> QED BY <1>1, <1>2, <1>3, <1>4, <1>5, <1>6, <1>7 DEF Next, Client

LEMMA CancelSeenInvariant == Spec => [](Accounts /\ CancelSeen)
<1>1. Init => CancelSeen
  BY DEF Init, CancelSeen
<1>2. Accounts /\ CancelSeen /\ [Next]_vars => CancelSeen'
  BY CancelSeenStep
<1> QED BY <1>1, <1>2, AccountsInvariant, PTL DEF Spec

\* CancelSticks: a run that skipped a sheet because of a cancel is never reported as completed.
THEOREM CancelIsReported == Spec => []CancelSticks
<1>1. CancelSeen => CancelSticks
  BY DEF CancelSeen, CancelSticks, Marked
<1> QED BY <1>1, CancelSeenInvariant, PTL

\* With one sheet at a time, the sheet that is cancelled leaves no other past its poll.
OneAtATime ==
  /\ \A s, t \in Sheets : sheet[s] \in Entered /\ sheet[t] \in Entered => s = t
  /\ \A s, t \in Sheets : mark[s] = "cancelled" => sheet[t] # "cutting"

LEMMA OneAtATimeStep ==
  ASSUME SheetCap = 1, Accounts, CancelSeen, OneAtATime, [Next]_vars
  PROVE  OneAtATime'
<1> USE DEF request, work, limits
<1>a. /\ SheetsInStep
      /\ mark \in [Sheets -> Marks]
      /\ sheet \in [Sheets -> {"none", "waiting", "finished"} \cup Entered]
  BY DEF Accounts, TypeOK
<1>1. CASE Enqueue
  BY <1>1 DEF Enqueue, OneAtATime, Entered
<1>2. CASE UNCHANGED work
  BY <1>2 DEF OneAtATime
<1>3. CASE Load
  BY <1>a, <1>3 DEF Load, OneAtATime, SheetsInStep, Entered
<1>4. CASE FirstPoll
  BY <1>a, <1>4 DEF FirstPoll, OneAtATime, SheetsInStep, Entered
<1>5. CASE PersistFault
  BY <1>a, <1>5 DEF PersistFault, OneAtATime
<1>6. CASE Abort
  BY <1>a, <1>6 DEF Abort, OneAtATime, Entered
<1>7. ASSUME NEW s \in Sheets, DoSheet(s) PROVE OneAtATime'
  <2>1. CASE SheetBegins(s)
    <3>1. {t \in Sheets : sheet[t] \in Entered} = {}
      <4> DEFINE E == {t \in Sheets : sheet[t] \in Entered}
      <4>1. Cardinality(E) < 1
        BY <2>1 DEF SheetBegins
      <4>2. IsFiniteSet(E) /\ Cardinality(E) \in Nat
        BY SheetSets
      <4> HIDE DEF E
      <4>3. E = {}
        BY <4>1, <4>2, FS_EmptySet
      <4> QED BY <4>3 DEF E
    <3> QED BY <1>a, <2>1, <3>1 DEF SheetBegins, OneAtATime, Entered
  <2>2. CASE Heartbeat(s)
    BY <1>a, <2>2 DEF Heartbeat, OneAtATime, Entered
  <2>3. CASE SheetFails(s) \/ PollFault(s) \/ Apply(s)
    BY <1>a, <2>3 DEF SheetFails, PollFault, Apply, Settled, OneAtATime, Entered
  <2>4. CASE PollSheet(s)
    <3>1. CASE cancelReq
      BY <1>a, <2>4, <3>1 DEF PollSheet, Settled, OneAtATime, Entered
    <3>2. CASE ~cancelReq
      BY <1>a, <2>4, <3>2 DEF PollSheet, OneAtATime, Entered, CancelSeen
    <3> QED BY <3>1, <3>2
  <2>5. CASE Finish(s)
    BY <1>a, <2>5 DEF Finish, OneAtATime, Entered
  <2> QED BY <1>7, <2>1, <2>2, <2>3, <2>4, <2>5 DEF DoSheet
<1> QED BY <1>1, <1>2, <1>3, <1>4, <1>5, <1>6, <1>7
  DEF Next, Client, Before, After, vars, Patch, RequestCancel, LoadFault, Gathered, Persist,
      ReportDemoted, Settle, HandlerFault

\* Only Apply makes a sheet done.
LEMMA DoneByApply ==
  ASSUME TypeOK, [Next]_vars, NEW t \in Sheets, mark[t] # "done", mark'[t] = "done"
  PROVE  Apply(t)
<1> USE DEF request, work, limits
<1>a. mark \in [Sheets -> Marks]
  BY DEF TypeOK
<1>1. ASSUME NEW s \in Sheets, DoSheet(s) PROVE Apply(t)
  BY <1>a, <1>1
  DEF DoSheet, SheetBegins, SheetFails, Heartbeat, PollSheet, PollFault, Apply, Finish, Settled
<1>2. ~(Client \/ Before \/ After \/ HandlerFault \/ Abort \/ UNCHANGED vars)
  BY <1>a DEF Client, Before, After, HandlerFault, Abort, vars, Enqueue, Patch, RequestCancel, Load,
     LoadFault, FirstPoll, Gathered, Persist, PersistFault, ReportDemoted, Settle
<1> QED BY <1>1, <1>2 DEF Next

\* NoWorkAfterCancel, for the sheet concurrency of remix_rmbg: one sheet at a time.
THEOREM CancelStopsWork ==
  ASSUME SheetCap = 1
  PROVE  Spec => NoWorkAfterCancel
<1>1. Init => OneAtATime
  BY DEF Init, OneAtATime, Entered
<1>2. Accounts /\ CancelSeen /\ OneAtATime /\ [Next]_vars => OneAtATime'
  BY OneAtATimeStep
<1>3. Accounts /\ OneAtATime /\ [Next]_vars
        => [\A s, t \in Sheets :
              mark[s] = "cancelled" /\ mark[t] # "done" => mark'[t] # "done"]_vars
  BY DoneByApply DEF Accounts, OneAtATime, Apply
<1> QED BY <1>1, <1>2, <1>3, CancelSeenInvariant, PTL DEF Spec, NoWorkAfterCancel

-----------------------------------------------------------------------------
(* Final flags                                                             *)

\* A result wins positions of its own sheet only, a sheet has one selected result at most, and
\* no two batches hold the final flag of one position, not even in unselected history.
OwnKeys(col) ==
  \A b \in Batches, s \in Sheets : \A i \in DOMAIN col[b][s] :
    col[b][s][i].final \subseteq CropsOf[b][s]

OneSelected(col) ==
  \A b \in Batches, s \in Sheets : \A i, j \in DOMAIN col[b][s] :
    col[b][s][i].sel /\ col[b][s][j].sel => i = j

NoShare(col) ==
  \A b, c \in Batches, s, t \in Sheets :
    b # c => \A i \in DOMAIN col[b][s], j \in DOMAIN col[c][t] :
               col[b][s][i].final \cap col[c][t][j].final = {}

Clean(col) == OwnKeys(col) /\ OneSelected(col) /\ NoShare(col)

LEMMA StoreClean ==
  ASSUME NEW col \in Column, Clean(col), NEW b \in Batches, NEW s \in Sheets, NEW f \in BOOLEAN,
         NEW crops \in SUBSET Keys, crops \subseteq CropsOf[b][s]
  PROVE  Clean(Store(col, b, s, f, crops))
<1> DEFINE st == Store(col, b, s, f, crops)
           n == Len(AddResult(col[b][s], f, crops))
<1>1. /\ \A t \in Sheets : t # s => st[b][t] = col[b][t]
      /\ \A c \in Batches : c # b => \A t \in Sheets : st[c][t] = Clear(col[c][t], crops)
  BY StoreEffect
<1>2. /\ n \in DOMAIN st[b][s]
      /\ st[b][s][n].sel /\ st[b][s][n].crops = crops /\ st[b][s][n].final = crops
      /\ \A i \in DOMAIN st[b][s] : i # n =>
           /\ i \in DOMAIN col[b][s]
           /\ ~st[b][s][i].sel
           /\ st[b][s][i].crops = col[b][s][i].crops
           /\ st[b][s][i].final = col[b][s][i].final
  BY StoreEntries
<1> HIDE DEF st, n
<1>3. \A c \in Batches, t \in Sheets : c # b =>
        /\ DOMAIN st[c][t] = DOMAIN col[c][t]
        /\ \A i \in DOMAIN col[c][t] :
             /\ st[c][t][i].sel = col[c][t][i].sel
             /\ st[c][t][i].final = col[c][t][i].final \ crops
  <2> TAKE c \in Batches, t \in Sheets
  <2>1. col[c][t] \in Seq(Result)
    BY DEF Column
  <2> QED BY <1>1, <2>1, ClearType
<1>4. OwnKeys(st)
  <2> SUFFICES ASSUME NEW c \in Batches, NEW t \in Sheets, NEW i \in DOMAIN st[c][t]
               PROVE  st[c][t][i].final \subseteq CropsOf[c][t]
    BY DEF OwnKeys
  <2>1. CASE c # b
    BY <1>3, <2>1 DEF Clean, OwnKeys
  <2>2. CASE c = b /\ t # s
    BY <1>1, <2>2 DEF Clean, OwnKeys
  <2>3. CASE c = b /\ t = s /\ i # n
    BY <1>2, <2>3 DEF Clean, OwnKeys
  <2>4. CASE c = b /\ t = s /\ i = n
    BY <1>2, <2>4
  <2> QED BY <2>1, <2>2, <2>3, <2>4
<1>5. OneSelected(st)
  <2> SUFFICES ASSUME NEW c \in Batches, NEW t \in Sheets,
                      NEW i \in DOMAIN st[c][t], NEW j \in DOMAIN st[c][t],
                      st[c][t][i].sel, st[c][t][j].sel
               PROVE  i = j
    BY DEF OneSelected
  <2>1. CASE c # b
    BY <1>3, <2>1 DEF Clean, OneSelected
  <2>2. CASE c = b /\ t # s
    BY <1>1, <2>2 DEF Clean, OneSelected
  <2>3. CASE c = b /\ t = s
    BY <1>2, <2>3
  <2> QED BY <2>1, <2>2, <2>3
<1>6. \A c \in Batches, t, u \in Sheets : c # b =>
        \A i \in DOMAIN st[b][t], j \in DOMAIN st[c][u] :
          st[b][t][i].final \cap st[c][u][j].final = {}
  <2> TAKE c \in Batches, t \in Sheets, u \in Sheets
  <2> SUFFICES ASSUME c # b, NEW i \in DOMAIN st[b][t], NEW j \in DOMAIN st[c][u]
               PROVE  st[b][t][i].final \cap st[c][u][j].final = {}
    OBVIOUS
  <2>1. j \in DOMAIN col[c][u] /\ st[c][u][j].final = col[c][u][j].final \ crops
    BY <1>3
  <2>2. CASE t = s /\ i = n
    BY <1>2, <2>1, <2>2
  <2>3. CASE t # s \/ i # n
    <3>1. i \in DOMAIN col[b][t] /\ st[b][t][i].final = col[b][t][i].final
      BY <1>1, <1>2, <2>3
    <3>2. col[b][t][i].final \cap col[c][u][j].final = {}
      BY <2>1, <3>1 DEF Clean, NoShare
    <3> QED BY <2>1, <3>1, <3>2
  <2> QED BY <2>2, <2>3
<1>7. NoShare(st)
  <2> SUFFICES ASSUME NEW c \in Batches, NEW d \in Batches, NEW t \in Sheets, NEW u \in Sheets,
                      c # d, NEW i \in DOMAIN st[c][t], NEW j \in DOMAIN st[d][u]
               PROVE  st[c][t][i].final \cap st[d][u][j].final = {}
    BY DEF NoShare
  <2>1. CASE c = b
    BY <1>6, <2>1
  <2>2. CASE d = b
    BY <1>6, <2>2
  <2>3. CASE c # b /\ d # b
    <3>1. /\ i \in DOMAIN col[c][t] /\ st[c][t][i].final = col[c][t][i].final \ crops
          /\ j \in DOMAIN col[d][u] /\ st[d][u][j].final = col[d][u][j].final \ crops
      BY <1>3, <2>3
    <3>2. col[c][t][i].final \cap col[d][u][j].final = {}
      BY <3>1 DEF Clean, NoShare
    <3> QED BY <3>1, <3>2
  <2> QED BY <2>1, <2>2, <2>3
<1> QED BY <1>4, <1>5, <1>7 DEF Clean, st

LEMMA UnselectClean ==
  ASSUME NEW col \in Column, Clean(col), NEW b \in Batches, NEW s \in Sheets
  PROVE  Clean([col EXCEPT ![b][s] = Unselect(@)])
<1> DEFINE new == [col EXCEPT ![b][s] = Unselect(@)]
<1>1. \A c \in Batches, t \in Sheets :
        new[c][t] = IF c = b /\ t = s THEN Unselect(col[b][s]) ELSE col[c][t]
  BY DEF Column
<1>2. col[b][s] \in Seq(Result)
  BY DEF Column
<1> HIDE DEF new
<1>3. \A c \in Batches, t \in Sheets :
        /\ DOMAIN new[c][t] = DOMAIN col[c][t]
        /\ \A i \in DOMAIN col[c][t] :
             /\ new[c][t][i].sel => col[c][t][i].sel
             /\ new[c][t][i].final = col[c][t][i].final
  <2> TAKE c \in Batches, t \in Sheets
  <2>1. CASE c = b /\ t = s
    BY <1>1, <1>2, <2>1, UnselectType
  <2>2. CASE ~(c = b /\ t = s)
    <3>1. new[c][t] = col[c][t]
      BY <1>1, <2>2
    <3> QED BY <3>1
  <2> QED BY <2>1, <2>2
<1>4. OwnKeys(new)
  BY <1>3 DEF Clean, OwnKeys
<1>5. OneSelected(new)
  BY <1>3 DEF Clean, OneSelected
<1>6. NoShare(new)
  BY <1>3 DEF Clean, NoShare
<1> QED BY <1>4, <1>5, <1>6 DEF Clean, new

LEMMA CleanStep ==
  ASSUME Accounts, Clean(column), Clean(mem), [Next]_vars
  PROVE  Clean(column)' /\ Clean(mem)'
<1> USE DEF request, work, limits
<1>a. column \in Column /\ mem \in Column /\ target \in Batches /\ force \in BOOLEAN
  BY DEF Accounts, TypeOK
<1>1. CASE UNCHANGED <<column, mem>>
  <2>1. column' = column /\ mem' = mem
    BY <1>1
  <2> QED BY <2>1 DEF Clean, OwnKeys, OneSelected, NoShare
<1>2. CASE Load \/ Persist
  <2>1. mem' = column' /\ column' \in {column, mem}
    BY <1>2 DEF Load, Persist
  <2> QED BY <2>1 DEF Clean, OwnKeys, OneSelected, NoShare
<1>3. CASE PersistFault \/ Abort
  <2>1. mem' = mem /\ column' \in {column, mem}
    BY <1>3 DEF PersistFault, Abort
  <2> QED BY <2>1 DEF Clean, OwnKeys, OneSelected, NoShare
<1>4. CASE Patch
  <2>1. PICK b \in Batches, s \in Sheets : column' = [column EXCEPT ![b][s] = Unselect(@)]
    BY <1>4 DEF Patch
  <2>2. Clean([column EXCEPT ![b][s] = Unselect(@)])
    BY <1>a, UnselectClean
  <2>3. mem' = mem
    BY <1>4 DEF Patch
  <2> QED BY <2>1, <2>2, <2>3 DEF Clean, OwnKeys, OneSelected, NoShare
<1>5. ASSUME NEW s \in Sheets, Apply(s) PROVE Clean(column)' /\ Clean(mem)'
  <2>1. PICK crops \in SUBSET CropsOf[target][s] \ {{}} : mem' = Store(mem, target, s, force, crops)
    BY <1>5 DEF Apply
  <2>2. crops \in SUBSET Keys /\ crops \subseteq CropsOf[target][s]
    BY <1>a, <2>1, LayoutAssumption
  <2>3. Clean(Store(mem, target, s, force, crops))
    BY <1>a, <2>2, StoreClean
  <2>4. column' = column
    BY <1>5 DEF Apply
  <2> QED BY <2>1, <2>3, <2>4 DEF Clean, OwnKeys, OneSelected, NoShare
<1>6. ASSUME NEW s \in Sheets, DoSheet(s), ~Apply(s) PROVE UNCHANGED <<column, mem>>
  BY <1>6 DEF DoSheet, SheetBegins, SheetFails, Heartbeat, PollSheet, PollFault, Finish
<1> QED BY <1>1, <1>2, <1>3, <1>4, <1>5, <1>6
  DEF Next, Client, Before, After, vars, Enqueue, RequestCancel, LoadFault, FirstPoll, Gathered,
      ReportDemoted, Settle, HandlerFault

LEMMA CleanFinals ==
  ASSUME column \in Column, Clean(column)
  PROVE  OneFinalPerKey
<1> SUFFICES ASSUME NEW k \in Keys, NEW b \in Batches, NEW c \in Batches,
                    NEW s \in Sheets, NEW t \in Sheets,
                    NEW i \in DOMAIN column[b][s], NEW j \in DOMAIN column[c][t],
                    Wins(k, b, s, i), Wins(k, c, t, j)
             PROVE  b = c /\ s = t /\ i = j
  BY DEF OneFinalPerKey
<1>1. /\ k \in column[b][s][i].final /\ column[b][s][i].sel
      /\ k \in column[c][t][j].final /\ column[c][t][j].sel
  BY DEF Wins
<1>2. b = c
  BY <1>1 DEF Clean, NoShare
<1>3. s = t
  BY <1>1, <1>2, LayoutAssumption DEF Clean, OwnKeys
<1>4. i = j
  BY <1>1, <1>2, <1>3 DEF Clean, OneSelected
<1> QED BY <1>2, <1>3, <1>4

\* OneFinalPerKey: at most one selected crop of a position is final in the database, whatever the
\* batches, the order of runs and re-sweeps, the failed writes and the aborts.
THEOREM FinalsUnique == Spec => []OneFinalPerKey
<1>1. Init => Clean(column) /\ Clean(mem)
  BY DEF Init, Clean, OwnKeys, OneSelected, NoShare
<1>2. Accounts /\ Clean(column) /\ Clean(mem) /\ [Next]_vars => Clean(column)' /\ Clean(mem)'
  BY CleanStep
<1>3. Accounts /\ Clean(column) => OneFinalPerKey
  BY CleanFinals DEF Accounts, TypeOK
<1> QED BY <1>1, <1>2, <1>3, AccountsInvariant, PTL DEF Spec

-----------------------------------------------------------------------------
(* The handler's copy and the stored column                                *)

\* The copy agrees with the database but for final flags and the sheets that are done, until it
\* is written; after the write, a sheet still reported as done is in the database.
CopyInStep ==
  /\ \A s \in Sheets : mark[s] = "done" => HasSelected(mem[target][s])
  /\ phase = "demoting" => Marked("done") = {}
  /\ phase = "settling" => Marked("done") = {} \/ column = mem
  /\ phase \in {"polling", "gathering", "persisting"} =>
       \A b \in Batches, s \in Sheets :
         b # target \/ mark[s] # "done" => Drained(mem[b][s]) = Drained(column[b][s])

LEMMA ClearDrained ==
  ASSUME NEW results \in Seq(Result), NEW keys
  PROVE  Drained(Clear(results, keys)) = Drained(results)
<1>1. \A i \in DOMAIN results : results[i] \in Result
  BY ResultsFunction
<1>2. \A r \in Result : [[r EXCEPT !.final = @ \ keys] EXCEPT !.final = {}] = [r EXCEPT !.final = {}]
  BY DEF Result
<1>3. DOMAIN Clear(results, keys) = DOMAIN results
  BY ClearType
<1>4. \A i \in DOMAIN results :
        [Clear(results, keys)[i] EXCEPT !.final = {}] = [results[i] EXCEPT !.final = {}]
  BY <1>1, <1>2 DEF Clear
<1> QED BY <1>3, <1>4 DEF Drained

LEMMA ApplyCopy ==
  ASSUME Accounts, NEW s \in Sheets, Apply(s)
  PROVE  /\ HasSelected(mem'[target][s])
         /\ \A t \in Sheets : t # s => mem'[target][t] = mem[target][t]
         /\ \A b \in Batches, t \in Sheets :
              b # target \/ t # s => Drained(mem'[b][t]) = Drained(mem[b][t])
<1>a. mem \in Column /\ target \in Batches /\ force \in BOOLEAN
  BY DEF Accounts, TypeOK
<1>1. PICK crops \in SUBSET CropsOf[target][s] \ {{}} : mem' = Store(mem, target, s, force, crops)
  BY DEF Apply
<1>2. crops \in SUBSET Keys
  BY <1>a, <1>1, LayoutAssumption
<1>3. \E i \in DOMAIN mem'[target][s] : mem'[target][s][i].sel
  BY <1>a, <1>1, <1>2, StoreEntries
<1>4. /\ \A t \in Sheets : t # s => mem'[target][t] = mem[target][t]
      /\ \A b \in Batches : b # target => \A t \in Sheets : mem'[b][t] = Clear(mem[b][t], crops)
  BY <1>a, <1>1, <1>2, StoreEffect
<1>5. \A b \in Batches, t \in Sheets : b # target => Drained(mem'[b][t]) = Drained(mem[b][t])
  <2> TAKE b \in Batches, t \in Sheets
  <2>1. mem[b][t] \in Seq(Result)
    BY <1>a DEF Column
  <2> QED BY <1>4, <2>1, ClearDrained
<1> QED BY <1>3, <1>4, <1>5 DEF HasSelected

LEMMA CopyStep ==
  ASSUME Accounts, CopyInStep, [Next]_vars
  PROVE  CopyInStep'
<1> USE DEF request, work, limits
<1>a. SheetsInStep /\ TallyMatchesMarks /\ mark \in [Sheets -> Marks]
  BY DEF Accounts, TypeOK
<1>1. CASE Enqueue
  BY <1>1 DEF Enqueue, CopyInStep
<1>2. CASE Patch
  BY <1>2 DEF Patch, CopyInStep, Marked, Ended, Returned
<1>3. CASE RequestCancel
  BY <1>3 DEF RequestCancel, CopyInStep, Marked
<1>4. CASE Before
  <2>1. CASE Load
    BY <2>1 DEF Load, CopyInStep
  <2>2. CASE LoadFault
    BY <2>2 DEF LoadFault, CopyInStep
  <2>3. CASE FirstPoll
    BY <2>3 DEF FirstPoll, CopyInStep
  <2> QED BY <1>4, <2>1, <2>2, <2>3 DEF Before
<1>5. CASE After
  <2>1. CASE Gathered
    <3>1. CASE tally.processed > 0
      BY <2>1, <3>1 DEF Gathered, CopyInStep
    <3>2. CASE ~(tally.processed > 0)
      <4>1. Cardinality(Marked("done")) \in Nat /\ IsFiniteSet(Marked("done"))
        BY SheetSets DEF Marked
      <4>2. Marked("done") = {}
        BY <1>a, <3>2, <4>1, FS_EmptySet DEF TallyMatchesMarks
      <4>3. phase' = "settling" /\ UNCHANGED <<column, mem, target, mark>>
        BY <2>1, <3>2 DEF Gathered
      <4>4. Marked("done")' = {}
        BY <4>2, <4>3 DEF Marked
      <4> QED BY <4>3, <4>4 DEF CopyInStep
    <3> QED BY <3>1, <3>2
  <2>2. CASE Persist
    BY <2>2 DEF Persist, CopyInStep
  <2>3. CASE PersistFault
    <3>1. \A s \in Sheets : mark'[s] # "done"
      BY <1>a, <2>3 DEF PersistFault
    <3> QED BY <2>3, <3>1 DEF PersistFault, CopyInStep, Marked
  <2>4. CASE ReportDemoted
    BY <2>4 DEF ReportDemoted, CopyInStep, Marked
  <2>5. CASE Settle
    BY <2>5 DEF Settle, CopyInStep
  <2> QED BY <1>5, <2>1, <2>2, <2>3, <2>4, <2>5 DEF After
<1>6. CASE HandlerFault
  BY <1>6 DEF HandlerFault, CopyInStep
<1>7. CASE Abort
  BY <1>7 DEF Abort, CopyInStep
<1>8. ASSUME NEW s \in Sheets, DoSheet(s) PROVE CopyInStep'
  <2>0. sheet[s] \in {"waiting", "working", "polling", "cutting", "finishing"}
    BY <1>8 DEF DoSheet, SheetBegins, SheetFails, Heartbeat, PollSheet, PollFault, Apply, Finish
  <2>1. phase \notin {"polling", "persisting", "demoting", "settling"}
    BY <1>a, <2>0 DEF SheetsInStep
  <2>2. CASE Apply(s)
    <3>1. /\ mark' = [mark EXCEPT ![s] = "done"]
          /\ UNCHANGED <<column, target, phase>>
      BY <2>2 DEF Apply, Settled
    <3>2. \A t \in Sheets : mark'[t] = "done" => HasSelected(mem'[target][t])
      BY <1>a, <2>2, <3>1, ApplyCopy DEF CopyInStep
    <3>3. \A b \in Batches, t \in Sheets :
            phase = "gathering" /\ (b # target \/ mark'[t] # "done")
              => Drained(mem'[b][t]) = Drained(column[b][t])
      BY <1>a, <2>2, <3>1, ApplyCopy DEF CopyInStep
    <3> QED BY <2>1, <3>1, <3>2, <3>3 DEF CopyInStep
  <2>3. CASE ~Apply(s)
    <3>1. /\ UNCHANGED <<column, mem, target>>
          /\ phase' \in {phase, "raised"}
          /\ \A t \in Sheets : mark'[t] = "done" <=> mark[t] = "done"
      BY <1>a, <1>8, <2>0, <2>3
      DEF DoSheet, SheetBegins, SheetFails, Heartbeat, PollSheet, PollFault, Finish, Settled,
          SheetsInStep, Over
    <3> QED BY <2>1, <3>1 DEF CopyInStep
  <2> QED BY <2>2, <2>3
<1>9. CASE UNCHANGED vars
  BY <1>9 DEF vars, CopyInStep, Marked
<1> QED BY <1>1, <1>2, <1>3, <1>4, <1>5, <1>6, <1>7, <1>8, <1>9 DEF Next, Client

LEMMA CopyInvariant == Spec => [](Accounts /\ CopyInStep)
<1>1. Init => CopyInStep
  BY DEF Init, CopyInStep, Marked
<1>2. Accounts /\ CopyInStep /\ [Next]_vars => CopyInStep'
  BY CopyStep
<1> QED BY <1>1, <1>2, AccountsInvariant, PTL DEF Spec

LEMMA StoredStep ==
  ASSUME Accounts, CopyInStep, [Next]_vars, phase \in Running, phase' \in Returned,
         NEW s \in Sheets, mark'[s] = "done"
  PROVE  HasSelected(column'[target][s]) /\ column'[target][s] = mem'[target][s]
<1> USE DEF request, work, limits
<1>a. SheetsInStep /\ mark \in [Sheets -> Marks] /\ phase # phase'
  BY DEF Accounts, TypeOK, Running, Returned
<1>1. ASSUME Settle
      PROVE  HasSelected(column'[target][s]) /\ column'[target][s] = mem'[target][s]
  <2>1. mark[s] = "done" /\ UNCHANGED <<column, mem>> /\ phase = "settling"
    BY <1>1 DEF Settle
  <2> QED BY <2>1 DEF CopyInStep, Marked
<1>2. ~(Load \/ LoadFault \/ FirstPoll)
  BY <1>a DEF Load, LoadFault, FirstPoll, SheetsInStep
<1>3. ~(Gathered \/ Persist \/ PersistFault \/ ReportDemoted \/ HandlerFault \/ Abort \/ Client)
  BY <1>a DEF Gathered, Persist, PersistFault, ReportDemoted, HandlerFault, Abort, Client, Enqueue, Patch,
     RequestCancel, Returned
<1>4. ASSUME NEW t \in Sheets, DoSheet(t) PROVE FALSE
  BY <1>a, <1>4 DEF DoSheet, SheetBegins, SheetFails, Heartbeat, PollSheet, PollFault, Apply, Finish, Returned
<1>5. ~UNCHANGED vars
  BY <1>a DEF vars
<1> QED BY <1>1, <1>2, <1>3, <1>4, <1>5 DEF Next, Before, After

\* ReportedIsStored: every sheet a returned result calls done is in the database.
THEOREM DoneIsStored == Spec => ReportedIsStored
<1>1. Accounts /\ CopyInStep /\ [Next]_vars
        => [(phase \in Running /\ phase' \in Returned) =>
              \A s \in Sheets : mark'[s] = "done" =>
                HasSelected(column'[target][s]) /\ column'[target][s] = mem'[target][s]]_vars
  BY StoredStep
<1> QED BY <1>1, CopyInvariant, PTL DEF Spec, ReportedIsStored

LEMMA UntouchedStep ==
  ASSUME Accounts, CopyInStep, [Next]_vars, phase \in Running,
         NEW b \in Batches, NEW s \in Sheets, b # target \/ mark[s] # "done"
  PROVE  Drained(column'[b][s]) = Drained(column[b][s])
<1> USE DEF request, work, limits
<1>1. CASE phase = "persisting" /\ column' = mem
  BY <1>1 DEF CopyInStep
<1>2. CASE UNCHANGED column
  BY <1>2
<1>3. ASSUME NEW t \in Sheets, DoSheet(t) PROVE UNCHANGED column
  BY <1>3 DEF DoSheet, SheetBegins, SheetFails, Heartbeat, PollSheet, PollFault, Apply, Finish
<1>4. ~(Enqueue \/ Patch)
  BY DEF Enqueue, Patch, Running, Ended, Returned
<1> QED BY <1>1, <1>2, <1>3, <1>4
  DEF Next, Client, Before, After, vars, RequestCancel, Load, LoadFault, FirstPoll, Gathered, Persist,
      PersistFault, ReportDemoted, Settle, HandlerFault, Abort

\* UntouchedUnlessDone: a run changes the stored results of the sheets it did, and no other.
THEOREM OthersUntouched == Spec => UntouchedUnlessDone
<1>1. Accounts /\ CopyInStep /\ [Next]_vars
        => [(phase \in Running) =>
              \A b \in Batches, s \in Sheets :
                b # target \/ mark[s] # "done" => Drained(column'[b][s]) = Drained(column[b][s])]_vars
  BY UntouchedStep DEF vars
<1> QED BY <1>1, CopyInvariant, PTL DEF Spec, UntouchedUnlessDone
=============================================================================
