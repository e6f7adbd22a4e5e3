-------------------------- MODULE SwapSheetsProofs --------------------------
(***************************************************************************)
(* What SwapSheets guarantees for any sheets, crops, targets, concurrency  *)
(* and number of database errors, and SheetFrames for any layout and any   *)
(* strokes.                                                                *)
(***************************************************************************)
EXTENDS MCSwapSheets, OrderLemmas, FiniteSetTheorems, SequenceTheorems, TLAPS

-----------------------------------------------------------------------------
(* The operators on results                                                *)

\* A result list is a function on 1 .. n.
LEMMA ListShape ==
  ASSUME NEW results \in Seq(Result)
  PROVE  /\ Len(results) \in Nat
         /\ DOMAIN results = 1 .. Len(results)
         /\ \A i \in DOMAIN results : results[i] \in Result
BY LenProperties, ElementOfSeq

LEMMA ListMapped ==
  ASSUME NEW results \in Seq(Result), NEW f \in [DOMAIN results -> Result]
  PROVE  f \in Seq(Result) /\ DOMAIN f = DOMAIN results
<1>1. Len(results) \in Nat /\ DOMAIN results = 1 .. Len(results)
  BY ListShape
<1> QED BY <1>1

LEMMA UnselectShape ==
  ASSUME NEW results \in Seq(Result)
  PROVE  /\ Unselect(results) \in Seq(Result)
         /\ DOMAIN Unselect(results) = DOMAIN results
         /\ \A i \in DOMAIN results :
              /\ ~Unselect(results)[i].sel
              /\ Unselect(results)[i].final = results[i].final
<1>1. \A i \in DOMAIN results : results[i] \in Result
  BY ListShape
<1>2. Unselect(results) \in [DOMAIN results -> Result]
  BY <1>1 DEF Unselect, Result
<1>3. \A i \in DOMAIN results : ~Unselect(results)[i].sel /\ Unselect(results)[i].final = results[i].final
  BY <1>1 DEF Unselect, Result
<1> QED BY <1>2, <1>3, ListMapped

LEMMA ClearedShape ==
  ASSUME NEW results \in Seq(Result), NEW keys
  PROVE  /\ Cleared(results, keys) \in Seq(Result)
         /\ DOMAIN Cleared(results, keys) = DOMAIN results
         /\ \A i \in DOMAIN results :
              /\ Cleared(results, keys)[i].sel = results[i].sel
              /\ Cleared(results, keys)[i].final = results[i].final \ keys
<1>1. \A i \in DOMAIN results : results[i] \in Result
  BY ListShape
<1>2. Cleared(results, keys) \in [DOMAIN results -> Result]
  BY <1>1 DEF Cleared, Result
<1>3. \A i \in DOMAIN results :
        /\ Cleared(results, keys)[i].sel = results[i].sel
        /\ Cleared(results, keys)[i].final = results[i].final \ keys
  BY <1>1 DEF Cleared, Result
<1> QED BY <1>2, <1>3, ListMapped

\* The list of a sheet that is done: unselected history, or none, and one selected result.
LEMMA AddedShape ==
  ASSUME NEW results \in Seq(Result), NEW f \in BOOLEAN, NEW crops \in SUBSET Keys
  PROVE  LET new == AddResult(results, f, crops, crops)
             n == Len(new)
         IN  /\ new \in Seq(Result)
             /\ n \in DOMAIN new
             /\ new[n] = [sel |-> TRUE, crops |-> crops, final |-> crops]
             /\ \A i \in DOMAIN new : i # n =>
                  /\ i \in DOMAIN results
                  /\ ~new[i].sel
                  /\ new[i].final = results[i].final
<1> DEFINE old == IF f THEN << >> ELSE Unselect(results)
           r == [sel |-> TRUE, crops |-> crops, final |-> crops]
           new == AddResult(results, f, crops, crops)
<1>1. old \in Seq(Result) /\ r \in Result
  <2>1. r \in Result
    BY DEF Result
  <2>2. Unselect(results) \in Seq(Result)
    BY UnselectShape
  <2>3. << >> \in Seq(Result)
    BY EmptySeq
  <2> QED BY <2>1, <2>2, <2>3
<1>2. new = Append(old, r)
  BY DEF AddResult
<1> HIDE DEF old, r, new
<1>3. /\ new \in Seq(Result) /\ Len(new) = Len(old) + 1 /\ new[Len(new)] = r
      /\ \A i \in 1 .. Len(old) : new[i] = old[i]
  BY <1>1, <1>2
<1>4. Len(old) \in Nat /\ DOMAIN new = 1 .. (Len(old) + 1) /\ DOMAIN old = 1 .. Len(old)
  BY <1>1, <1>3, LenProperties
<1>5. ASSUME NEW i \in DOMAIN new, i # Len(new)
      PROVE  i \in DOMAIN results /\ ~new[i].sel /\ new[i].final = results[i].final
  <2>1. i \in DOMAIN old /\ new[i] = old[i]
    BY <1>3, <1>4, <1>5
  <2>2. CASE f
    <3>1. old = << >>
      BY <2>2 DEF old
    <3> QED BY <1>4, <2>1, <3>1
  <2>3. CASE ~f
    BY <2>1, <2>3, UnselectShape DEF old
  <2> QED BY <2>2, <2>3
<1>6. new[Len(new)] = [sel |-> TRUE, crops |-> crops, final |-> crops]
  BY <1>3 DEF r
<1> QED BY <1>3, <1>4, <1>5, <1>6 DEF new

-----------------------------------------------------------------------------
(* Storing a sheet in the handler's copy                                   *)

Copies == [column : [Sheets -> Seq(Result)], rest : SUBSET Keys]

LEMMA StoreShape ==
  ASSUME kind \in Kinds, force \in BOOLEAN, mem \in Copies, NEW s \in Sheets, NEW crops \in SUBSET Keys
  PROVE  LET st == Store(s, crops)
         IN  /\ st \in Copies
             /\ st.rest = IF kind = "sprite" THEN mem.rest ELSE mem.rest \ crops
             /\ st.column[s] = AddResult(mem.column[s], force, crops, crops)
             /\ \A t \in Sheets : t # s =>
                  st.column[t] = IF kind = "sprite" THEN Cleared(mem.column[t], crops) ELSE mem.column[t]
<1> DEFINE new == AddResult(mem.column[s], force, crops, crops)
           col == IF kind = "sprite"
                  THEN [t \in Sheets |-> IF t = s THEN new ELSE Cleared(mem.column[t], crops)]
                  ELSE [mem.column EXCEPT ![s] = new]
           other == IF kind = "sprite" THEN mem.rest ELSE mem.rest \ crops
<1>1. mem.column \in [Sheets -> Seq(Result)] /\ mem.rest \in SUBSET Keys
  BY DEF Copies
<1>2. new \in Seq(Result)
  BY <1>1, AddedShape
<1>3. \A t \in Sheets : Cleared(mem.column[t], crops) \in Seq(Result)
  BY <1>1, ClearedShape
<1>4. Store(s, crops).column = col /\ Store(s, crops).rest = other /\ Store(s, crops) = [column |-> col, rest |-> other]
  BY <1>1 DEF Store, StoreMix, StoreSprite, Copies
<1> HIDE DEF new
<1>5. col \in [Sheets -> Seq(Result)] /\ other \in SUBSET Keys
  BY <1>1, <1>2, <1>3
<1>6. col[s] = new /\ \A t \in Sheets : t # s => col[t] = IF kind = "sprite" THEN Cleared(mem.column[t], crops) ELSE mem.column[t]
  BY <1>1
<1> HIDE DEF col, other
<1>7. Store(s, crops) \in Copies
  BY <1>4, <1>5 DEF Copies
<1> QED BY <1>4, <1>6, <1>7 DEF new, col, other

-----------------------------------------------------------------------------
(* Types                                                                   *)

Tallies == [swapped : Nat, skipped : Nat, failed : Nat, done : Nat]

\* No more sheets are marked done than were counted as swapped.
SwappedCovers == Cardinality(Marked("done")) <= tally.swapped

LEMMA MarkedFinite == \A T \in SUBSET Sheets : IsFiniteSet(T) /\ Cardinality(T) \in Nat
BY CapsAssumption, FS_Subset, FS_CardinalityType

LEMMA CropsAreKeys == kind \in Kinds => \A s \in Sheets : Crops(s) \in SUBSET Keys
BY LayoutAssumption DEF Crops, Kinds

LEMMA PastType == kind \in Kinds => \A s \in Sheets : Past(s) \subseteq Seq(Result)
<1> SUFFICES ASSUME kind \in Kinds, NEW s \in Sheets, NEW p \in Past(s) PROVE p \in Seq(Result)
  OBVIOUS
<1>1. CASE p = << >>
  BY <1>1, EmptySeq
<1>2. CASE p # << >>
  <2>1. PICK b \in BOOLEAN : p = <<[sel |-> b, crops |-> Crops(s), final |-> Crops(s)]>>
    BY <1>2 DEF Past
  <2>2. [sel |-> b, crops |-> Crops(s), final |-> Crops(s)] \in Result
    BY CropsAreKeys DEF Result
  <2> DEFINE r == [sel |-> b, crops |-> Crops(s), final |-> Crops(s)]
  <2> HIDE DEF r
  <2>3. <<r>> \in Seq(Result)
    BY <2>2 DEF r
  <2> QED BY <2>1, <2>3 DEF r
<1> QED BY <1>1, <1>2

LEMMA TypeInit == Init => TypeOK /\ SwappedCovers
<1> SUFFICES ASSUME Init PROVE TypeOK /\ SwappedCovers
  OBVIOUS
<1>1. kind \in Kinds /\ rest \in SUBSET Keys
  BY LayoutAssumption DEF Init, RequestMix, RequestSprite, RequestUpscale, Kinds
<1>2. column \in [Sheets -> Seq(Result)]
  BY <1>1, PastType DEF Init
<1>3. mark \in [Sheets -> {"none", "pending"}]
  BY DEF Init
<1>4. mem \in [column : [Sheets -> Seq(Result)], rest : SUBSET Keys]
  BY <1>1, <1>2 DEF Init
<1>5. row \in [step : Nat, marks : [Sheets -> Marks]]
  <2>1. mark \in [Sheets -> Marks]
    BY <1>3 DEF Marks
  <2> QED BY <2>1 DEF Init
<1>6. tally \in [swapped : Nat, skipped : Nat, failed : Nat, done : Nat] /\ tally.swapped = 0
  BY DEF Init
<1>7. crop \in [Sheets -> [Keys -> CropStates]] /\ cut \in [Sheets -> SUBSET Keys]
  BY DEF Init, CropStates
<1>8. TypeOK
  BY <1>1, <1>2, <1>3, <1>4, <1>5, <1>6, <1>7 DEF Init, TypeOK, Phases, Returned, SheetStates, Stages, Marks
<1>9. Marked("done") = {}
  BY <1>3 DEF Marked
<1> QED BY <1>6, <1>8, <1>9, FS_EmptySet DEF SwappedCovers

LEMMA TwoCounters ==
  ASSUME tally \in Tallies, NEW field \in {"swapped", "skipped", "failed"}, NEW x \in Nat, NEW y \in Nat
  PROVE  [tally EXCEPT ![field] = x, !.done = y] \in Tallies
BY DEF Tallies

LEMMA CountedType ==
  ASSUME tally \in Tallies, NEW field \in {"swapped", "skipped", "failed"}
  PROVE  [tally EXCEPT ![field] = @ + 1, !.done = @ + 1] \in Tallies
<1>1. tally[field] + 1 \in Nat /\ tally.done + 1 \in Nat
  BY DEF Tallies
<1> QED BY <1>1, TwoCounters

\* A sheet that settles.
LEMMA SettledType ==
  ASSUME TypeOK, SwappedCovers, NEW s \in Sheets, NEW m \in Marks, NEW field \in {"swapped", "skipped", "failed"},
         Settled(s, m, field), m = "done" => field = "swapped"
  PROVE  /\ sheet' \in [Sheets -> SheetStates] /\ mark' \in [Sheets -> Marks]
         /\ tally' \in Tallies /\ broken' \subseteq Sheets
         /\ SwappedCovers'
<1>1. /\ sheet' \in [Sheets -> SheetStates] /\ mark' \in [Sheets -> Marks]
      /\ tally' \in Tallies /\ broken' \subseteq Sheets
  <2>1. sheet' \in [Sheets -> SheetStates]
    BY DEF TypeOK, Settled, SheetStates, Stages
  <2>2. mark' \in [Sheets -> Marks] /\ broken' \subseteq Sheets
    BY DEF TypeOK, Settled
  <2>3. tally' \in Tallies
    BY CountedType DEF TypeOK, Settled, Tallies
  <2> QED BY <2>1, <2>2, <2>3
<1>2. SwappedCovers'
  <2>1. Marked("done") \in SUBSET Sheets /\ Marked("done")' \in SUBSET Sheets
    BY DEF Marked
  <2>2. tally.swapped \in Nat /\ tally'.swapped = IF field = "swapped" THEN tally.swapped + 1 ELSE tally.swapped
    BY DEF TypeOK, Settled
  <2>3. CASE m = "done"
    <3>1. Marked("done")' = Marked("done") \cup {s}
      <4>1. mark' = [mark EXCEPT ![s] = "done"] /\ mark \in [Sheets -> Marks]
        BY <2>3 DEF Settled, TypeOK
      <4> QED BY <4>1 DEF Marked
    <3>2. Cardinality(Marked("done")') <= Cardinality(Marked("done")) + 1
      BY <3>1, <2>1, MarkedFinite, FS_AddElement
    <3> QED BY <2>1, <2>2, <2>3, <3>2, MarkedFinite DEF SwappedCovers
  <2>4. CASE m # "done"
    <3>1. Marked("done")' \in SUBSET Marked("done")
      BY <2>4 DEF Marked, Settled, TypeOK
    <3>2. Cardinality(Marked("done")') <= Cardinality(Marked("done"))
      BY <3>1, <2>1, MarkedFinite, FS_Subset
    <3> QED BY <2>1, <2>2, <3>2, MarkedFinite DEF SwappedCovers
  <2> QED BY <2>3, <2>4
<1> QED BY <1>1, <1>2

\* Marks that change without anything being done.
LEMMA CoversStays ==
  ASSUME TypeOK, SwappedCovers, \A s \in Sheets : mark'[s] = "done" => mark[s] = "done",
         tally'.swapped = tally.swapped
  PROVE  SwappedCovers'
<1>1. Marked("done") \in SUBSET Sheets /\ Marked("done")' \in SUBSET Marked("done")
  BY DEF Marked
<1>2. Cardinality(Marked("done")') <= Cardinality(Marked("done"))
  BY <1>1, MarkedFinite, FS_Subset
<1>3. Cardinality(Marked("done")') \in Nat /\ Cardinality(Marked("done")) \in Nat /\ tally.swapped \in Nat
  BY <1>1, MarkedFinite DEF TypeOK
<1> QED BY <1>2, <1>3 DEF SwappedCovers

LEMMA BrokenType ==
  ASSUME TypeOK, SwappedCovers, NEW s \in Sheets, Broken(s)
  PROVE  /\ sheet' \in [Sheets -> SheetStates] /\ mark' \in [Sheets -> Marks]
         /\ tally' \in Tallies /\ broken' \subseteq Sheets
         /\ SwappedCovers'
<1>1. CASE kind = "sprite"
  <2>1. /\ sheet' \in [Sheets -> SheetStates] /\ mark' = mark
        /\ tally' \in Tallies /\ broken' \subseteq Sheets /\ tally'.swapped = tally.swapped
    <3>1. sheet' \in [Sheets -> SheetStates] /\ mark' = mark /\ broken' \subseteq Sheets
      BY <1>1 DEF TypeOK, Broken, SheetStates, Stages
    <3>2. tally' = [tally EXCEPT !.done = @ + 1]
      BY <1>1 DEF Broken
    <3>3. tally \in Tallies
      BY DEF TypeOK, Tallies
    <3>4. tally' \in Tallies /\ tally'.swapped = tally.swapped
      BY <3>2, <3>3 DEF Tallies
    <3> QED BY <3>1, <3>4
  <2> QED BY <2>1, CoversStays DEF TypeOK
<1>2. CASE kind # "sprite"
  BY <1>2, SettledType DEF Broken, Marks
<1> QED BY <1>1, <1>2

\* The handler's copy after a sheet is applied.
LEMMA ApplyType ==
  ASSUME TypeOK, SwappedCovers, NEW s \in Sheets, NEW crops \in SUBSET Keys, Apply(s, crops)
  PROVE  /\ mem' \in Copies /\ cut' \in [Sheets -> SUBSET Keys]
         /\ sheet' \in [Sheets -> SheetStates] /\ mark' \in [Sheets -> Marks]
         /\ tally' \in Tallies /\ broken' \subseteq Sheets
         /\ SwappedCovers'
<1>1. mem' \in Copies
  BY StoreShape DEF Apply, TypeOK, Copies
<1>2. cut' \in [Sheets -> SUBSET Keys]
  BY DEF Apply, TypeOK
<1> QED BY <1>1, <1>2, SettledType DEF Apply, Marks

\* A run's steps that move only positions and marks.
LEMMA DoSheetType ==
  ASSUME TypeOK, SwappedCovers, NEW s \in Sheets, DoSheet(s)
  PROVE  TypeOK' /\ SwappedCovers'
<1> USE DEF run, db, told
<1>1. ASSUME NEW m \in Marks, NEW field \in {"swapped", "skipped", "failed"}, Settled(s, m, field),
             m = "done" => field = "swapped",
             UNCHANGED <<run, cancelReq, db, mem, phase, crop, cut, told, faults>>
      PROVE  TypeOK' /\ SwappedCovers'
  BY <1>1, SettledType DEF TypeOK, Tallies
<1>2. ASSUME NEW stage \in SheetStates, Goes(s, stage), UNCHANGED <<mark, broken, tally>>,
             UNCHANGED <<run, cancelReq, db, mem, phase, crop, cut, told, faults>>
      PROVE  TypeOK' /\ SwappedCovers'
  <2>1. SwappedCovers'
    BY <1>2 DEF SwappedCovers, Marked
  <2> QED BY <1>2, <2>1 DEF Goes, TypeOK
<1>3. ASSUME NEW stage \in SheetStates, Goes(s, stage), NEW m \in Marks \ {"done"},
             mark' = [mark EXCEPT ![s] = m], UNCHANGED <<broken, tally>>, crop' \in [Sheets -> [Keys -> CropStates]],
             UNCHANGED <<run, cancelReq, db, mem, phase, cut, told, faults>>
      PROVE  TypeOK' /\ SwappedCovers'
  <2>1. mark' \in [Sheets -> Marks] /\ sheet' \in [Sheets -> SheetStates]
    BY <1>3 DEF Goes, TypeOK
  <2>2. SwappedCovers'
    BY <1>3, CoversStays DEF TypeOK
  <2> QED BY <1>3, <2>1, <2>2 DEF TypeOK
<1>4. ASSUME NEW crops \in SUBSET Keys, Apply(s, crops),
             UNCHANGED <<run, cancelReq, db, phase, crop, told, faults>>
      PROVE  TypeOK' /\ SwappedCovers'
  BY <1>4, ApplyType DEF TypeOK, Tallies, Copies
<1>5. CASE Refused(s)
  <2>1. Admission(tagged[s]) \in {"skipped", "failed"}
    BY <1>5 DEF Refused, Admission
  <2> QED BY <1>1, <1>5, <2>1 DEF Refused, Marks
<1>6. CASE Begins(s)
  BY <1>3, <1>6 DEF Begins, TypeOK, SheetStates, Stages, Marks
<1>7. CASE Upload(s)
  BY <1>3, <1>7 DEF Upload, TypeOK, SheetStates, Stages, Marks
<1>8. CASE BeginsUpscale(s)
  <2>1. crop' \in [Sheets -> [Keys -> CropStates]]
    BY <1>8 DEF BeginsUpscale, TypeOK, CropStates
  <2> QED BY <1>3, <1>8, <2>1 DEF BeginsUpscale, SheetStates, Stages, Marks
<1>9. ASSUME NEW from, NEW to \in Stages, Advance(s, from, to) PROVE TypeOK' /\ SwappedCovers'
  BY <1>2, <1>9 DEF Advance, SheetStates
<1>10. CASE \/ FetchCrops(s) \/ Compose(s) \/ CollectVariants(s) \/ ComposeVariants(s) \/ CollectHumans(s)
            \/ GuardMix(s) \/ GuardSprite(s) \/ CallMix(s) \/ CallSprite(s)
  BY <1>9, <1>10 DEF FetchCrops, Compose, CollectVariants, ComposeVariants, CollectHumans, GuardMix,
       GuardSprite, CallMix, CallSprite, Stages
<1>11. CASE CropsFail(s) \/ ReferencesFail(s) \/ StageFails(s)
  BY <1>1, <1>11 DEF CropsFail, ReferencesFail, StageFails, Fails, Marks
<1>12. CASE PollSheet(s)
  BY <1>1, <1>2, <1>12 DEF PollSheet, Marks, SheetStates, Stages
<1>13. CASE PollFault(s)
  <2>1. faults' \in Nat
    BY <1>13 DEF PollFault, Fault, TypeOK
  <2> QED BY <1>13, <2>1, BrokenType DEF PollFault, TypeOK, Tallies
<1>14. CASE CutMix(s)
  <2>1. PICK crops \in SUBSET Crops(s) \ {{}} : Apply(s, crops)
    BY <1>14 DEF CutMix, NativePieces
  <2>2. crops \in SUBSET Keys
    BY <2>1, CropsAreKeys DEF TypeOK
  <2> QED BY <1>4, <1>14, <2>1, <2>2 DEF CutMix, NativePieces
<1>15. CASE CutSprite(s)
  <2>1. cut' \in [Sheets -> SUBSET Keys]
    BY <1>15, CropsAreKeys DEF CutSprite, TypeOK
  <2>2. SwappedCovers'
    BY <1>15 DEF CutSprite, SwappedCovers, Marked
  <2>3. sheet' \in [Sheets -> SheetStates]
    BY <1>15 DEF CutSprite, Goes, TypeOK, SheetStates, Stages
  <2> QED BY <1>15, <2>1, <2>2, <2>3 DEF CutSprite, TypeOK
<1>16. CASE RepollSprite(s)
  <2>1. cut[s] \in SUBSET Keys
    BY DEF TypeOK
  <2>2. CASE cancelReq
    BY <1>1, <1>16, <2>2 DEF RepollSprite, Marks
  <2>3. CASE ~cancelReq
    BY <1>4, <1>16, <2>1, <2>3 DEF RepollSprite
  <2> QED BY <2>2, <2>3
<1>17. CASE CropsGathered(s)
  BY <1>1, <1>2, <1>17 DEF CropsGathered, Marks, SheetStates, Stages
<1>18. CASE JudgeUpscale(s)
  <2>1. {k \in Keys : crop[s][k] = "kept"} \in SUBSET Keys
    OBVIOUS
  <2>2. CASE cancelReq
    BY <1>1, <1>18, <2>2 DEF JudgeUpscale, Marks
  <2>3. CASE ~cancelReq
    <3>1. Apply(s, {k \in Keys : crop[s][k] = "kept"}) /\ UNCHANGED <<run, cancelReq, db, phase, crop, told, faults>>
      BY <1>18, <2>3 DEF JudgeUpscale
    <3> QED BY <1>4, <2>1, <3>1
  <2> QED BY <2>2, <2>3
<1> QED BY <1>5, <1>6, <1>7, <1>8, <1>10, <1>11, <1>12, <1>13, <1>14, <1>15, <1>16, <1>17, <1>18 DEF DoSheet

LEMMA CropTypes ==
  ASSUME TypeOK, SwappedCovers, NEW s \in Sheets, NEW k \in Keys, DoCrop(s, k)
  PROVE  TypeOK' /\ SwappedCovers'
<1> USE DEF run, db, told
<1>1. crop' \in [Sheets -> [Keys -> CropStates]] /\ mark' \in [Sheets -> Marks]
  <2>1. CASE CropBegins(s, k)
    BY <2>1 DEF CropBegins, TypeOK, CropStates
  <2>2. CASE CropWorked(s, k)
    <3>1. PICK end \in {"keeping", "dropping"} : crop' = [crop EXCEPT ![s][k] = end]
      BY <2>2 DEF CropWorked
    <3>2. mark' = [mark EXCEPT ![s] = "processing"]
      BY <2>2 DEF CropWorked
    <3> QED BY <3>1, <3>2 DEF TypeOK, CropStates, Marks
  <2> QED BY <2>1, <2>2 DEF DoCrop
<1>2. UNCHANGED <<run, cancelReq, db, mem, phase, sheet, cut, broken, tally, told, faults>>
  BY DEF DoCrop, CropBegins, CropWorked
<1>3. \A t \in Sheets : mark'[t] = "done" => mark[t] = "done"
  BY DEF DoCrop, CropBegins, CropWorked, TypeOK
<1> QED BY <1>1, <1>2, <1>3, CoversStays DEF TypeOK

LEMMA ReportTypes ==
  ASSUME TypeOK, SwappedCovers, Reporting
  PROVE  TypeOK' /\ SwappedCovers'
<1> USE DEF run, db, work, told
<1> DEFINE Wire == [from : Reporters, step : Nat, marks : [Sheets -> Marks]]
<1>0. \A r \in wires : r.step \in Nat /\ r.marks \in [Sheets -> Marks] /\ r.from \in Reporters
  BY DEF TypeOK
<1>1. ASSUME NEW t \in Reporters, Send(t) PROVE TypeOK' /\ SwappedCovers'
  <2>1. wires' \subseteq Wire
    BY <1>1 DEF Send, TypeOK
  <2>2. SwappedCovers'
    BY <1>1 DEF Send, SwappedCovers, Marked
  <2> QED BY <1>1, <2>1, <2>2 DEF Send, TypeOK
<1>2. ASSUME NEW r \in wires, Lands(r) \/ UNCHANGED row PROVE row' \in [step : Nat, marks : [Sheets -> Marks]]
  BY <1>0, <1>2 DEF Lands, TypeOK
<1>3. ASSUME NEW r \in wires, Continues(r.from)
      PROVE  /\ phase' \in Phases /\ sheet' \in [Sheets -> SheetStates] /\ crop' \in [Sheets -> [Keys -> CropStates]]
             /\ UNCHANGED <<cut, broken, mark, tally>>
  <2>1. CASE phase' = "settling" /\ UNCHANGED work
    BY <2>1 DEF TypeOK, Phases
  <2>2. ASSUME NEW s \in Sheets,
               sheet' = [sheet EXCEPT ![s] = CASE @ = "telling" -> "polling"
                                               [] @ = "retelling" -> "repolling"
                                               [] OTHER -> "finished"],
               phase' = IF sheet[s] = "closing" /\ s \in broken /\ phase = "gathering" THEN "raised" ELSE phase,
               UNCHANGED <<crop, cut, broken, mark, tally>>
        PROVE  phase' \in Phases /\ sheet' \in [Sheets -> SheetStates] /\ crop' \in [Sheets -> [Keys -> CropStates]]
    BY <2>2 DEF TypeOK, Phases, SheetStates, Stages
  <2>3. ASSUME NEW s \in Sheets, NEW k \in Keys,
               crop' = [crop EXCEPT ![s][k] = IF @ = "keeping" THEN "kept" ELSE "dropped"],
               UNCHANGED <<phase, sheet, cut, broken, mark, tally>>
        PROVE  phase' \in Phases /\ sheet' \in [Sheets -> SheetStates] /\ crop' \in [Sheets -> [Keys -> CropStates]]
    BY <2>3 DEF TypeOK, CropStates
  <2> QED BY <1>3, <2>1, <2>2, <2>3 DEF Continues
<1>4. CASE Told
  <2>1. PICK r \in wires : Lands(r) /\ Continues(r.from) /\ wires' = wires \ {r}
                           /\ UNCHANGED <<run, cancelReq, db, mem, faults>>
    BY <1>4 DEF Told
  <2>2. SwappedCovers'
    BY <1>3, <2>1 DEF SwappedCovers, Marked
  <2>3. wires' \subseteq Wire
    BY <2>1 DEF TypeOK
  <2>4. row' \in [step : Nat, marks : [Sheets -> Marks]]
    BY <1>2, <2>1
  <2> QED BY <1>3, <2>1, <2>2, <2>3, <2>4 DEF TypeOK
<1>5. ASSUME NEW r \in wires, Breaks(r.from)
      PROVE  /\ phase' \in Phases /\ crop' \in [Sheets -> [Keys -> CropStates]] /\ cut' = cut
             /\ sheet' \in [Sheets -> SheetStates] /\ mark' \in [Sheets -> Marks]
             /\ tally' \in Tallies /\ broken' \subseteq Sheets
             /\ SwappedCovers'
  <2>0. UNCHANGED <<sheet, mark, tally, broken>> \/ (UNCHANGED <<mark, tally, broken>> /\ \E s \in Sheets : Goes(s, "finished")) =>
          /\ sheet' \in [Sheets -> SheetStates] /\ mark' \in [Sheets -> Marks]
          /\ tally' \in Tallies /\ broken' \subseteq Sheets /\ SwappedCovers'
    <3>1. ASSUME UNCHANGED <<mark, tally, broken>>
          PROVE  /\ mark' \in [Sheets -> Marks] /\ tally' \in Tallies /\ broken' \subseteq Sheets /\ SwappedCovers'
      BY <3>1 DEF TypeOK, Tallies, SwappedCovers, Marked
    <3>2. ASSUME NEW s \in Sheets, Goes(s, "finished") PROVE sheet' \in [Sheets -> SheetStates]
      BY <3>2 DEF TypeOK, Goes, SheetStates
    <3>3. UNCHANGED sheet => sheet' \in [Sheets -> SheetStates]
      BY DEF TypeOK
    <3> QED BY <3>1, <3>2, <3>3
  <2>1. CASE phase' = "raised" /\ UNCHANGED work
    BY <2>0, <2>1 DEF TypeOK, Phases
  <2>2. ASSUME NEW s \in Sheets, UNCHANGED <<crop, cut>>,
               IF sheet[s] = "closing"
               THEN /\ Goes(s, "finished")
                    /\ phase' = IF phase = "gathering" THEN "raised" ELSE phase
                    /\ UNCHANGED <<broken, mark, tally>>
               ELSE Broken(s) /\ UNCHANGED phase
        PROVE  /\ phase' \in Phases /\ crop' \in [Sheets -> [Keys -> CropStates]] /\ cut' = cut
               /\ sheet' \in [Sheets -> SheetStates] /\ mark' \in [Sheets -> Marks]
               /\ tally' \in Tallies /\ broken' \subseteq Sheets
               /\ SwappedCovers'
    <3>1. phase' \in Phases /\ crop' \in [Sheets -> [Keys -> CropStates]] /\ cut' = cut
      BY <2>2 DEF TypeOK, Phases
    <3>2. CASE sheet[s] = "closing"
      BY <2>0, <2>2, <3>1, <3>2
    <3>3. CASE sheet[s] # "closing"
      BY <2>2, <3>1, <3>3, BrokenType
    <3> QED BY <3>2, <3>3
  <2>3. ASSUME NEW s \in Sheets, NEW k \in Keys,
               crop' = [crop EXCEPT ![s][k] = IF sheet[s] = "cropping" THEN "dropped" ELSE "lost"],
               IF sheet[s] = "cropping" THEN Settled(s, "failed", "failed")
               ELSE UNCHANGED <<sheet, broken, mark, tally>>,
               UNCHANGED <<phase, cut>>
        PROVE  /\ phase' \in Phases /\ crop' \in [Sheets -> [Keys -> CropStates]] /\ cut' = cut
               /\ sheet' \in [Sheets -> SheetStates] /\ mark' \in [Sheets -> Marks]
               /\ tally' \in Tallies /\ broken' \subseteq Sheets
               /\ SwappedCovers'
    <3>1. phase' \in Phases /\ crop' \in [Sheets -> [Keys -> CropStates]] /\ cut' = cut
      BY <2>3 DEF TypeOK, CropStates
    <3>2. CASE sheet[s] = "cropping"
      BY <2>3, <3>1, <3>2, SettledType DEF Marks
    <3>3. CASE sheet[s] # "cropping"
      BY <2>0, <2>3, <3>1, <3>3
    <3> QED BY <3>2, <3>3
  <2> QED BY <1>5, <2>1, <2>2, <2>3 DEF Breaks
<1>6. CASE ReportFault
  <2>1. PICK r \in wires : /\ Lands(r) \/ UNCHANGED row
                           /\ Breaks(r.from) /\ wires' = wires \ {r}
    BY <1>6 DEF ReportFault
  <2>2. UNCHANGED <<run, cancelReq, db, mem>> /\ faults' \in Nat
    BY <1>6 DEF ReportFault, Fault, TypeOK
  <2>3. wires' \subseteq Wire
    BY <2>1 DEF TypeOK
  <2>4. row' \in [step : Nat, marks : [Sheets -> Marks]]
    BY <1>2, <2>1
  <2> QED BY <1>5, <2>1, <2>2, <2>3, <2>4 DEF TypeOK, Tallies
<1> QED BY <1>1, <1>4, <1>6 DEF Reporting

LEMMA HandlerTypes ==
  ASSUME TypeOK, SwappedCovers, RequestCancel \/ Edit \/ Before \/ After
  PROVE  TypeOK' /\ SwappedCovers'
<1> USE DEF run, db, work, told
<1>0. mark' = mark /\ tally' = tally => SwappedCovers'
  BY DEF SwappedCovers, Marked
<1>1. CASE RequestCancel
  BY <1>0, <1>1 DEF RequestCancel, TypeOK
<1>2. CASE Edit
  <2>1. << >> \in Seq(Result)
    BY EmptySeq
  <2>2. column' \in [Sheets -> Seq(Result)] /\ gone' \subseteq Sheets
    <3>1. PICK s \in Sheets : column' = [column EXCEPT ![s] = << >>] /\ (gone' = gone \/ gone' = gone \cup {s})
      BY <1>2 DEF Edit
    <3> QED BY <2>1, <3>1 DEF TypeOK
  <2> QED BY <1>0, <1>2, <2>2 DEF Edit, TypeOK
<1>3. CASE Loaded
  <2>1. mark' \in [Sheets -> Marks] /\ phase' \in Phases
    BY <1>3 DEF Loaded, TypeOK, Marks, Phases, Returned
  <2>2. mem' \in [column : [Sheets -> Seq(Result)], rest : SUBSET Keys]
    BY <1>3 DEF Loaded, TypeOK
  <2>3. SwappedCovers'
    <3>1. \A s \in Sheets : mark'[s] = "done" => mark[s] = "done"
      BY <1>3 DEF Loaded
    <3>2. tally' = tally
      BY <1>3 DEF Loaded
    <3> QED BY <3>1, <3>2, CoversStays
  <2> QED BY <1>3, <2>1, <2>2, <2>3 DEF Loaded, TypeOK
<1>4. CASE LoadFails
  BY <1>0, <1>4 DEF LoadFails, TypeOK, Phases, Returned
<1>5. CASE FirstPoll
  <2>1. phase' \in Phases /\ sheet' \in [Sheets -> SheetStates]
    BY <1>5 DEF FirstPoll, TypeOK, Phases, Returned, SheetStates
  <2> QED BY <1>0, <1>5, <2>1 DEF FirstPoll, TypeOK
<1>6. CASE Gathered
  BY <1>0, <1>6 DEF Gathered, TypeOK, Phases
<1>7. CASE Persist
  <2>1. column' \in [Sheets -> Seq(Result)] /\ rest' \subseteq Keys
    BY <1>7 DEF Persist, TypeOK
  <2> QED BY <1>0, <1>7, <2>1 DEF Persist, TypeOK, Phases
<1>8. CASE PersistFault
  <2>1. column' \in [Sheets -> Seq(Result)] /\ rest' \subseteq Keys
    BY <1>8 DEF PersistFault, Unsure, TypeOK
  <2>2. mark' \in [Sheets -> Marks] /\ faults' \in Nat
    BY <1>8 DEF PersistFault, Fault, TypeOK, Marks
  <2> DEFINE n == Cardinality(Marked("done"))
  <2>3. n \in Nat /\ n <= tally.swapped /\ tally \in Tallies
    BY MarkedFinite DEF SwappedCovers, Marked, TypeOK, Tallies
  <2>4. tally' = [tally EXCEPT !.swapped = @ - n, !.failed = @ + n]
    BY <1>8 DEF PersistFault
  <2> HIDE DEF n
  <2>5. tally.swapped - n \in Nat /\ tally.failed + n \in Nat
    BY <2>3 DEF Tallies
  <2>6. tally' \in Tallies /\ tally'.swapped = tally.swapped - n
    BY <2>3, <2>4, <2>5 DEF Tallies
  <2>7. Marked("done")' = {}
    BY <1>8 DEF PersistFault, Marked
  <2>8. SwappedCovers'
    <3>1. Cardinality(Marked("done")') = 0
      BY <2>7, FS_EmptySet
    <3> QED BY <2>5, <2>6, <3>1 DEF SwappedCovers
  <2> QED BY <1>8, <2>1, <2>2, <2>6, <2>8 DEF PersistFault, TypeOK, Phases, Tallies
<1>9. CASE Settle
  BY <1>0, <1>9 DEF Settle, TypeOK, Phases, Returned
<1>10. CASE HandlerFault
  BY <1>0, <1>10 DEF HandlerFault, Fault, TypeOK, Phases
<1> QED BY <1>1, <1>2, <1>3, <1>4, <1>5, <1>6, <1>7, <1>8, <1>9, <1>10
      DEF Before, After, LoadMix, LoadSprite, LoadUpscale

LEMMA TypeStep == TypeOK /\ SwappedCovers /\ [Next]_vars => TypeOK' /\ SwappedCovers'
<1> SUFFICES ASSUME TypeOK, SwappedCovers, [Next]_vars PROVE TypeOK' /\ SwappedCovers'
  OBVIOUS
<1>1. CASE UNCHANGED vars
  BY <1>1 DEF vars, run, db, work, told, TypeOK, SwappedCovers, Marked
<1> QED BY <1>1, HandlerTypes, ReportTypes, DoSheetType, CropTypes DEF Next

\* Every state of the sheet runs is well typed; the demotion never takes a count below zero.
THEOREM TypeCorrect == Spec => []TypeOK
<1> QED BY TypeInit, TypeStep, PTL DEF Spec

-----------------------------------------------------------------------------
(* Winners                                                                 *)

\* Flags are set on a sheet's own crops only, and selected winners do not share a key.
Within(col) == \A s \in Sheets : \A i \in DOMAIN col[s] : col[s][i].final \subseteq Crops(s)
Winners(col, other) == Within(col) /\ SoleWinners(col, other)

\* What a run is about to store is made of its own crops; the cells of a sprite have no neighbour.
OwnCrops ==
  /\ \A s \in Sheets : cut[s] \subseteq Crops(s)
  /\ \A s \in Sheets, k \in Keys : crop[s][k] # "none" => k \in Crops(s)
  /\ kind = "sprite" => rest = {} /\ mem.rest = {}

\* A crop's report is the report of one of the sheet's own crops.
OwnReports == \A r \in wires, s \in Sheets, k \in Keys : r.from = <<s, k>> => k \in Crops(s)

WinnersEverywhere == OwnCrops /\ Winners(column, rest) /\ Winners(mem.column, mem.rest)

LEMMA StoreWinners ==
  ASSUME TypeOK, OwnCrops, Winners(mem.column, mem.rest), NEW s \in Sheets, NEW crops \in SUBSET Crops(s)
  PROVE  LET st == Store(s, crops)
         IN  Winners(st.column, st.rest) /\ (kind = "sprite" => st.rest = {})
<1> DEFINE st == Store(s, crops)
           col == st.column
           old == mem.column
           n == Len(AddResult(old[s], force, crops, crops))
<1>0. kind \in Kinds /\ force \in BOOLEAN /\ mem \in Copies /\ crops \in SUBSET Keys
  BY CropsAreKeys DEF TypeOK, Copies
<1>1. old \in [Sheets -> Seq(Result)]
  BY <1>0 DEF Copies
<1>2. /\ st.rest = IF kind = "sprite" THEN mem.rest ELSE mem.rest \ crops
      /\ col[s] = AddResult(old[s], force, crops, crops)
      /\ \A t \in Sheets : t # s => col[t] = IF kind = "sprite" THEN Cleared(old[t], crops) ELSE old[t]
  BY <1>0, StoreShape
<1>3. /\ n \in DOMAIN col[s]
      /\ col[s][n].final = crops
      /\ \A i \in DOMAIN col[s] : i # n => i \in DOMAIN old[s] /\ ~col[s][i].sel /\ col[s][i].final = old[s][i].final
  <2> DEFINE new == AddResult(old[s], force, crops, crops)
  <2>1. /\ n \in DOMAIN new /\ new[n] = [sel |-> TRUE, crops |-> crops, final |-> crops]
        /\ \A i \in DOMAIN new : i # n => i \in DOMAIN old[s] /\ ~new[i].sel /\ new[i].final = old[s][i].final
    BY <1>0, <1>1, AddedShape
  <2>2. col[s] = new
    BY <1>2
  <2> HIDE DEF new, n, col, old
  <2> QED BY <2>1, <2>2
<1>4. \A t \in Sheets : t # s =>
        /\ DOMAIN col[t] = DOMAIN old[t]
        /\ \A i \in DOMAIN old[t] :
             /\ col[t][i].sel = old[t][i].sel
             /\ col[t][i].final = IF kind = "sprite" THEN old[t][i].final \ crops ELSE old[t][i].final
  <2> TAKE t \in Sheets
  <2>1. old[t] \in Seq(Result)
    BY <1>1
  <2>2. /\ DOMAIN Cleared(old[t], crops) = DOMAIN old[t]
        /\ \A i \in DOMAIN old[t] : /\ Cleared(old[t], crops)[i].sel = old[t][i].sel
                                    /\ Cleared(old[t], crops)[i].final = old[t][i].final \ crops
    BY <2>1, ClearedShape
  <2> HAVE t # s
  <2>3. col[t] = IF kind = "sprite" THEN Cleared(old[t], crops) ELSE old[t]
    BY <1>2
  <2> HIDE DEF col, old
  <2>4. CASE kind = "sprite"
    BY <2>2, <2>3, <2>4
  <2>5. CASE kind # "sprite"
    BY <2>3, <2>5
  <2> QED BY <2>4, <2>5
<1> HIDE DEF col, old, n
<1>5. Within(old) /\ SoleWinners(old, mem.rest)
  BY DEF Winners, old
<1>6. \A t \in Sheets : t # s /\ kind # "sprite" => Crops(s) \cap Crops(t) = {}
  BY <1>0, LayoutAssumption DEF Crops, Kinds
<1>7. Within(col)
  <2> SUFFICES ASSUME NEW t \in Sheets, NEW i \in DOMAIN col[t] PROVE col[t][i].final \subseteq Crops(t)
    BY DEF Within
  <2>1. CASE t = s /\ i = n
    BY <1>3, <2>1
  <2>2. CASE t = s /\ i # n
    BY <1>3, <1>5, <2>2 DEF Within
  <2>3. CASE t # s
    BY <1>4, <1>5, <2>3 DEF Within
  <2> QED BY <2>1, <2>2, <2>3
<1>8. ASSUME NEW t \in Sheets, t # s, NEW j \in DOMAIN col[t] PROVE crops \cap col[t][j].final = {}
  <2>1. CASE kind = "sprite"
    BY <1>4, <1>8, <2>1
  <2>2. CASE kind # "sprite"
    BY <1>6, <1>7, <1>8, <2>2 DEF Within
  <2> QED BY <2>1, <2>2
<1>9. SoleWinners(col, st.rest)
  <2> SUFFICES ASSUME NEW t \in Sheets, NEW u \in Sheets, NEW i \in DOMAIN col[t], NEW j \in DOMAIN col[u],
                      col[t][i].sel, col[u][j].sel
               PROVE  /\ <<t, i>> # <<u, j>> => col[t][i].final \cap col[u][j].final = {}
                      /\ col[t][i].final \cap st.rest = {}
    BY DEF SoleWinners
  <2>1. (t = s => i = n /\ col[t][i].final = crops) /\ (u = s => j = n /\ col[u][j].final = crops)
    BY <1>3
  <2>2. ASSUME t # s
        PROVE  /\ i \in DOMAIN old[t] /\ old[t][i].sel /\ col[t][i].final \subseteq old[t][i].final
    BY <1>4, <2>2
  <2>3. ASSUME u # s
        PROVE  /\ j \in DOMAIN old[u] /\ old[u][j].sel /\ col[u][j].final \subseteq old[u][j].final
    BY <1>4, <2>3
  <2>4. ASSUME <<t, i>> # <<u, j>> PROVE col[t][i].final \cap col[u][j].final = {}
    <3>1. CASE t = s /\ u = s
      BY <2>1, <2>4, <3>1
    <3>2. CASE t = s /\ u # s
      BY <1>8, <2>1, <3>2
    <3>3. CASE t # s /\ u = s
      BY <1>8, <2>1, <3>3
    <3>4. CASE t # s /\ u # s
      BY <1>5, <2>2, <2>3, <2>4, <3>4 DEF SoleWinners
    <3> QED BY <3>1, <3>2, <3>3, <3>4
  <2>5. col[t][i].final \cap st.rest = {}
    <3>1. st.rest \subseteq mem.rest
      BY <1>2
    <3>2. CASE t = s
      BY <1>2, <2>1, <3>2 DEF OwnCrops
    <3>3. CASE t # s
      <4>1. old[t][i].final \cap mem.rest = {}
        BY <1>5, <2>2, <3>3 DEF SoleWinners
      <4> QED BY <2>2, <3>1, <3>3, <4>1
    <3> QED BY <3>2, <3>3
  <2> QED BY <2>4, <2>5
<1>10. kind = "sprite" => st.rest = {}
  BY <1>2 DEF OwnCrops
<1> QED BY <1>7, <1>9, <1>10 DEF Winners, col

\* What does not touch the column, the copy and the crops at hand keeps it all.
LEMMA WinnersStay ==
  ASSUME WinnersEverywhere, UNCHANGED <<kind, column, rest, mem, cut, crop>>
  PROVE  WinnersEverywhere'
BY DEF WinnersEverywhere, OwnCrops, Winners, Within, SoleWinners, Crops

LEMMA WinnersApply ==
  ASSUME TypeOK, WinnersEverywhere, NEW s \in Sheets, NEW crops \in SUBSET Crops(s), Apply(s, crops),
         UNCHANGED <<kind, column, rest, crop>>
  PROVE  WinnersEverywhere'
<1>1. Winners(mem'.column, mem'.rest) /\ (kind = "sprite" => mem'.rest = {})
  BY StoreWinners DEF Apply, WinnersEverywhere
<1>2. \A t \in Sheets : Crops(t)' = Crops(t)
  BY DEF Crops
<1>3. cut' = [cut EXCEPT ![s] = crops]
  BY DEF Apply
<1>4. OwnCrops'
  BY <1>1, <1>2, <1>3 DEF WinnersEverywhere, OwnCrops, TypeOK
<1>5. Winners(mem.column, mem.rest)' /\ Winners(column, rest)'
  BY <1>1, <1>2 DEF WinnersEverywhere, Winners, Within, SoleWinners
<1> QED BY <1>4, <1>5 DEF WinnersEverywhere

LEMMA WinnersInit == Init => WinnersEverywhere
<1> SUFFICES ASSUME Init PROVE WinnersEverywhere
  OBVIOUS
<1>1. Within(column)
  <2> SUFFICES ASSUME NEW s \in Sheets, NEW i \in DOMAIN column[s] PROVE column[s][i].final \subseteq Crops(s)
    BY DEF Within
  <2>1. column[s] \in Past(s)
    BY DEF Init
  <2>2. column[s] # << >>
    OBVIOUS
  <2>3. PICK b \in BOOLEAN : column[s] = <<[sel |-> b, crops |-> Crops(s), final |-> Crops(s)]>>
    BY <2>1, <2>2 DEF Past
  <2>4. i = 1
    BY <2>3
  <2> QED BY <2>3, <2>4
<1>2. mem.column = column /\ mem.rest = rest /\ SoleWinners(column, rest)
  BY DEF Init
<1>3. OwnCrops
  BY <1>2 DEF Init, OwnCrops, RequestMix, RequestSprite, RequestUpscale
<1> QED BY <1>1, <1>2, <1>3 DEF WinnersEverywhere, Winners

LEMMA ReportsStep == TypeOK /\ OwnCrops /\ OwnReports /\ [Next]_vars => OwnReports'
<1> SUFFICES ASSUME TypeOK, OwnCrops, OwnReports, [Next]_vars PROVE OwnReports'
  OBVIOUS
<1>1. kind' = kind /\ (wires' \subseteq wires \/ \E t \in Reporters : Send(t))
  <2> USE DEF run, db, work, told
  <2>1. CASE RequestCancel \/ Edit \/ Before \/ After
    BY <2>1 DEF RequestCancel, Edit, Before, After, LoadMix, LoadSprite, LoadUpscale, Loaded, LoadFails, FirstPoll,
         Gathered, Persist, PersistFault, Settle, HandlerFault
  <2>2. CASE Reporting
    <3>1. CASE \E t \in Reporters : Send(t)
      BY <3>1 DEF Send
    <3>2. CASE Told \/ ReportFault
      BY <3>2 DEF Told, ReportFault
    <3> QED BY <2>2, <3>1, <3>2 DEF Reporting
  <2>3. ASSUME NEW s \in Sheets, DoSheet(s) PROVE kind' = kind /\ wires' = wires
    BY <2>3 DEF DoSheet, Refused, Begins, FetchCrops, CropsFail, Compose, CollectVariants, ComposeVariants,
         CollectHumans, ReferencesFail, GuardMix, GuardSprite, CallMix, CallSprite, Upload, StageFails, PollSheet,
         PollFault, CutMix, CutSprite, RepollSprite, BeginsUpscale, CropsGathered, JudgeUpscale, Advance, Fails
  <2>4. ASSUME NEW s \in Sheets, NEW k \in Keys, DoCrop(s, k) PROVE kind' = kind /\ wires' = wires
    BY <2>4 DEF DoCrop, CropBegins, CropWorked
  <2>5. CASE UNCHANGED vars
    BY <2>5 DEF vars
  <2> QED BY <2>1, <2>2, <2>3, <2>4, <2>5 DEF Next
<1>2. CASE wires' \subseteq wires
  BY <1>1, <1>2 DEF OwnReports, Crops
<1>3. ASSUME NEW t \in Reporters, Send(t) PROVE OwnReports'
  <2>1. \A r \in wires' : r.from = t
    BY <1>3 DEF Send
  <2>2. Owes(t)
    BY <1>3 DEF Send
  <2> SUFFICES ASSUME NEW s \in Sheets, NEW k \in Keys, t = <<s, k>> PROVE k \in Crops(s)
    BY <1>1, <2>1 DEF OwnReports, Crops
  <2>3. t # Handler
    BY DEF Handler
  <2>4. \A u \in Sheets : t # <<u, Whole>>
    BY LayoutAssumption
  <2>5. PICK u \in Sheets, j \in Keys : t = <<u, j>> /\ crop[u][j] \in {"keeping", "dropping"}
    BY <2>2, <2>3, <2>4 DEF Owes
  <2> QED BY <2>5 DEF OwnCrops
<1> QED BY <1>1, <1>2, <1>3

LEMMA WinnersStep == TypeOK /\ WinnersEverywhere /\ OwnReports /\ [Next]_vars => WinnersEverywhere'
<1> SUFFICES ASSUME TypeOK, WinnersEverywhere, OwnReports, [Next]_vars PROVE WinnersEverywhere'
  OBVIOUS
<1> USE DEF run, db, work, told
<1>1. CASE RequestCancel \/ LoadFails \/ FirstPoll \/ Gathered \/ Settle \/ HandlerFault
  BY <1>1, WinnersStay DEF RequestCancel, LoadFails, FirstPoll, Gathered, Settle, HandlerFault
<1>2. CASE Edit
  <2>1. PICK s \in Sheets : column' = [column EXCEPT ![s] = << >>]
    BY <1>2 DEF Edit
  <2>2. UNCHANGED <<kind, rest, mem, cut, crop>>
    BY <1>2 DEF Edit
  <2>3. DOMAIN column'[s] = {} /\ \A t \in Sheets : t # s => column'[t] = column[t]
    BY <2>1 DEF TypeOK
  <2>4. OwnCrops' /\ Winners(mem.column, mem.rest)'
    BY <2>2 DEF WinnersEverywhere, OwnCrops, Winners, Within, SoleWinners, Crops
  <2>5. Within(column)' /\ SoleWinners(column, rest)'
    BY <2>2, <2>3 DEF WinnersEverywhere, Winners, Within, SoleWinners, Crops
  <2> QED BY <2>4, <2>5 DEF WinnersEverywhere, Winners
<1>3. CASE Loaded
  <2>1. UNCHANGED <<kind, column, rest, cut, crop>> /\ mem'.column = column /\ mem'.rest = rest
    BY <1>3 DEF Loaded
  <2> QED BY <2>1 DEF WinnersEverywhere, OwnCrops, Winners, Within, SoleWinners, Crops
<1>4. CASE Persist \/ PersistFault
  <2>1. UNCHANGED <<kind, mem, cut, crop>>
    BY <1>4 DEF Persist, PersistFault
  <2>2. UNCHANGED <<column, rest>> \/ (column' = mem.column /\ rest' = mem.rest)
    BY <1>4 DEF Persist, PersistFault, Unsure
  <2>3. CASE UNCHANGED <<column, rest>>
    BY <2>1, <2>3, WinnersStay
  <2>4. CASE column' = mem.column /\ rest' = mem.rest
    BY <2>1, <2>4 DEF WinnersEverywhere, OwnCrops, Winners, Within, SoleWinners, Crops
  <2> QED BY <2>2, <2>3, <2>4
<1>5. ASSUME UNCHANGED <<kind, column, rest, mem, cut>>, NEW s \in Sheets, NEW k \in Keys, NEW end,
             crop' = [crop EXCEPT ![s][k] = end], k \in Crops(s)
      PROVE  WinnersEverywhere'
  <2>1. \A t \in Sheets, j \in Keys : crop'[t][j] # crop[t][j] => t = s /\ j = k
    BY <1>5 DEF TypeOK
  <2>2. OwnCrops'
    BY <1>5, <2>1 DEF WinnersEverywhere, OwnCrops, Crops
  <2> QED BY <1>5, <2>2 DEF WinnersEverywhere, Winners, Within, SoleWinners, Crops
<1>6. ASSUME NEW s \in Sheets, NEW k \in Keys, DoCrop(s, k) PROVE WinnersEverywhere'
  <2>1. UNCHANGED <<kind, column, rest, mem, cut>> /\ k \in Crops(s)
    BY <1>6 DEF DoCrop, CropBegins, CropWorked, WinnersEverywhere, OwnCrops
  <2>2. \E end : crop' = [crop EXCEPT ![s][k] = end]
    BY <1>6 DEF DoCrop, CropBegins, CropWorked
  <2> QED BY <1>5, <2>1, <2>2
<1>7. CASE Reporting
  <2>1. CASE \E t \in Reporters : Send(t)
    BY <2>1, WinnersStay DEF Send
  <2>2. ASSUME NEW r \in wires, Continues(r.from) \/ Breaks(r.from), UNCHANGED <<run, db, mem>>
        PROVE  WinnersEverywhere'
    <3>1. cut' = cut
      BY <2>2 DEF Continues, Breaks
    <3>2. CASE crop' = crop
      BY <2>2, <3>1, <3>2, WinnersStay
    <3>3. ASSUME crop' # crop
          PROVE  \E end : \E s \in Sheets, k \in Keys : r.from = <<s, k>> /\ crop' = [crop EXCEPT ![s][k] = end]
      BY <2>2, <3>3 DEF Continues, Breaks
    <3>4. ASSUME NEW s \in Sheets, NEW k \in Keys, NEW end, r.from = <<s, k>>, crop' = [crop EXCEPT ![s][k] = end]
          PROVE  WinnersEverywhere'
      <4>1. k \in Crops(s)
        BY <3>4 DEF OwnReports
      <4> QED BY <1>5, <2>2, <3>1, <3>4, <4>1
    <3> QED BY <3>2, <3>3, <3>4
  <2>3. CASE Told
    <3>1. PICK r \in wires : Continues(r.from)
      BY <2>3 DEF Told
    <3> QED BY <2>2, <2>3, <3>1 DEF Told
  <2>4. CASE ReportFault
    <3>1. PICK r \in wires : Breaks(r.from)
      BY <2>4 DEF ReportFault
    <3> QED BY <2>2, <2>4, <3>1 DEF ReportFault
  <2> QED BY <1>7, <2>1, <2>3, <2>4 DEF Reporting
<1>8. ASSUME NEW s \in Sheets, DoSheet(s) PROVE WinnersEverywhere'
  <2>1. CASE \/ Refused(s) \/ Begins(s) \/ FetchCrops(s) \/ CropsFail(s) \/ Compose(s)
             \/ CollectVariants(s) \/ ComposeVariants(s) \/ CollectHumans(s) \/ ReferencesFail(s)
             \/ GuardMix(s) \/ GuardSprite(s) \/ CallMix(s) \/ CallSprite(s) \/ Upload(s) \/ StageFails(s)
             \/ PollSheet(s) \/ PollFault(s) \/ CropsGathered(s)
    <3>1. UNCHANGED <<kind, column, rest, mem, cut, crop>>
      BY <2>1 DEF Refused, Begins, FetchCrops, CropsFail, Compose, CollectVariants, ComposeVariants, CollectHumans,
           ReferencesFail, GuardMix, GuardSprite, CallMix, CallSprite, Upload, StageFails, PollSheet, PollFault,
           CropsGathered, Advance, Fails
    <3> QED BY <3>1, WinnersStay
  <2>2. CASE CutMix(s)
    <3>1. PICK crops \in SUBSET Crops(s) \ {{}} : Apply(s, crops)
      BY <2>2 DEF CutMix, NativePieces
    <3> QED BY <2>2, <3>1, WinnersApply DEF CutMix, NativePieces
  <2>3. CASE CutSprite(s)
    <3>1. PICK crops \in SUBSET Crops(s) : cut' = [cut EXCEPT ![s] = crops]
      BY <2>3 DEF CutSprite
    <3>2. UNCHANGED <<kind, column, rest, mem, crop>>
      BY <2>3 DEF CutSprite
    <3>3. OwnCrops'
      BY <3>1, <3>2 DEF WinnersEverywhere, OwnCrops, Crops, TypeOK
    <3> QED BY <3>2, <3>3 DEF WinnersEverywhere, Winners, Within, SoleWinners, Crops
  <2>4. CASE RepollSprite(s) /\ cancelReq
    BY <2>4, WinnersStay DEF RepollSprite
  <2>5. CASE RepollSprite(s) /\ ~cancelReq
    <3>1. cut[s] \in SUBSET Crops(s)
      BY DEF WinnersEverywhere, OwnCrops
    <3> QED BY <2>5, <3>1, WinnersApply DEF RepollSprite
  <2>6. CASE BeginsUpscale(s)
    <3>1. crop' = [crop EXCEPT ![s] = [k \in Keys |-> IF k \in Crops(s) THEN "waiting" ELSE "none"]]
      BY <2>6 DEF BeginsUpscale
    <3>2. UNCHANGED <<kind, column, rest, mem, cut>>
      BY <2>6 DEF BeginsUpscale
    <3>3. OwnCrops'
      BY <3>1, <3>2 DEF WinnersEverywhere, OwnCrops, Crops, TypeOK
    <3> QED BY <3>2, <3>3 DEF WinnersEverywhere, Winners, Within, SoleWinners, Crops
  <2>7. CASE JudgeUpscale(s) /\ cancelReq
    BY <2>7, WinnersStay DEF JudgeUpscale
  <2>8. CASE JudgeUpscale(s) /\ ~cancelReq
    <3> DEFINE kept == {k \in Keys : crop[s][k] = "kept"}
    <3>1. kept \in SUBSET Crops(s)
      BY DEF WinnersEverywhere, OwnCrops
    <3>2. Apply(s, kept) /\ UNCHANGED <<kind, column, rest, crop>>
      BY <2>8 DEF JudgeUpscale
    <3> QED BY <3>1, <3>2, WinnersApply
  <2> QED BY <1>8, <2>1, <2>2, <2>3, <2>4, <2>5, <2>6, <2>7, <2>8 DEF DoSheet
<1>9. CASE UNCHANGED vars
  BY <1>9, WinnersStay DEF vars
<1> QED BY <1>1, <1>2, <1>3, <1>4, <1>6, <1>7, <1>8, <1>9 DEF Next, Before, After, LoadMix, LoadSprite, LoadUpscale

\* Whatever sheets of a run fail, break or are cancelled, and whatever the database does, no two
\* selected crops of the stored column claim to be the final of one position or cell.
THEOREM FinalsAlone == Spec => []OneSelectedFinal
<1>1. WinnersEverywhere => OneSelectedFinal /\ OwnCrops
  BY DEF WinnersEverywhere, Winners, OneSelectedFinal
<1>2. Init => OwnReports
  BY DEF Init, OwnReports
<1> QED BY <1>1, <1>2, TypeInit, TypeStep, WinnersInit, ReportsStep, WinnersStep, PTL DEF Spec

-----------------------------------------------------------------------------
(* What a run writes is what it says it did                                *)

\* A selected result of the list holds exactly the crops.
Held(results, crops) == \E i \in DOMAIN results : results[i].sel /\ results[i].crops = crops

\* The reports on their way: one at most, and its sender waits for it.
OneAtATime ==
  /\ \A r, q \in wires : r = q
  /\ \A r \in wires : Owes(r.from)

\* Before the gather no sheet has started; after it none is at work; and a sheet that is done has
\* left its stages.
Course ==
  /\ phase \in {"queued", "polling"} =>
       /\ \A s \in Sheets : sheet[s] = "none" /\ mark[s] \in {"none", "pending"}
       /\ tally.done = 0 /\ wires = {}
  /\ phase \in {"persisting", "demoting", "settling"} => \A s \in Sheets : sheet[s] \in {"none", "finished"}
  /\ \A s \in Sheets : mark[s] = "done" => sheet[s] \in {"closing", "finished"}

\* The crops of a sheet that has any belong to the end of its run; one still at work belongs to a
\* sheet that gathers it, or left it behind without being done.
CropsAtWork ==
  \A s \in Sheets, k \in Keys :
    /\ crop[s][k] # "none" => sheet[s] \in {"cropping", "judging", "closing", "finished"}
    /\ crop[s][k] \in {"waiting", "working"} => sheet[s] # "judging" /\ mark[s] # "done"

\* The handler's copy differs from the column in the results of done sheets only, up to the write;
\* it holds what those were cut to; after the write the column does too.
Copied ==
  /\ phase \in {"polling", "gathering", "persisting"} =>
       \A s \in Sheets : mark[s] # "done" => Drained(mem.column[s]) = Drained(column[s])
  /\ \A s \in Sheets : mark[s] = "done" => Held(mem.column[s], cut[s])
  /\ phase = "demoting" => \A s \in Sheets : mark[s] # "done"
  /\ phase = "settling" => \A s \in Sheets : mark[s] = "done" => Held(column[s], cut[s])

\* Who has still something to report, now or later.
Pending(t) ==
  \/ t = Handler /\ phase = "demoting"
  \/ \E s \in Sheets : t = <<s, Whole>> /\ sheet[s] \in Stages \cup {"waiting"}
  \/ \E s \in Sheets, k \in Keys : t = <<s, k>> /\ crop[s][k] \in {"keeping", "dropping"}

\* A report from the middle of a sheet, which will send another.
Heartbeat(t) == \E s \in Sheets : t = <<s, Whole>> /\ sheet[s] \in {"telling", "retelling"}

\* The count and marks of a report or of the row are the ones the tasks of the run have now.
Current(r) == r.step = tally.done /\ r.marks = mark

NoneLost == \A s \in Sheets, k \in Keys : crop[s][k] # "lost"

\* Counts only grow on their way from the tasks to the row, and what the row lacks somebody will
\* still report.
Covered ==
  /\ row.step <= tally.done
  /\ \A r \in wires : row.step <= r.step /\ r.step <= tally.done
  /\ \A r \in wires : Current(r) \/ Heartbeat(r.from) \/ \E t \in Reporters : t # r.from /\ Pending(t)
  /\ phase \in {"queued", "polling"} => row.step = 0
  /\ phase = "queued" => row.marks = mark
  /\ phase = "polling" => row.marks = mark \/ \E s \in Sheets \ gone : mark[s] = "pending"
  /\ phase \in {"gathering", "persisting", "demoting", "settling"} /\ NoneLost =>
       Current(row) \/ \E t \in Reporters : Pending(t)

LEMMA ClearedDrained ==
  ASSUME NEW results \in Seq(Result), NEW keys
  PROVE  /\ Drained(Cleared(results, keys)) = Drained(results)
         /\ \A crops : Held(results, crops) => Held(Cleared(results, keys), crops)
<1>1. \A i \in DOMAIN results : results[i] \in Result
  BY ListShape
<1>2. DOMAIN Cleared(results, keys) = DOMAIN results
  BY ClearedShape
<1>3. \A i \in DOMAIN results :
        /\ Cleared(results, keys)[i].sel = results[i].sel
        /\ Cleared(results, keys)[i].crops = results[i].crops
        /\ [Cleared(results, keys)[i] EXCEPT !.final = {}] = [results[i] EXCEPT !.final = {}]
  BY <1>1 DEF Cleared, Result
<1>4. Drained(Cleared(results, keys)) = Drained(results)
  BY <1>2, <1>3 DEF Drained
<1> QED BY <1>2, <1>3, <1>4 DEF Held

\* A sheet that is applied is held by the copy, and the other sheets keep what they had.
LEMMA ApplyHolds ==
  ASSUME TypeOK, NEW s \in Sheets, NEW crops \in SUBSET Keys, Apply(s, crops)
  PROVE  /\ Held(mem'.column[s], crops) /\ cut'[s] = crops
         /\ \A t \in Sheets : t # s =>
              /\ Drained(mem'.column[t]) = Drained(mem.column[t])
              /\ \A c : Held(mem.column[t], c) => Held(mem'.column[t], c)
<1> DEFINE new == AddResult(mem.column[s], force, crops, crops)
<1>1. kind \in Kinds /\ force \in BOOLEAN /\ mem \in Copies
  BY DEF TypeOK, Copies
<1>2. \A t \in Sheets : mem.column[t] \in Seq(Result)
  BY <1>1 DEF Copies
<1>3. /\ mem'.column[s] = new
      /\ \A t \in Sheets : t # s =>
           mem'.column[t] = IF kind = "sprite" THEN Cleared(mem.column[t], crops) ELSE mem.column[t]
  <2>1. mem' = Store(s, crops)
    BY DEF Apply
  <2>2. /\ Store(s, crops).column[s] = new
        /\ \A t \in Sheets : t # s =>
             Store(s, crops).column[t] = IF kind = "sprite" THEN Cleared(mem.column[t], crops) ELSE mem.column[t]
    BY <1>1, StoreShape
  <2> HIDE DEF new
  <2> QED BY <2>1, <2>2
<1>4. Len(new) \in DOMAIN new /\ new[Len(new)] = [sel |-> TRUE, crops |-> crops, final |-> crops]
  BY <1>1, <1>2, AddedShape
<1>5. cut'[s] = crops
  BY DEF Apply, TypeOK
<1> HIDE DEF new
<1>6. Held(mem'.column[s], crops)
  BY <1>3, <1>4 DEF Held
<1>7. ASSUME NEW t \in Sheets, t # s
      PROVE  /\ Drained(mem'.column[t]) = Drained(mem.column[t])
             /\ \A c : Held(mem.column[t], c) => Held(mem'.column[t], c)
  BY <1>2, <1>3, <1>7, ClearedDrained
<1> QED BY <1>5, <1>6, <1>7

-----------------------------------------------------------------------------
(* What the steps of a sheet have in common                                *)

\* A step of sheet s outside its reports: it stays in its stages, and nothing but its own marks,
\* pieces and crops change; done is what was applied.
SheetMove(s) ==
  /\ UNCHANGED <<kind, force, tagged, cancelReq, column, rest, gone, phase, wires, row>>
  /\ sheet[s] \notin {"none", "telling", "retelling", "closing", "finished"}
  /\ \E to \in Stages : sheet' = [sheet EXCEPT ![s] = to]
  /\ \A t \in Sheets : t # s => mark'[t] = mark[t] /\ cut'[t] = cut[t]
  /\ tally'.done \in {tally.done, tally.done + 1}
  /\ mark'[s] = "done" => sheet'[s] = "closing" /\ \E crops \in SUBSET Keys : Apply(s, crops)
  /\ mark'[s] # "done" => mem' = mem

\* Its crops: they are over and stay, or there are none and the sheet starts them.
CropsMove(s) ==
  \/ /\ crop' = crop
     /\ \A k \in Keys : crop[s][k] # "none" =>
          crop[s][k] \notin {"waiting", "working"} /\ sheet'[s] \in {"judging", "closing"}
  \/ /\ \A k \in Keys : crop[s][k] = "none"
     /\ sheet'[s] = "cropping" /\ mark'[s] = "running"
     /\ \E f \in [Keys -> {"none", "waiting"}] : crop' = [crop EXCEPT ![s] = f]

LEMMA SettledMoves ==
  ASSUME TypeOK, NEW s \in Sheets, NEW m, NEW field \in {"swapped", "skipped", "failed"}, Settled(s, m, field)
  PROVE  /\ sheet' = [sheet EXCEPT ![s] = "closing"] /\ sheet'[s] = "closing"
         /\ mark'[s] = m /\ \A t \in Sheets : t # s => mark'[t] = mark[t]
         /\ tally'.done = tally.done + 1
BY DEF Settled, TypeOK

LEMMA BrokenMoves ==
  ASSUME TypeOK, NEW s \in Sheets, Broken(s)
  PROVE  /\ sheet' = [sheet EXCEPT ![s] = "closing"] /\ sheet'[s] = "closing"
         /\ mark'[s] \in {mark[s], "failed"} /\ \A t \in Sheets : t # s => mark'[t] = mark[t]
         /\ tally'.done = tally.done + 1
<1>1. CASE kind = "sprite"
  BY <1>1 DEF Broken, TypeOK
<1>2. CASE kind # "sprite"
  BY <1>2, SettledMoves DEF Broken
<1> QED BY <1>1, <1>2

LEMMA SheetMoves ==
  ASSUME TypeOK, Course, NEW s \in Sheets, DoSheet(s)
  PROVE  SheetMove(s)
<1> USE DEF run, db, told
<1>0. mark[s] = "done" => sheet[s] \in {"closing", "finished"}
  BY DEF Course
<1>1. ASSUME NEW m \in Marks \ {"done"}, NEW field \in {"swapped", "skipped", "failed"}, Settled(s, m, field),
             sheet[s] \notin {"none", "telling", "retelling", "closing", "finished"}, cut' = cut, mem' = mem,
             UNCHANGED <<kind, force, tagged, cancelReq, column, rest, gone, phase, wires, row>>
      PROVE  SheetMove(s)
  <2>1. "closing" \in Stages
    BY DEF Stages
  <2> QED BY <1>1, <2>1, SettledMoves DEF SheetMove
<1>2. ASSUME NEW to \in Stages, sheet' = [sheet EXCEPT ![s] = to], mark'[s] # "done",
             \A t \in Sheets : t # s => mark'[t] = mark[t] /\ cut'[t] = cut[t],
             sheet[s] \notin {"none", "telling", "retelling", "closing", "finished"},
             tally' = tally, mem' = mem,
             UNCHANGED <<kind, force, tagged, cancelReq, column, rest, gone, phase, wires, row>>
      PROVE  SheetMove(s)
  BY <1>2 DEF SheetMove
<1>3. ASSUME NEW crops \in SUBSET Keys, Apply(s, crops),
             sheet[s] \notin {"none", "telling", "retelling", "closing", "finished"},
             UNCHANGED <<kind, force, tagged, cancelReq, column, rest, gone, phase, wires, row>>
      PROVE  SheetMove(s)
  <2>1. "closing" \in Stages
    BY DEF Stages
  <2>2. Settled(s, "done", "swapped") /\ \A t \in Sheets : t # s => cut'[t] = cut[t]
    BY <1>3 DEF Apply, TypeOK
  <2> QED BY <1>3, <2>1, <2>2, SettledMoves DEF SheetMove
<1>4. CASE Refused(s)
  <2>1. Admission(tagged[s]) \in {"skipped", "failed"}
    BY <1>4 DEF Refused, Admission
  <2> QED BY <1>1, <1>4, <2>1 DEF Refused, Entered, Marks
<1>5. ASSUME NEW from, NEW to \in Stages, Advance(s, from, to),
             from \notin {"none", "telling", "retelling", "closing", "finished"}
      PROVE  SheetMove(s)
  BY <1>0, <1>2, <1>5 DEF Advance, Goes
<1>6. CASE \/ FetchCrops(s) \/ Compose(s) \/ CollectVariants(s) \/ ComposeVariants(s) \/ CollectHumans(s)
           \/ GuardMix(s) \/ GuardSprite(s) \/ CallMix(s) \/ CallSprite(s)
  BY <1>5, <1>6 DEF FetchCrops, Compose, CollectVariants, ComposeVariants, CollectHumans, GuardMix, GuardSprite,
       CallMix, CallSprite, Stages
<1>7. CASE Begins(s) \/ BeginsUpscale(s) \/ Upload(s)
  <2>1. mark' = [mark EXCEPT ![s] = "running"] \/ mark' = [mark EXCEPT ![s] = "swap_done"]
    BY <1>7 DEF Begins, BeginsUpscale, Upload
  <2>2. mark'[s] # "done" /\ \A t \in Sheets : t # s => mark'[t] = mark[t]
    BY <2>1 DEF TypeOK
  <2>3. \E to \in Stages : sheet' = [sheet EXCEPT ![s] = to]
    BY <1>7 DEF Begins, BeginsUpscale, Upload, Goes, Stages
  <2>4. sheet[s] \in {"waiting", "uploading"} /\ tally' = tally /\ mem' = mem /\ cut' = cut
        /\ UNCHANGED <<kind, force, tagged, cancelReq, column, rest, gone, phase, wires, row>>
    BY <1>7 DEF Begins, BeginsUpscale, Upload, Entered
  <2> QED BY <1>2, <2>2, <2>3, <2>4
<1>8. CASE CropsFail(s) \/ ReferencesFail(s) \/ StageFails(s)
  BY <1>1, <1>8 DEF CropsFail, ReferencesFail, StageFails, Fails, Marks
<1>9. CASE PollSheet(s) \/ CropsGathered(s)
  <2>1. sheet[s] \in {"polling", "cropping"} /\ mem' = mem /\ cut' = cut
        /\ UNCHANGED <<kind, force, tagged, cancelReq, column, rest, gone, phase, wires, row>>
    BY <1>9 DEF PollSheet, CropsGathered
  <2>2. \/ Settled(s, "cancelled", "skipped") \/ Settled(s, "failed", "failed")
        \/ (Goes(s, "cutting") \/ Goes(s, "judging")) /\ UNCHANGED <<mark, tally>>
    BY <1>9 DEF PollSheet, CropsGathered
  <2>3. CASE (Goes(s, "cutting") \/ Goes(s, "judging")) /\ UNCHANGED <<mark, tally>>
    BY <1>0, <1>2, <2>1, <2>3 DEF Goes, Stages
  <2> QED BY <1>1, <2>1, <2>2, <2>3 DEF Marks
<1>10. CASE PollFault(s)
  <2>1. "closing" \in Stages
    BY DEF Stages
  <2>2. Broken(s) /\ sheet[s] \in {"polling", "repolling", "judging"} /\ mem' = mem /\ cut' = cut
        /\ UNCHANGED <<kind, force, tagged, cancelReq, column, rest, gone, phase, wires, row>>
    BY <1>10 DEF PollFault
  <2> QED BY <1>0, <2>1, <2>2, BrokenMoves DEF SheetMove
<1>11. CASE CutMix(s)
  <2>1. PICK crops \in SUBSET Crops(s) \ {{}} : Apply(s, crops)
    BY <1>11 DEF CutMix, NativePieces
  <2>2. crops \in SUBSET Keys
    BY <2>1, CropsAreKeys DEF TypeOK
  <2> QED BY <1>3, <1>11, <2>1, <2>2 DEF CutMix, NativePieces
<1>12. CASE CutSprite(s)
  <2>1. PICK crops : cut' = [cut EXCEPT ![s] = crops]
    BY <1>12 DEF CutSprite
  <2>2. \A t \in Sheets : t # s => cut'[t] = cut[t]
    BY <2>1 DEF TypeOK
  <2> QED BY <1>0, <1>2, <1>12, <2>2 DEF CutSprite, Goes, Stages
<1>13. CASE RepollSprite(s) \/ JudgeUpscale(s)
  <2>1. sheet[s] \in {"repolling", "judging"}
        /\ UNCHANGED <<kind, force, tagged, cancelReq, column, rest, gone, phase, wires, row>>
    BY <1>13 DEF RepollSprite, JudgeUpscale
  <2>2. \/ Settled(s, "cancelled", "skipped") /\ UNCHANGED <<mem, cut>>
        \/ Apply(s, cut[s]) \/ Apply(s, {k \in Keys : crop[s][k] = "kept"})
    BY <1>13 DEF RepollSprite, JudgeUpscale
  <2>3. cut[s] \in SUBSET Keys /\ {k \in Keys : crop[s][k] = "kept"} \in SUBSET Keys
    BY DEF TypeOK
  <2>4. CASE Settled(s, "cancelled", "skipped") /\ UNCHANGED <<mem, cut>>
    BY <1>1, <2>1, <2>4 DEF Marks
  <2> QED BY <1>3, <2>1, <2>2, <2>3, <2>4
<1> QED BY <1>4, <1>6, <1>7, <1>8, <1>9, <1>10, <1>11, <1>12, <1>13 DEF DoSheet

LEMMA CropsMoves ==
  ASSUME TypeOK, Course, CropsAtWork, OwnCrops, NEW s \in Sheets, DoSheet(s)
  PROVE  CropsMove(s)
<1> USE DEF run, db, told
<1>1. CASE BeginsUpscale(s)
  <2> DEFINE f == [k \in Keys |-> IF k \in Crops(s) THEN "waiting" ELSE "none"]
  <2>1. crop' = [crop EXCEPT ![s] = f] /\ f \in [Keys -> {"none", "waiting"}]
    BY <1>1 DEF BeginsUpscale
  <2>2. sheet[s] = "waiting" /\ sheet'[s] = "cropping" /\ mark'[s] = "running"
    BY <1>1 DEF BeginsUpscale, Entered, Goes, TypeOK
  <2>3. \A k \in Keys : crop[s][k] = "none"
    BY <2>2 DEF CropsAtWork
  <2> HIDE DEF f
  <2> QED BY <2>1, <2>2, <2>3 DEF CropsMove
<1>2. CASE CropsGathered(s)
  <2>1. \A k \in Keys : crop[s][k] # "none" => crop[s][k] \in {"kept", "dropped"}
    BY <1>2 DEF CropsGathered, OwnCrops
  <2>2. crop' = crop /\ sheet'[s] \in {"judging", "closing"}
    BY <1>2 DEF CropsGathered, Settled, Goes, TypeOK
  <2> QED BY <2>1, <2>2 DEF CropsMove
<1>3. CASE JudgeUpscale(s) \/ (PollFault(s) /\ sheet[s] = "judging")
  <2>1. sheet[s] = "judging" /\ crop' = crop
    BY <1>3 DEF JudgeUpscale, PollFault
  <2>2. sheet'[s] = "closing"
    <3>1. CASE JudgeUpscale(s)
      BY <3>1 DEF JudgeUpscale, Apply, Settled, TypeOK
    <3>2. CASE PollFault(s)
      BY <3>2, BrokenMoves DEF PollFault
    <3> QED BY <1>3, <3>1, <3>2
  <2> QED BY <2>1, <2>2 DEF CropsMove, CropsAtWork
<1>4. CASE ~BeginsUpscale(s) /\ ~CropsGathered(s) /\ ~JudgeUpscale(s) /\ ~(PollFault(s) /\ sheet[s] = "judging")
  <2>1. crop' = crop /\ sheet[s] \notin {"cropping", "judging", "closing", "finished"}
    BY <1>4 DEF DoSheet, Refused, Begins, FetchCrops, CropsFail, Compose, CollectVariants, ComposeVariants,
         CollectHumans, ReferencesFail, GuardMix, GuardSprite, CallMix, CallSprite, Upload, StageFails, PollSheet,
         PollFault, CutMix, CutSprite, RepollSprite, Advance, Fails, Entered
  <2>2. \A k \in Keys : crop[s][k] = "none"
    BY <2>1 DEF CropsAtWork
  <2> QED BY <2>1, <2>2 DEF CropsMove
<1> QED BY <1>1, <1>2, <1>3, <1>4

-----------------------------------------------------------------------------
(* The course of a run                                                     *)

Placed == OneAtATime /\ Course /\ CropsAtWork

\* Who sends a report is at a point where nothing else moves it.
LEMMA SenderWaits ==
  ASSUME TypeOK, OneAtATime, NEW r \in wires
  PROVE  /\ r.from = Handler => phase = "demoting"
         /\ \A s \in Sheets : r.from = <<s, Whole>> => sheet[s] \in {"telling", "retelling", "closing"}
         /\ \A s \in Sheets, k \in Keys : r.from = <<s, k>> => crop[s][k] \in {"keeping", "dropping"}
         /\ r.from \in Reporters
<1>1. Owes(r.from) /\ r.from \in Reporters
  BY DEF OneAtATime, TypeOK
<1>2. \A s \in Sheets, k \in Keys \cup {Whole} : Handler # <<s, k>>
  BY DEF Handler
<1>3. \A s, t \in Sheets, k, j \in Keys \cup {Whole} : <<s, k>> = <<t, j>> => s = t /\ k = j
  OBVIOUS
<1>4. Whole \notin Keys
  BY LayoutAssumption
<1>5. r.from = Handler => phase = "demoting"
  BY <1>1, <1>2 DEF Owes
<1>6. ASSUME NEW s \in Sheets, r.from = <<s, Whole>> PROVE sheet[s] \in {"telling", "retelling", "closing"}
  BY <1>1, <1>2, <1>3, <1>4, <1>6 DEF Owes
<1>7. ASSUME NEW s \in Sheets, NEW k \in Keys, r.from = <<s, k>> PROVE crop[s][k] \in {"keeping", "dropping"}
  BY <1>1, <1>2, <1>3, <1>4, <1>7 DEF Owes
<1> QED BY <1>1, <1>5, <1>6, <1>7

\* The ways a report ends for the task that sent it.
LEMMA ContinuesSplit ==
  ASSUME TypeOK, OneAtATime, NEW r \in wires, Continues(r.from)
  PROVE  /\ UNCHANGED <<cut, broken, mark, tally>>
         /\ \/ r.from = Handler /\ phase = "demoting" /\ phase' = "settling" /\ UNCHANGED <<sheet, crop>>
            \/ \E s \in Sheets :
                 /\ r.from = <<s, Whole>> /\ crop' = crop
                 /\ \/ sheet[s] \in {"telling", "retelling"} /\ phase' = phase
                       /\ \E to \in {"polling", "repolling"} : sheet' = [sheet EXCEPT ![s] = to]
                    \/ sheet[s] = "closing" /\ sheet' = [sheet EXCEPT ![s] = "finished"]
                       /\ phase' \in {phase, "raised"}
            \/ \E s \in Sheets, k \in Keys :
                 /\ r.from = <<s, k>> /\ UNCHANGED <<phase, sheet>>
                 /\ \E end \in {"kept", "dropped"} : crop' = [crop EXCEPT ![s][k] = end]
<1> USE DEF work
<1>1. CASE r.from = Handler /\ phase' = "settling" /\ UNCHANGED work
  BY <1>1, SenderWaits
<1>2. ASSUME NEW s \in Sheets, r.from = <<s, Whole>>,
             sheet' = [sheet EXCEPT ![s] = CASE @ = "telling" -> "polling"
                                             [] @ = "retelling" -> "repolling"
                                             [] OTHER -> "finished"],
             phase' = IF sheet[s] = "closing" /\ s \in broken /\ phase = "gathering" THEN "raised" ELSE phase
      PROVE  \/ sheet[s] \in {"telling", "retelling"} /\ phase' = phase
                /\ \E to \in {"polling", "repolling"} : sheet' = [sheet EXCEPT ![s] = to]
             \/ sheet[s] = "closing" /\ sheet' = [sheet EXCEPT ![s] = "finished"]
                /\ phase' \in {phase, "raised"}
  <2>1. sheet[s] \in {"telling", "retelling", "closing"}
    BY <1>2, SenderWaits
  <2>2. CASE sheet[s] = "telling"
    BY <1>2, <2>2
  <2>3. CASE sheet[s] = "retelling"
    BY <1>2, <2>3
  <2>4. CASE sheet[s] = "closing"
    BY <1>2, <2>4
  <2> QED BY <2>1, <2>2, <2>3, <2>4
<1>3. ASSUME NEW s \in Sheets, NEW k \in Keys,
             crop' = [crop EXCEPT ![s][k] = IF @ = "keeping" THEN "kept" ELSE "dropped"]
      PROVE  \E end \in {"kept", "dropped"} : crop' = [crop EXCEPT ![s][k] = end]
  BY <1>3
<1> QED BY <1>1, <1>2, <1>3 DEF Continues

LEMMA BreaksSplit ==
  ASSUME TypeOK, OneAtATime, NEW r \in wires, Breaks(r.from)
  PROVE  /\ cut' = cut
         /\ \/ r.from = Handler /\ phase = "demoting" /\ phase' = "raised" /\ UNCHANGED <<sheet, crop, mark, tally>>
            \/ \E s \in Sheets :
                 /\ r.from = <<s, Whole>> /\ crop' = crop
                 /\ \/ sheet[s] = "closing" /\ sheet' = [sheet EXCEPT ![s] = "finished"]
                       /\ phase' = (IF phase = "gathering" THEN "raised" ELSE phase) /\ UNCHANGED <<mark, tally>>
                    \/ sheet[s] \in {"telling", "retelling"} /\ phase' = phase /\ Broken(s)
            \/ \E s \in Sheets, k \in Keys :
                 /\ r.from = <<s, k>> /\ phase' = phase
                 /\ \/ sheet[s] = "cropping" /\ crop' = [crop EXCEPT ![s][k] = "dropped"]
                       /\ Settled(s, "failed", "failed")
                    \/ sheet[s] # "cropping" /\ crop' = [crop EXCEPT ![s][k] = "lost"]
                       /\ UNCHANGED <<sheet, mark, tally>>
<1> USE DEF work
<1>1. CASE r.from = Handler /\ phase' = "raised" /\ UNCHANGED work
  BY <1>1, SenderWaits
<1>2. ASSUME NEW s \in Sheets, r.from = <<s, Whole>>,
             IF sheet[s] = "closing"
             THEN /\ Goes(s, "finished")
                  /\ phase' = IF phase = "gathering" THEN "raised" ELSE phase
                  /\ UNCHANGED <<broken, mark, tally>>
             ELSE Broken(s) /\ UNCHANGED phase
      PROVE  \/ sheet[s] = "closing" /\ sheet' = [sheet EXCEPT ![s] = "finished"]
                /\ phase' = (IF phase = "gathering" THEN "raised" ELSE phase) /\ UNCHANGED <<mark, tally>>
             \/ sheet[s] \in {"telling", "retelling"} /\ phase' = phase /\ Broken(s)
  <2>1. sheet[s] \in {"telling", "retelling", "closing"}
    BY <1>2, SenderWaits
  <2>2. CASE sheet[s] = "closing"
    BY <1>2, <2>2 DEF Goes
  <2>3. CASE sheet[s] # "closing"
    BY <1>2, <2>1, <2>3
  <2> QED BY <2>2, <2>3
<1>3. ASSUME NEW s \in Sheets, NEW k \in Keys,
             crop' = [crop EXCEPT ![s][k] = IF sheet[s] = "cropping" THEN "dropped" ELSE "lost"],
             IF sheet[s] = "cropping" THEN Settled(s, "failed", "failed")
             ELSE UNCHANGED <<sheet, broken, mark, tally>>
      PROVE  \/ sheet[s] = "cropping" /\ crop' = [crop EXCEPT ![s][k] = "dropped"]
                /\ Settled(s, "failed", "failed")
             \/ sheet[s] # "cropping" /\ crop' = [crop EXCEPT ![s][k] = "lost"]
                /\ UNCHANGED <<sheet, mark, tally>>
  <2>1. CASE sheet[s] = "cropping"
    BY <1>3, <2>1
  <2>2. CASE sheet[s] # "cropping"
    BY <1>3, <2>2
  <2> QED BY <2>1, <2>2
<1>4. CASE \E s \in Sheets :
             /\ r.from = <<s, Whole>>
             /\ IF sheet[s] = "closing"
                THEN /\ Goes(s, "finished")
                     /\ phase' = IF phase = "gathering" THEN "raised" ELSE phase
                     /\ UNCHANGED <<broken, mark, tally>>
                ELSE Broken(s) /\ UNCHANGED phase
             /\ UNCHANGED <<crop, cut>>
  BY <1>2, <1>4
<1>5. CASE \E s \in Sheets, k \in Keys :
             /\ r.from = <<s, k>>
             /\ crop' = [crop EXCEPT ![s][k] = IF sheet[s] = "cropping" THEN "dropped" ELSE "lost"]
             /\ IF sheet[s] = "cropping" THEN Settled(s, "failed", "failed")
                ELSE UNCHANGED <<sheet, broken, mark, tally>>
             /\ UNCHANGED <<phase, cut>>
  BY <1>3, <1>5
<1> QED BY <1>1, <1>4, <1>5 DEF Breaks

\* The one report on its way is over.
LEMMA NothingOnTheWay ==
  ASSUME OneAtATime, NEW r \in wires, wires' = wires \ {r}
  PROVE  wires' = {}
BY DEF OneAtATime

LEMMA PlacedInit == Init => Placed
BY DEF Init, Placed, OneAtATime, Course, CropsAtWork

\* Senders that are not moved go on waiting.
LEMMA OwedStay ==
  ASSUME OneAtATime, wires' \subseteq wires,
         \A s \in Sheets : sheet[s] \in {"telling", "retelling", "closing"} => sheet'[s] = sheet[s],
         \A s \in Sheets, k \in Keys : crop[s][k] \in {"keeping", "dropping"} => crop'[s][k] = crop[s][k],
         phase = "demoting" => phase' = "demoting"
  PROVE  OneAtATime'
<1>1. ASSUME NEW r \in wires' PROVE Owes(r.from)'
  <2>1. Owes(r.from)
    BY DEF OneAtATime
  <2> QED BY <2>1 DEF Owes
<1> QED BY <1>1 DEF OneAtATime

LEMMA PlacedBySheet ==
  ASSUME TypeOK, OwnCrops, Placed, NEW s \in Sheets, DoSheet(s)
  PROVE  Placed'
<1>1. SheetMove(s) /\ CropsMove(s)
  BY SheetMoves, CropsMoves DEF Placed
<1>2. PICK to \in Stages : sheet' = [sheet EXCEPT ![s] = to]
  BY <1>1 DEF SheetMove
<1>3. sheet'[s] \in Stages /\ \A t \in Sheets : t # s => sheet'[t] = sheet[t] /\ mark'[t] = mark[t]
  BY <1>1, <1>2 DEF TypeOK, SheetMove
<1>4. \A t \in Sheets : t # s => crop'[t] = crop[t]
  BY <1>1 DEF CropsMove, TypeOK
<1>5. phase \notin {"queued", "polling", "persisting", "demoting", "settling"} /\ phase' = phase
  BY <1>1 DEF SheetMove, Placed, Course
<1>6. wires' = wires
  BY <1>1 DEF SheetMove
<1>7. Course'
  BY <1>1, <1>3, <1>5 DEF Placed, Course, SheetMove
<1>8. \A k \in Keys : crop[s][k] \in {"keeping", "dropping"} => crop'[s][k] = crop[s][k]
  BY <1>1 DEF CropsMove
<1>9. OneAtATime'
  BY <1>1, <1>3, <1>4, <1>5, <1>6, <1>8, OwedStay DEF Placed, SheetMove
<1>10. ASSUME NEW k \in Keys
       PROVE  /\ crop'[s][k] # "none" => sheet'[s] \in {"cropping", "judging", "closing", "finished"}
              /\ crop'[s][k] \in {"waiting", "working"} => sheet'[s] # "judging" /\ mark'[s] # "done"
  <2>1. CASE crop' = crop /\ \A j \in Keys : crop[s][j] # "none" =>
               crop[s][j] \notin {"waiting", "working"} /\ sheet'[s] \in {"judging", "closing"}
    BY <2>1
  <2>2. CASE sheet'[s] = "cropping" /\ mark'[s] = "running"
    BY <2>2
  <2> QED BY <1>1, <2>1, <2>2 DEF CropsMove
<1>11. CropsAtWork'
  BY <1>3, <1>4, <1>10 DEF Placed, CropsAtWork
<1> QED BY <1>7, <1>9, <1>11 DEF Placed

LEMMA PlacedByCrop ==
  ASSUME TypeOK, Placed, NEW s \in Sheets, NEW k \in Keys, DoCrop(s, k)
  PROVE  Placed'
<1>1. UNCHANGED <<phase, sheet, tally, wires>> /\ crop[s][k] \in {"waiting", "working"}
  BY DEF DoCrop, CropBegins, CropWorked, work, told
<1>2. \/ crop' = [crop EXCEPT ![s][k] = "working"] /\ mark' = mark
      \/ \E end \in {"keeping", "dropping"} :
           crop' = [crop EXCEPT ![s][k] = end] /\ mark' = [mark EXCEPT ![s] = "processing"]
  BY DEF DoCrop, CropBegins, CropWorked
<1>3. \A t \in Sheets, j \in Keys : (t # s \/ j # k) => crop'[t][j] = crop[t][j]
  BY <1>2 DEF TypeOK
<1>4. \/ crop'[s][k] = "working" /\ mark' = mark
      \/ crop'[s][k] \in {"keeping", "dropping"}
  BY <1>2 DEF TypeOK
<1>5. \A t \in Sheets : mark'[t] \in {mark[t], "processing"}
  BY <1>2 DEF TypeOK
<1>6. sheet[s] \in {"cropping", "closing", "finished"} /\ mark[s] # "done"
  BY <1>1 DEF Placed, CropsAtWork
<1>7. phase \notin {"queued", "polling"}
  BY <1>6 DEF Placed, Course
<1>8. Course'
  BY <1>1, <1>5, <1>7 DEF Placed, Course
<1>9. OneAtATime'
  BY <1>1, <1>3, OwedStay DEF Placed
<1>10. CropsAtWork'
  BY <1>1, <1>3, <1>4, <1>5, <1>6 DEF Placed, CropsAtWork
<1> QED BY <1>8, <1>9, <1>10 DEF Placed

LEMMA PlacedByReport ==
  ASSUME TypeOK, Placed, Reporting
  PROVE  Placed'
<1> USE DEF run, db, work, told
<1>1. ASSUME NEW t \in Reporters, Send(t) PROVE Placed'
  <2>1. wires' = {[from |-> t, step |-> tally.done, marks |-> mark]} /\ Owes(t)
        /\ UNCHANGED <<phase, sheet, crop, mark, tally>>
    BY <1>1 DEF Send
  <2>2. Owes(t)'
    BY <2>1 DEF Owes
  <2>3. OneAtATime'
    BY <2>1, <2>2 DEF OneAtATime
  <2>4. phase \notin {"queued", "polling"}
    <3>1. CASE t = Handler /\ phase = "demoting"
      BY <3>1
    <3>2. CASE \E s \in Sheets : sheet[s] # "none"
      BY <3>2 DEF Placed, Course
    <3>3. CASE \E s \in Sheets, k \in Keys : crop[s][k] # "none"
      BY <3>3 DEF Placed, Course, CropsAtWork
    <3> QED BY <2>1, <3>1, <3>2, <3>3 DEF Owes
  <2> QED BY <2>1, <2>3, <2>4 DEF Placed, Course, CropsAtWork
<1>2. ASSUME NEW r \in wires, wires' = wires \ {r}
      PROVE  OneAtATime' /\ wires' = {} /\ phase \notin {"queued", "polling"}
  BY <1>2, NothingOnTheWay DEF Placed, OneAtATime, Course
<1>3. ASSUME NEW s \in Sheets, NEW to, sheet' = [sheet EXCEPT ![s] = to], UNCHANGED <<crop, mark, tally>>,
             \/ sheet[s] \in {"telling", "retelling"} /\ to \in {"polling", "repolling"} /\ phase' = phase
             \/ sheet[s] = "closing" /\ to = "finished" /\ phase' \in {phase, "raised"},
             phase \notin {"queued", "polling"}
      PROVE  Course' /\ CropsAtWork'
  <2>1. sheet'[s] = to /\ \A t \in Sheets : t # s => sheet'[t] = sheet[t]
    BY <1>3 DEF TypeOK
  <2> QED BY <1>3, <2>1 DEF Placed, Course, CropsAtWork
<1>4. ASSUME NEW s \in Sheets, NEW k \in Keys, NEW end \in {"kept", "dropped", "lost"},
             crop' = [crop EXCEPT ![s][k] = end], crop[s][k] \in {"keeping", "dropping"},
             UNCHANGED <<sheet, mark, tally, phase>>, phase \notin {"queued", "polling"}
      PROVE  Course' /\ CropsAtWork'
  <2>1. crop'[s][k] = end /\ \A t \in Sheets, j \in Keys : (t # s \/ j # k) => crop'[t][j] = crop[t][j]
    BY <1>4 DEF TypeOK
  <2> QED BY <1>4, <2>1 DEF Placed, Course, CropsAtWork
<1>5. CASE Told
  <2>1. PICK r \in wires : Continues(r.from) /\ wires' = wires \ {r}
    BY <1>5 DEF Told
  <2>2. OneAtATime' /\ wires' = {} /\ phase \notin {"queued", "polling"}
    BY <1>2, <2>1
  <2>3. UNCHANGED <<mark, tally>>
    BY <2>1, ContinuesSplit DEF Placed
  <2>4. CASE r.from = Handler /\ phase = "demoting" /\ phase' = "settling" /\ UNCHANGED <<sheet, crop>>
    BY <2>2, <2>3, <2>4 DEF Placed, Course, CropsAtWork
  <2>5. CASE \E s \in Sheets :
               /\ r.from = <<s, Whole>> /\ crop' = crop
               /\ \/ sheet[s] \in {"telling", "retelling"} /\ phase' = phase
                     /\ \E to \in {"polling", "repolling"} : sheet' = [sheet EXCEPT ![s] = to]
                  \/ sheet[s] = "closing" /\ sheet' = [sheet EXCEPT ![s] = "finished"]
                     /\ phase' \in {phase, "raised"}
    BY <1>3, <2>2, <2>3, <2>5 DEF Placed
  <2>6. CASE \E s \in Sheets, k \in Keys :
               /\ r.from = <<s, k>> /\ UNCHANGED <<phase, sheet>>
               /\ \E end \in {"kept", "dropped"} : crop' = [crop EXCEPT ![s][k] = end]
    <3>1. PICK s \in Sheets, k \in Keys :
            /\ r.from = <<s, k>> /\ UNCHANGED <<phase, sheet>>
            /\ \E end \in {"kept", "dropped"} : crop' = [crop EXCEPT ![s][k] = end]
      BY <2>6
    <3>2. PICK end \in {"kept", "dropped"} : crop' = [crop EXCEPT ![s][k] = end]
      BY <3>1
    <3>3. crop[s][k] \in {"keeping", "dropping"}
      BY <3>1, SenderWaits DEF Placed
    <3>4. Course' /\ CropsAtWork'
      BY <1>4, <2>2, <2>3, <3>1, <3>2, <3>3
    <3> QED BY <2>2, <3>4 DEF Placed
  <2> QED BY <2>1, <2>4, <2>5, <2>6, ContinuesSplit DEF Placed
<1>6. CASE ReportFault
  <2>1. PICK r \in wires : Breaks(r.from) /\ wires' = wires \ {r}
    BY <1>6 DEF ReportFault
  <2>2. OneAtATime' /\ wires' = {} /\ phase \notin {"queued", "polling"}
    BY <1>2, <2>1
  <2>3. CASE r.from = Handler /\ phase = "demoting" /\ phase' = "raised" /\ UNCHANGED <<sheet, crop, mark, tally>>
    BY <2>2, <2>3 DEF Placed, Course, CropsAtWork
  <2>4. ASSUME NEW s \in Sheets, sheet' = [sheet EXCEPT ![s] = "closing"], sheet'[s] = "closing", phase' = phase,
               sheet[s] \in {"telling", "retelling", "cropping"}, mark'[s] \in {mark[s], "failed"},
               \A t \in Sheets : t # s => mark'[t] = mark[t],
               crop' = crop \/ \E k \in Keys : crop' = [crop EXCEPT ![s][k] = "dropped"] /\ sheet[s] = "cropping"
        PROVE  Course' /\ CropsAtWork'
    <3>1. \A t \in Sheets : t # s => sheet'[t] = sheet[t]
      BY <2>4 DEF TypeOK
    <3>2. Course'
      BY <2>2, <2>4, <3>1 DEF Placed, Course
    <3>3. \A t \in Sheets, j \in Keys : crop'[t][j] = crop[t][j] \/ (t = s /\ crop'[t][j] = "dropped")
      BY <2>4 DEF TypeOK
    <3>4. mark'[s] # "done"
      BY <2>4 DEF Placed, Course
    <3>5. CropsAtWork'
      BY <2>4, <3>1, <3>3, <3>4 DEF Placed, CropsAtWork
    <3> QED BY <3>2, <3>5
  <2>5. ASSUME NEW s \in Sheets, r.from = <<s, Whole>>, crop' = crop,
               \/ sheet[s] = "closing" /\ sheet' = [sheet EXCEPT ![s] = "finished"]
                  /\ phase' = (IF phase = "gathering" THEN "raised" ELSE phase) /\ UNCHANGED <<mark, tally>>
               \/ sheet[s] \in {"telling", "retelling"} /\ phase' = phase /\ Broken(s)
        PROVE  Course' /\ CropsAtWork'
    <3>1. CASE sheet[s] = "closing" /\ sheet' = [sheet EXCEPT ![s] = "finished"] /\ UNCHANGED <<mark, tally>>
               /\ phase' \in {phase, "raised"}
      BY <1>3, <2>2, <2>5, <3>1
    <3>2. CASE sheet[s] \in {"telling", "retelling"} /\ phase' = phase /\ Broken(s)
      BY <2>4, <2>5, <3>2, BrokenMoves
    <3> QED BY <2>5, <3>1, <3>2
  <2>6. ASSUME NEW s \in Sheets, NEW k \in Keys, r.from = <<s, k>>, phase' = phase,
               \/ sheet[s] = "cropping" /\ crop' = [crop EXCEPT ![s][k] = "dropped"]
                  /\ Settled(s, "failed", "failed")
               \/ sheet[s] # "cropping" /\ crop' = [crop EXCEPT ![s][k] = "lost"]
                  /\ UNCHANGED <<sheet, mark, tally>>
        PROVE  Course' /\ CropsAtWork'
    <3>1. CASE sheet[s] = "cropping" /\ crop' = [crop EXCEPT ![s][k] = "dropped"] /\ Settled(s, "failed", "failed")
      BY <2>4, <2>6, <3>1, SettledMoves
    <3>2. CASE crop' = [crop EXCEPT ![s][k] = "lost"] /\ UNCHANGED <<sheet, mark, tally>>
      BY <1>4, <2>2, <2>6, <3>2, SenderWaits DEF Placed
    <3> QED BY <2>6, <3>1, <3>2
  <2>7. Course' /\ CropsAtWork'
    BY <2>1, <2>2, <2>3, <2>5, <2>6, BreaksSplit DEF Placed
  <2> QED BY <2>2, <2>7 DEF Placed
<1> QED BY <1>1, <1>5, <1>6 DEF Reporting

LEMMA PlacedByHandler ==
  ASSUME TypeOK, Placed, RequestCancel \/ Edit \/ Before \/ After
  PROVE  Placed'
<1> USE DEF run, db, work, told
<1>1. CASE RequestCancel \/ Edit
  BY <1>1, OwedStay DEF RequestCancel, Edit, Placed, Course, CropsAtWork
<1>2. CASE Loaded
  <2>1. phase = "queued" /\ phase' \in {"completed", "polling"} /\ UNCHANGED <<sheet, crop, tally, wires>>
    BY <1>2 DEF Loaded
  <2>2. \A s \in Sheets : mark'[s] \in {"none", "pending"}
    BY <1>2 DEF Loaded, Placed, Course
  <2> QED BY <2>1, <2>2, OwedStay DEF Placed, Course, CropsAtWork
<1>3. CASE LoadFails
  BY <1>3, OwedStay DEF LoadFails, Placed, Course, CropsAtWork
<1>4. CASE FirstPoll
  <2>1. phase = "polling" /\ phase' \in {"cancelled", "gathering"} /\ UNCHANGED <<crop, tally, wires, mark>>
    BY <1>4 DEF FirstPoll
  <2>2. wires = {} /\ \A s \in Sheets : sheet[s] = "none" /\ mark[s] \in {"none", "pending"}
    BY <2>1 DEF Placed, Course
  <2>3. \A s \in Sheets, k \in Keys : crop[s][k] = "none"
    BY <2>2 DEF Placed, CropsAtWork
  <2> QED BY <2>1, <2>2, <2>3 DEF Placed, OneAtATime, Course, CropsAtWork
<1>5. CASE Gathered \/ Persist \/ Settle
  BY <1>5, OwedStay DEF Gathered, Persist, Settle, Returned, Placed, Course, CropsAtWork
<1>6. CASE PersistFault
  <2>1. \A s \in Sheets : mark'[s] = IF mark[s] = "done" THEN "failed" ELSE mark[s]
    BY <1>6 DEF PersistFault
  <2>2. phase = "persisting" /\ phase' = "demoting" /\ UNCHANGED <<sheet, crop, wires>>
    BY <1>6 DEF PersistFault
  <2> QED BY <2>1, <2>2, OwedStay DEF Placed, Course, CropsAtWork
<1>7. CASE HandlerFault
  BY <1>7, OwedStay DEF HandlerFault, Placed, Course, CropsAtWork
<1> QED BY <1>1, <1>2, <1>3, <1>4, <1>5, <1>6, <1>7
      DEF Before, After, LoadMix, LoadSprite, LoadUpscale

LEMMA PlacedStep == TypeOK /\ OwnCrops /\ Placed /\ [Next]_vars => Placed'
<1> SUFFICES ASSUME TypeOK, OwnCrops, Placed, [Next]_vars PROVE Placed'
  OBVIOUS
<1>1. CASE UNCHANGED vars
  BY <1>1, OwedStay DEF vars, work, told, Placed, Course, CropsAtWork
<1> QED BY <1>1, PlacedByHandler, PlacedByReport, PlacedBySheet, PlacedByCrop DEF Next

-----------------------------------------------------------------------------
(* The copy and the column                                                 *)

LEMMA CopiedInit == Init => Copied
BY DEF Init, Copied

\* Steps that write neither the copy nor the column, and make and unmake no done sheet.
LEMMA CopiedStay ==
  ASSUME Copied, UNCHANGED <<mem, column>>,
         \A s \in Sheets : (mark'[s] = "done") <=> (mark[s] = "done"),
         \A s \in Sheets : mark[s] = "done" => cut'[s] = cut[s],
         phase' \in {phase, "completed", "cancelled", "failed", "raised"}
  PROVE  Copied'
BY DEF Copied

LEMMA CopiedBySheet ==
  ASSUME TypeOK, Placed, Copied, NEW s \in Sheets, DoSheet(s)
  PROVE  Copied'
<1>1. SheetMove(s)
  BY SheetMoves DEF Placed
<1>2. mark[s] # "done" /\ phase' = phase /\ column' = column
      /\ \A t \in Sheets : t # s => mark'[t] = mark[t] /\ cut'[t] = cut[t]
  BY <1>1 DEF SheetMove, Placed, Course
<1>3. CASE mark'[s] # "done"
  <2>1. mem' = mem
    BY <1>1, <1>3 DEF SheetMove
  <2> QED BY <1>2, <1>3, <2>1, CopiedStay
<1>4. CASE mark'[s] = "done"
  <2>1. PICK crops \in SUBSET Keys : Apply(s, crops)
    BY <1>1, <1>4 DEF SheetMove
  <2>2. /\ Held(mem'.column[s], cut'[s])
        /\ \A t \in Sheets : t # s =>
             /\ Drained(mem'.column[t]) = Drained(mem.column[t])
             /\ \A c : Held(mem.column[t], c) => Held(mem'.column[t], c)
    BY <2>1, ApplyHolds
  <2>3. phase \notin {"demoting", "settling"}
    BY <1>1 DEF SheetMove, Placed, Course
  <2>4. \A t \in Sheets : mark'[t] = "done" => Held(mem'.column[t], cut'[t])
    BY <1>2, <2>2 DEF Copied
  <2>5. phase' \in {"polling", "gathering", "persisting"} =>
          \A t \in Sheets : mark'[t] # "done" => Drained(mem'.column[t]) = Drained(column'[t])
    BY <1>2, <1>4, <2>2 DEF Copied
  <2> QED BY <1>2, <2>3, <2>4, <2>5 DEF Copied
<1> QED BY <1>3, <1>4

LEMMA CopiedByCrop ==
  ASSUME TypeOK, Placed, Copied, NEW s \in Sheets, NEW k \in Keys, DoCrop(s, k)
  PROVE  Copied'
<1>1. UNCHANGED <<phase, mem, column, cut>> /\ crop[s][k] \in {"waiting", "working"}
  BY DEF DoCrop, CropBegins, CropWorked, db
<1>2. mark[s] # "done"
  BY <1>1 DEF Placed, CropsAtWork
<1>3. mark' = mark \/ mark' = [mark EXCEPT ![s] = "processing"]
  BY DEF DoCrop, CropBegins, CropWorked
<1>4. \A t \in Sheets : (mark'[t] = "done") <=> (mark[t] = "done")
  BY <1>2, <1>3 DEF TypeOK
<1> QED BY <1>1, <1>4, CopiedStay

LEMMA CopiedByReport ==
  ASSUME TypeOK, Placed, Copied, Reporting
  PROVE  Copied'
<1> USE DEF run, db, work, told
<1>1. CASE \E t \in Reporters : Send(t)
  BY <1>1, CopiedStay DEF Send
<1>2. CASE Told
  <2>1. PICK r \in wires : Continues(r.from)
    BY <1>2 DEF Told
  <2>2. UNCHANGED <<mem, column>>
    BY <1>2 DEF Told
  <2>3. UNCHANGED <<cut, mark>>
    BY <2>1, ContinuesSplit DEF Placed
  <2>4. phase' \in {phase, "raised"} \/ (phase = "demoting" /\ phase' = "settling")
    BY <2>1, ContinuesSplit DEF Placed
  <2>5. CASE phase' \in {phase, "raised"}
    BY <2>2, <2>3, <2>5, CopiedStay
  <2>6. CASE phase = "demoting" /\ phase' = "settling"
    BY <2>2, <2>3, <2>6 DEF Copied
  <2> QED BY <2>4, <2>5, <2>6
<1>3. CASE ReportFault
  <2>1. PICK r \in wires : Breaks(r.from)
    BY <1>3 DEF ReportFault
  <2>2. UNCHANGED <<mem, column>>
    BY <1>3 DEF ReportFault
  <2>3. cut' = cut /\ phase' \in {phase, "raised"}
    BY <2>1, BreaksSplit DEF Placed
  <2>4. mark' = mark \/ \E s \in Sheets : sheet[s] \in {"telling", "retelling", "cropping"} /\ mark'[s] \in {mark[s], "failed"}
                                          /\ \A t \in Sheets : t # s => mark'[t] = mark[t]
    BY <2>1, BreaksSplit, BrokenMoves, SettledMoves DEF Placed
  <2>5. \A s \in Sheets : (mark'[s] = "done") <=> (mark[s] = "done")
    BY <2>4 DEF Placed, Course
  <2> QED BY <2>2, <2>3, <2>5, CopiedStay
<1> QED BY <1>1, <1>2, <1>3 DEF Reporting

LEMMA CopiedByHandler ==
  ASSUME TypeOK, SwappedCovers, Placed, Copied, RequestCancel \/ Edit \/ Before \/ After
  PROVE  Copied'
<1> USE DEF run, db, work, told
<1>1. CASE RequestCancel \/ LoadFails \/ HandlerFault \/ Settle
  BY <1>1, CopiedStay DEF RequestCancel, LoadFails, HandlerFault, Settle
<1>2. CASE Edit
  <2>1. phase = "queued" /\ phase' = phase /\ UNCHANGED <<mem, mark, cut>>
    BY <1>2 DEF Edit
  <2> QED BY <2>1 DEF Copied
<1>3. CASE Loaded
  <2>1. phase = "queued" /\ mem' = [column |-> column, rest |-> rest] /\ column' = column
        /\ phase' \in {"completed", "polling"}
    BY <1>3 DEF Loaded
  <2>2. \A s \in Sheets : mark'[s] # "done"
    BY <1>3 DEF Loaded, Placed, Course
  <2>3. mem'.column = column'
    BY <2>1
  <2> QED BY <2>1, <2>2, <2>3 DEF Copied
<1>4. CASE FirstPoll
  BY <1>4 DEF FirstPoll, Copied
<1>5. CASE Gathered
  <2>1. phase = "gathering" /\ phase' = (IF tally.swapped > 0 THEN "persisting" ELSE "settling")
        /\ UNCHANGED <<mem, column, mark, cut>>
    BY <1>5 DEF Gathered
  <2>2. CASE tally.swapped > 0
    BY <2>1, <2>2 DEF Copied
  <2>3. CASE ~(tally.swapped > 0)
    <3>1. Marked("done") \in SUBSET Sheets
      BY DEF Marked
    <3>2. IsFiniteSet(Marked("done")) /\ Cardinality(Marked("done")) = 0
      BY <2>3, <3>1, MarkedFinite DEF SwappedCovers, TypeOK
    <3>3. Marked("done") = {}
      BY <3>2, FS_EmptySet
    <3>4. \A s \in Sheets : mark[s] # "done"
      BY <3>3 DEF Marked
    <3> QED BY <2>1, <2>3, <3>4 DEF Copied
  <2> QED BY <2>2, <2>3
<1>6. CASE Persist
  BY <1>6 DEF Persist, Copied
<1>7. CASE PersistFault
  <2>1. phase' = "demoting" /\ \A s \in Sheets : mark'[s] # "done"
    BY <1>7 DEF PersistFault
  <2> QED BY <2>1 DEF Copied
<1> QED BY <1>1, <1>2, <1>3, <1>4, <1>5, <1>6, <1>7
      DEF Before, After, LoadMix, LoadSprite, LoadUpscale

LEMMA CopiedStep == TypeOK /\ SwappedCovers /\ Placed /\ Copied /\ [Next]_vars => Copied'
<1> SUFFICES ASSUME TypeOK, SwappedCovers, Placed, Copied, [Next]_vars PROVE Copied'
  OBVIOUS
<1>1. CASE UNCHANGED vars
  BY <1>1, CopiedStay DEF vars, work, db
<1> QED BY <1>1, CopiedByHandler, CopiedByReport, CopiedBySheet, CopiedByCrop DEF Next

\* Which steps write the column or end the run.
LEMMA Writes ==
  ASSUME TypeOK, Placed, [Next]_vars
  PROVE  \/ Edit \/ Persist \/ PersistFault
         \/ /\ UNCHANGED <<column, rest>>
            /\ phase' \in Returned => phase' = phase \/ phase = "queued" \/ FirstPoll \/ Settle
<1> USE DEF run, db, work, told
<1>1. CASE RequestCancel \/ LoadFails \/ HandlerFault \/ FirstPoll \/ Settle \/ Gathered
  BY <1>1 DEF RequestCancel, LoadFails, HandlerFault, FirstPoll, Settle, Gathered, Returned
<1>2. CASE Loaded
  BY <1>2 DEF Loaded
<1>3. CASE Reporting
  <2>1. UNCHANGED <<column, rest>>
    BY <1>3 DEF Reporting, Send, Told, ReportFault
  <2>2. CASE \E t \in Reporters : Send(t)
    BY <2>1, <2>2 DEF Send
  <2>3. CASE Told
    <3>1. PICK r \in wires : Continues(r.from)
      BY <2>3 DEF Told
    <3>2. phase' \in {phase, "raised", "settling"}
      BY <3>1, ContinuesSplit DEF Placed
    <3> QED BY <2>1, <3>2 DEF Returned
  <2>4. CASE ReportFault
    <3>1. PICK r \in wires : Breaks(r.from)
      BY <2>4 DEF ReportFault
    <3>2. phase' \in {phase, "raised"}
      BY <3>1, BreaksSplit DEF Placed
    <3> QED BY <2>1, <3>2 DEF Returned
  <2> QED BY <1>3, <2>2, <2>3, <2>4 DEF Reporting
<1>4. ASSUME NEW s \in Sheets, DoSheet(s) PROVE UNCHANGED <<column, rest, phase>>
  BY <1>4, SheetMoves DEF Placed, SheetMove
<1>5. ASSUME NEW s \in Sheets, NEW k \in Keys, DoCrop(s, k) PROVE UNCHANGED <<column, rest, phase>>
  BY <1>5 DEF DoCrop, CropBegins, CropWorked
<1>6. CASE UNCHANGED vars
  BY <1>6 DEF vars
<1> QED BY <1>1, <1>2, <1>3, <1>4, <1>5, <1>6
      DEF Next, Before, After, LoadMix, LoadSprite, LoadUpscale

\* StoredIffDone for one step.
StoredStep ==
  phase # "queued" =>
    /\ \A s \in Sheets : mark[s] # "done" => Drained(column'[s]) = Drained(column[s])
    /\ phase = "raised" => UNCHANGED <<column, rest>>
    /\ phase' \in Returned /\ phase \notin Returned =>
         \A s \in Sheets : mark'[s] = "done" =>
           \E i \in DOMAIN column'[s] : column'[s][i].sel /\ column'[s][i].crops = cut[s]

LEMMA StoredByStep == TypeOK /\ Placed /\ Copied /\ [Next]_vars => StoredStep
<1> SUFFICES ASSUME TypeOK, Placed, Copied, [Next]_vars, phase # "queued" PROVE StoredStep
  BY DEF StoredStep
<1> USE DEF db, work
<1>1. CASE Edit
  BY <1>1 DEF Edit
<1>2. CASE Persist \/ PersistFault
  <2>1. phase = "persisting" /\ phase' \in {"settling", "demoting"}
        /\ (column' = column \/ column' = mem.column)
    BY <1>2 DEF Persist, PersistFault, Unsure
  <2>2. \A s \in Sheets : mark[s] # "done" => Drained(column'[s]) = Drained(column[s])
    BY <2>1 DEF Copied
  <2> QED BY <2>1, <2>2 DEF StoredStep, Returned
<1>3. CASE UNCHANGED <<column, rest>> /\ (phase' \in Returned => phase' = phase \/ FirstPoll \/ Settle)
  <2>1. CASE FirstPoll
    <3>1. \A s \in Sheets : mark'[s] # "done"
      BY <2>1 DEF FirstPoll, Placed, Course
    <3> QED BY <1>3, <3>1 DEF StoredStep
  <2>2. CASE Settle
    <3>1. \A s \in Sheets : mark'[s] = "done" => Held(column'[s], cut[s])
      BY <1>3, <2>2 DEF Settle, Copied
    <3> QED BY <1>3, <3>1 DEF StoredStep, Held
  <2>3. CASE phase' \in Returned => phase' = phase
    BY <1>3, <2>3 DEF StoredStep
  <2> QED BY <1>3, <2>1, <2>2, <2>3
<1> QED BY <1>1, <1>2, <1>3, Writes

\* What a run stores is what it says it did: the results of a sheet change only while it is marked
\* done, a run that raised writes nothing, and what a run that returns marks as done is what it cut
\* and selected. For any sheets, crops and number of database errors.
THEOREM StoredWhatIsDone == Spec => StoredIffDone
<1>1. StoredStep =>
        (phase # "queued" =>
          /\ \A s \in Sheets : mark[s] # "done" => Drained(column'[s]) = Drained(column[s])
          /\ phase = "raised" => UNCHANGED <<column, rest>>
          /\ phase' \in Returned /\ phase \notin Returned =>
               \A s \in Sheets : mark'[s] = "done" =>
                 \E i \in DOMAIN column'[s] : column'[s][i].sel /\ column'[s][i].crops = cut[s])
  BY DEF StoredStep
<1>2. WinnersEverywhere => OwnCrops
  BY DEF WinnersEverywhere
<1>3. Init => OwnReports
  BY DEF Init, OwnReports
<1> QED BY <1>1, <1>2, <1>3, TypeInit, TypeStep, WinnersInit, ReportsStep, WinnersStep, PlacedInit, PlacedStep,
           CopiedInit, CopiedStep, StoredByStep, PTL DEF Spec, StoredIffDone

-----------------------------------------------------------------------------
(* The row and the tasks                                                   *)

LEMMA CoveredInit == Init => Covered
<1> SUFFICES ASSUME Init PROVE Covered
  OBVIOUS
<1>1. row.step = 0 /\ row.marks = mark /\ tally.done = 0 /\ wires = {} /\ phase = "queued"
  BY DEF Init
<1> QED BY <1>1 DEF Covered

LEMMA CountTypes ==
  TypeOK => /\ tally.done \in Nat /\ row.step \in Nat
            /\ \A r \in wires : r.step \in Nat
BY DEF TypeOK

\* Who is pending and is not moved stays pending.
LEMMA PendingStay ==
  ASSUME NEW t, Pending(t), phase = "demoting" /\ t = Handler => phase' = "demoting",
         \A s \in Sheets : sheet[s] \in Stages \cup {"waiting"} /\ t = <<s, Whole>> =>
           sheet'[s] \in Stages \cup {"waiting"},
         \A s \in Sheets, k \in Keys : crop[s][k] \in {"keeping", "dropping"} /\ t = <<s, k>> =>
           crop'[s][k] = crop[s][k]
  PROVE  Pending(t)'
BY DEF Pending

\* Steps of the handler that count and mark nothing.
LEMMA CoveredStay ==
  ASSUME Covered, UNCHANGED <<row, wires, mark, tally, sheet, crop>>,
         phase' = "polling" => phase = "polling" /\ gone' = gone,
         phase' = "queued" => phase = "queued",
         phase' = "demoting" <=> phase = "demoting",
         phase' \in {"gathering", "persisting", "settling"} => phase \in {"gathering", "persisting", "settling"}
  PROVE  Covered'
<1>1. \A t : Pending(t) <=> Pending(t)'
  BY DEF Pending
<1>2. \A t : Heartbeat(t) <=> Heartbeat(t)'
  BY DEF Heartbeat
<1>3. NoneLost <=> NoneLost'
  BY DEF NoneLost
<1>4. \A r : Current(r) <=> Current(r)'
  BY DEF Current
<1>5. Current(row) <=> Current(row)'
  BY DEF Current
<1>6. \A r \in wires' : Current(r)' \/ Heartbeat(r.from)' \/ \E t \in Reporters : t # r.from /\ Pending(t)'
  BY <1>1, <1>2, <1>4 DEF Covered
<1>7. phase' \in {"gathering", "persisting", "demoting", "settling"} /\ NoneLost' =>
        Current(row)' \/ \E t \in Reporters : Pending(t)'
  BY <1>1, <1>3, <1>5 DEF Covered
<1> QED BY <1>6, <1>7 DEF Covered

LEMMA SheetsReport == \A s \in Sheets : <<s, Whole>> \in Reporters /\ \A k \in Keys : <<s, k>> \in Reporters
BY DEF Reporters

\* Somebody who is nobody's sender is still to report: then the row may lag behind.
LEMMA CoveredByReporter ==
  ASSUME TypeOK, Covered, UNCHANGED <<row, wires>>, tally'.done \in {tally.done, tally.done + 1},
         phase' \notin {"queued", "polling"}, NEW t \in Reporters, Pending(t)', \A r \in wires : r.from # t
  PROVE  Covered'
<1>1. row'.step <= tally'.done /\ \A r \in wires' : row'.step <= r.step /\ r.step <= tally'.done
  BY CountTypes DEF Covered
<1> QED BY <1>1 DEF Covered

LEMMA CoveredBySheet ==
  ASSUME TypeOK, Placed, Covered, NEW s \in Sheets, DoSheet(s)
  PROVE  Covered'
<1>1. SheetMove(s)
  BY SheetMoves DEF Placed
<1>2. UNCHANGED <<row, wires>> /\ tally'.done \in {tally.done, tally.done + 1}
  BY <1>1 DEF SheetMove
<1>3. phase' \notin {"queued", "polling"}
  BY <1>1 DEF SheetMove, Placed, Course
<1>4. sheet'[s] \in Stages
  BY <1>1 DEF SheetMove, TypeOK
<1>5. Pending(<<s, Whole>>)'
  BY <1>4 DEF Pending
<1>6. \A r \in wires : r.from # <<s, Whole>>
  BY <1>1, SenderWaits DEF Placed, SheetMove
<1> QED BY <1>2, <1>3, <1>5, <1>6, SheetsReport, CoveredByReporter

LEMMA CoveredByCrop ==
  ASSUME TypeOK, Placed, Covered, NEW s \in Sheets, NEW k \in Keys, DoCrop(s, k)
  PROVE  Covered'
<1>1. UNCHANGED <<row, wires, tally, phase, sheet, gone>> /\ crop[s][k] \in {"waiting", "working"}
  BY DEF DoCrop, CropBegins, CropWorked, told, db
<1>2. phase' \notin {"queued", "polling"}
  BY <1>1 DEF Placed, CropsAtWork, Course
<1>3. CASE CropWorked(s, k)
  <2>1. crop'[s][k] \in {"keeping", "dropping"}
    BY <1>3 DEF CropWorked, TypeOK
  <2>2. Pending(<<s, k>>)'
    BY <2>1 DEF Pending
  <2>3. \A r \in wires : r.from # <<s, k>>
    BY <1>1, SenderWaits DEF Placed
  <2> QED BY <1>1, <1>2, <2>2, <2>3, SheetsReport, CoveredByReporter
<1>4. CASE CropBegins(s, k)
  <2>1. mark' = mark /\ \A t \in Sheets, j \in Keys :
          crop'[t][j] = crop[t][j] \/ (crop[t][j] = "waiting" /\ crop'[t][j] = "working")
    BY <1>4 DEF CropBegins, TypeOK
  <2>2. \A t : Pending(t) => Pending(t)'
    BY <1>1, <2>1 DEF Pending
  <2>3. \A t : Heartbeat(t) => Heartbeat(t)'
    BY <1>1 DEF Heartbeat
  <2>4. NoneLost' => NoneLost
    BY <2>1 DEF NoneLost
  <2>5. (\A r : Current(r) => Current(r)') /\ (Current(row) => Current(row)')
    BY <1>1, <2>1 DEF Current
  <2>6. \A r \in wires' : Current(r)' \/ Heartbeat(r.from)' \/ \E t \in Reporters : t # r.from /\ Pending(t)'
    BY <1>1, <2>2, <2>3, <2>5 DEF Covered
  <2>7. phase' \in {"gathering", "persisting", "demoting", "settling"} /\ NoneLost' =>
          Current(row)' \/ \E t \in Reporters : Pending(t)'
    BY <1>1, <2>2, <2>4, <2>5 DEF Covered
  <2> QED BY <1>1, <1>2, <2>6, <2>7 DEF Covered
<1> QED BY <1>3, <1>4 DEF DoCrop

LEMMA CoveredByTold ==
  ASSUME TypeOK, Placed, Covered, Told
  PROVE  Covered' /\ row'.step >= row.step
<1>1. PICK r \in wires : Lands(r) /\ Continues(r.from) /\ wires' = wires \ {r}
  BY DEF Told
<1>2. UNCHANGED <<mark, tally>> /\ phase' \in {phase, "raised", "settling"}
  BY <1>1, ContinuesSplit DEF Placed
<1>3. wires' = {} /\ phase' \notin {"queued", "polling"}
  BY <1>1, <1>2, NothingOnTheWay DEF Placed, Course
<1>4. PICK m \in {r.marks, mark} : row' = [step |-> r.step, marks |-> m]
  BY <1>1 DEF Lands
<1>5. row'.step = r.step /\ row'.marks = m
  BY <1>4
<1>6. row'.step <= tally'.done /\ row'.step >= row.step
  BY <1>2, <1>5, CountTypes DEF Covered
<1>7. ASSUME phase' # "raised", NEW t \in Reporters, t # r.from, Pending(t) PROVE Pending(t)'
  <2>1. CASE r.from = Handler /\ UNCHANGED <<sheet, crop>>
    BY <1>7, <2>1, PendingStay
  <2>2. ASSUME NEW s \in Sheets, r.from = <<s, Whole>>, crop' = crop, NEW to, sheet' = [sheet EXCEPT ![s] = to],
               phase' \in {phase, "raised"}
        PROVE  Pending(t)'
    <3>1. \A u \in Sheets : u # s => sheet'[u] = sheet[u]
      BY <2>2 DEF TypeOK
    <3> QED BY <1>7, <2>2, <3>1, PendingStay
  <2>3. ASSUME NEW s \in Sheets, NEW k \in Keys, r.from = <<s, k>>, UNCHANGED <<phase, sheet>>, NEW end,
               crop' = [crop EXCEPT ![s][k] = end]
        PROVE  Pending(t)'
    <3>1. \A u \in Sheets, j \in Keys : u # s \/ j # k => crop'[u][j] = crop[u][j]
      BY <2>3 DEF TypeOK
    <3> QED BY <1>7, <2>3, <3>1, PendingStay
  <2>4. CASE \E s \in Sheets :
               /\ r.from = <<s, Whole>> /\ crop' = crop
               /\ \/ sheet[s] \in {"telling", "retelling"} /\ phase' = phase
                     /\ \E to \in {"polling", "repolling"} : sheet' = [sheet EXCEPT ![s] = to]
                  \/ sheet[s] = "closing" /\ sheet' = [sheet EXCEPT ![s] = "finished"]
                     /\ phase' \in {phase, "raised"}
    BY <2>2, <2>4
  <2>5. CASE \E s \in Sheets, k \in Keys :
               /\ r.from = <<s, k>> /\ UNCHANGED <<phase, sheet>>
               /\ \E end \in {"kept", "dropped"} : crop' = [crop EXCEPT ![s][k] = end]
    BY <2>3, <2>5
  <2> QED BY <1>1, <2>1, <2>4, <2>5, ContinuesSplit DEF Placed
<1>8. ASSUME Heartbeat(r.from) PROVE \E t \in Reporters : Pending(t)'
  <2>1. PICK s \in Sheets : r.from = <<s, Whole>> /\ sheet[s] \in {"telling", "retelling"}
    BY <1>8 DEF Heartbeat
  <2>2. \A u \in Sheets, k \in Keys : <<u, k>> # <<s, Whole>>
    BY LayoutAssumption
  <2>3. <<s, Whole>> # Handler
    BY DEF Handler
  <2>4. PICK to \in {"polling", "repolling"} : sheet' = [sheet EXCEPT ![s] = to]
    <3>1. PICK u \in Sheets :
            /\ r.from = <<u, Whole>>
            /\ \/ sheet[u] \in {"telling", "retelling"}
                  /\ \E to \in {"polling", "repolling"} : sheet' = [sheet EXCEPT ![u] = to]
               \/ sheet[u] = "closing"
      BY <1>1, <2>1, <2>2, <2>3, ContinuesSplit DEF Placed
    <3>2. u = s
      BY <2>1, <3>1
    <3> QED BY <2>1, <3>1, <3>2
  <2>5. sheet'[s] \in Stages
    BY <2>4 DEF TypeOK, Stages
  <2>6. Pending(<<s, Whole>>)'
    BY <2>5 DEF Pending
  <2> QED BY <2>6, SheetsReport
<1>9. Current(r) => Current(row)'
  BY <1>2, <1>4, <1>5 DEF Current
<1>10. phase' # "raised" => Current(row)' \/ \E t \in Reporters : Pending(t)'
  BY <1>7, <1>8, <1>9 DEF Covered
<1> QED BY <1>3, <1>6, <1>10 DEF Covered

LEMMA CoveredByFault ==
  ASSUME TypeOK, Placed, Covered, ReportFault
  PROVE  Covered' /\ row'.step >= row.step
<1>1. PICK r \in wires : (Lands(r) \/ UNCHANGED row) /\ Breaks(r.from) /\ wires' = wires \ {r}
  BY DEF ReportFault
<1>2. phase' \in {phase, "raised"} /\ tally'.done \in {tally.done, tally.done + 1}
  <2>1. phase' \in {phase, "raised"}
    BY <1>1, BreaksSplit DEF Placed
  <2>2. tally' = tally \/ tally'.done = tally.done + 1
    BY <1>1, BreaksSplit, BrokenMoves, SettledMoves DEF Placed
  <2> QED BY <2>1, <2>2
<1>3. wires' = {} /\ phase \notin {"queued", "polling"} /\ phase' \notin {"queued", "polling"}
  BY <1>1, <1>2, NothingOnTheWay DEF Placed, Course
<1>4. row'.step \in {row.step, r.step}
  BY <1>1 DEF Lands
<1>5. row'.step <= tally'.done /\ row'.step >= row.step
  BY <1>2, <1>4, CountTypes DEF Covered
<1>6. ASSUME NEW s \in Sheets, sheet'[s] = "closing" PROVE \E t \in Reporters : Pending(t)'
  <2>1. Pending(<<s, Whole>>)'
    BY <1>6 DEF Pending, Stages
  <2> QED BY <2>1, SheetsReport
<1>7. \/ phase' \notin {"gathering", "persisting", "demoting", "settling"}
      \/ \E s \in Sheets : sheet'[s] = "closing"
      \/ \E s \in Sheets, k \in Keys : crop' = [crop EXCEPT ![s][k] = "lost"]
  <2>1. CASE r.from = Handler /\ phase' = "raised"
    BY <2>1
  <2>2. ASSUME NEW s \in Sheets,
               \/ sheet[s] = "closing" /\ sheet' = [sheet EXCEPT ![s] = "finished"]
                  /\ phase' = (IF phase = "gathering" THEN "raised" ELSE phase) /\ UNCHANGED <<mark, tally>>
               \/ sheet[s] \in {"telling", "retelling"} /\ phase' = phase /\ Broken(s)
        PROVE  \/ phase' \notin {"gathering", "persisting", "demoting", "settling"}
               \/ sheet'[s] = "closing"
    <3>1. CASE sheet[s] = "closing" /\ phase' = (IF phase = "gathering" THEN "raised" ELSE phase)
      BY <3>1 DEF Placed, Course
    <3>2. CASE Broken(s)
      BY <3>2, BrokenMoves
    <3> QED BY <2>2, <3>1, <3>2
  <2>3. ASSUME NEW s \in Sheets, NEW k \in Keys,
               \/ sheet[s] = "cropping" /\ crop' = [crop EXCEPT ![s][k] = "dropped"]
                  /\ Settled(s, "failed", "failed")
               \/ sheet[s] # "cropping" /\ crop' = [crop EXCEPT ![s][k] = "lost"]
                  /\ UNCHANGED <<sheet, mark, tally>>
        PROVE  sheet'[s] = "closing" \/ crop' = [crop EXCEPT ![s][k] = "lost"]
    BY <2>3, SettledMoves
  <2> QED BY <1>1, <2>1, <2>2, <2>3, BreaksSplit DEF Placed
<1>8. (\E s \in Sheets, k \in Keys : crop' = [crop EXCEPT ![s][k] = "lost"]) => ~NoneLost'
  BY DEF NoneLost, TypeOK
<1>9. phase' \in {"gathering", "persisting", "demoting", "settling"} /\ NoneLost' =>
        Current(row)' \/ \E t \in Reporters : Pending(t)'
  BY <1>6, <1>7, <1>8
<1> QED BY <1>3, <1>5, <1>9 DEF Covered

LEMMA CoveredBySend ==
  ASSUME TypeOK, Placed, Covered, NEW t \in Reporters, Send(t)
  PROVE  Covered'
<1> DEFINE w == [from |-> t, step |-> tally.done, marks |-> mark]
<1>1. wires' = {w} /\ UNCHANGED <<phase, sheet, crop, mark, tally, row, gone>>
  BY DEF Send, work, db
<1>2. w.step = tally.done /\ w.marks = mark
  OBVIOUS
<1> HIDE DEF w
<1>3. \A r \in wires' : Current(r)'
  BY <1>1, <1>2 DEF Current
<1>4. (\A u : Pending(u) => Pending(u)') /\ (NoneLost' => NoneLost) /\ (Current(row) => Current(row)')
  BY <1>1 DEF Pending, NoneLost, Current
<1>5. phase' \in {"gathering", "persisting", "demoting", "settling"} /\ NoneLost' =>
        Current(row)' \/ \E u \in Reporters : Pending(u)'
  BY <1>1, <1>4 DEF Covered
<1>6. \A r \in wires' : row'.step <= r.step /\ r.step <= tally'.done
  BY <1>1, <1>2, CountTypes DEF Covered
<1>7. \A r \in wires' : Current(r)' \/ Heartbeat(r.from)' \/ \E u \in Reporters : u # r.from /\ Pending(u)'
  BY <1>1, <1>3
<1> QED BY <1>1, <1>5, <1>6, <1>7 DEF Covered

LEMMA CoveredByHandler ==
  ASSUME TypeOK, Placed, Covered, RequestCancel \/ Edit \/ Before \/ After
  PROVE  Covered'
<1> USE DEF run, db, work, told
<1>1. CASE RequestCancel \/ LoadFails \/ HandlerFault \/ Settle \/ Gathered \/ Persist
  BY <1>1, CoveredStay DEF RequestCancel, LoadFails, HandlerFault, Settle, Gathered, Persist
<1>2. CASE Edit
  BY <1>2, CoveredStay DEF Edit
<1>3. CASE Loaded
  <2>1. phase = "queued" /\ phase' \in {"completed", "polling"}
        /\ UNCHANGED <<row, wires, tally, sheet, crop, gone>>
    BY <1>3 DEF Loaded
  <2>2. wires = {} /\ row.step = 0 /\ row.marks = mark
    BY <2>1 DEF Placed, Course, Covered
  <2>3. phase' = "polling" => row'.marks = mark' \/ \E s \in Sheets \ gone' : mark'[s] = "pending"
    <3>1. CASE \E s \in Sheets : mark[s] = "pending"
      BY <1>3, <2>1, <2>2, <3>1 DEF Loaded
    <3>2. CASE ~\E s \in Sheets : mark[s] = "pending"
      <4>1. mark' = [s \in Sheets |-> IF s \in Scope(column, force) \ gone THEN "pending" ELSE "none"]
        BY <1>3, <3>2 DEF Loaded
      <4>2. phase' = "polling" => \E s \in Sheets : mark'[s] # "none"
        BY <1>3 DEF Loaded
      <4> QED BY <2>1, <4>1, <4>2
    <3> QED BY <3>1, <3>2
  <2>4. row'.step <= tally'.done
    BY <2>1 DEF Covered
  <2> QED BY <2>1, <2>2, <2>3, <2>4 DEF Covered
<1>4. CASE FirstPoll
  <2>1. phase = "polling" /\ phase' \in {"cancelled", "gathering"}
        /\ UNCHANGED <<row, wires, tally, mark, crop, gone>>
    BY <1>4 DEF FirstPoll
  <2>2. wires = {} /\ row.step = 0 /\ tally.done = 0
    BY <2>1 DEF Placed, Course, Covered
  <2>3. phase' = "gathering" => Current(row)' \/ \E t \in Reporters : Pending(t)'
    <3>1. CASE row.marks = mark
      BY <2>1, <2>2, <3>1 DEF Current
    <3>2. ASSUME NEW s \in Sheets \ gone, mark[s] = "pending", phase' = "gathering"
          PROVE  \E t \in Reporters : Pending(t)'
      <4>1. sheet'[s] = "waiting"
        BY <1>4, <3>2 DEF FirstPoll
      <4>2. Pending(<<s, Whole>>)'
        BY <4>1 DEF Pending
      <4> QED BY <4>2, SheetsReport
    <3> QED BY <2>1, <3>1, <3>2 DEF Covered
  <2>4. row'.step <= tally'.done
    BY <2>1, <2>2
  <2> QED BY <2>1, <2>2, <2>3, <2>4 DEF Covered
<1>5. CASE PersistFault
  <2>1. phase = "persisting" /\ phase' = "demoting" /\ UNCHANGED <<row, wires>>
    BY <1>5 DEF PersistFault
  <2>2. tally'.done = tally.done
    BY <1>5 DEF PersistFault, TypeOK
  <2>3. Handler \in Reporters /\ Pending(Handler)'
    BY <2>1 DEF Reporters, Pending
  <2>4. \A r \in wires : r.from # Handler
    BY <2>1, SenderWaits DEF Placed
  <2> QED BY <2>1, <2>2, <2>3, <2>4, CoveredByReporter
<1> QED BY <1>1, <1>2, <1>3, <1>4, <1>5
      DEF Before, After, LoadMix, LoadSprite, LoadUpscale

LEMMA CoveredStep ==
  TypeOK /\ Placed /\ Covered /\ [Next]_vars => Covered' /\ row'.step >= row.step
<1> SUFFICES ASSUME TypeOK, Placed, Covered, [Next]_vars PROVE Covered' /\ row'.step >= row.step
  OBVIOUS
<1>0. row' = row => row'.step >= row.step
  BY CountTypes
<1>1. CASE UNCHANGED vars
  BY <1>0, <1>1, CoveredStay DEF vars, work, told, db
<1>2. CASE RequestCancel \/ Edit \/ Before \/ After
  <2>1. row' = row
    BY <1>2 DEF RequestCancel, Edit, Before, After, LoadMix, LoadSprite, LoadUpscale, Loaded, LoadFails, FirstPoll,
         Gathered, Persist, PersistFault, Settle, HandlerFault, told
  <2> QED BY <1>0, <1>2, <2>1, CoveredByHandler
<1>3. CASE Reporting
  <2>1. ASSUME NEW t \in Reporters, Send(t) PROVE Covered' /\ row'.step >= row.step
    <3>1. row' = row
      BY <2>1 DEF Send
    <3> QED BY <1>0, <2>1, <3>1, CoveredBySend
  <2> QED BY <1>3, <2>1, CoveredByTold, CoveredByFault DEF Reporting
<1>4. ASSUME NEW s \in Sheets, DoSheet(s) PROVE Covered' /\ row'.step >= row.step
  <2>1. row' = row
    BY <1>4, SheetMoves DEF Placed, SheetMove
  <2> QED BY <1>0, <1>4, <2>1, CoveredBySheet
<1>5. ASSUME NEW s \in Sheets, NEW k \in Keys, DoCrop(s, k) PROVE Covered' /\ row'.step >= row.step
  <2>1. row' = row
    BY <1>5 DEF DoCrop, CropBegins, CropWorked, told
  <2> QED BY <1>0, <1>5, <2>1, CoveredByCrop
<1> QED BY <1>1, <1>2, <1>3, <1>4, <1>5 DEF Next

\* ProgressTold for one step.
ProgressStep ==
  /\ row'.step >= row.step
  /\ phase \in {"gathering", "settling"} /\ phase' \in Returned
       /\ wires = {} /\ (\A t \in Reporters : ~Owes(t))
       /\ (\A s \in Sheets, k \in Keys : crop[s][k] # "lost") =>
       row' = [step |-> tally.done, marks |-> mark]

LEMMA ProgressByStep == TypeOK /\ Placed /\ Covered /\ [Next]_vars => ProgressStep
<1> SUFFICES ASSUME TypeOK, Placed, Covered, [Next]_vars PROVE ProgressStep
  OBVIOUS
<1>1. row'.step >= row.step
  BY CoveredStep
<1>2. ASSUME phase \in {"gathering", "settling"}, phase' \in Returned, \A t \in Reporters : ~Owes(t),
             \A s \in Sheets, k \in Keys : crop[s][k] # "lost"
      PROVE  row' = [step |-> tally.done, marks |-> mark]
  <2>1. Settle
    <3>1. ~Edit /\ ~Persist /\ ~PersistFault /\ ~FirstPoll
      BY <1>2 DEF Edit, Persist, PersistFault, FirstPoll
    <3>2. phase' # phase
      BY <1>2 DEF Returned
    <3> QED BY <1>2, <3>1, <3>2, Writes
  <2>2. phase = "settling" /\ row' = row
    BY <2>1 DEF Settle, told
  <2>3. \A s \in Sheets : sheet[s] \notin Stages \cup {"waiting"}
    BY <2>2 DEF Placed, Course, Stages
  <2>4. \A t \in Reporters : ~Pending(t)
    BY <1>2, <2>2, <2>3 DEF Pending, Owes
  <2>5. Current(row)
    BY <1>2, <2>2, <2>4 DEF Covered, NoneLost
  <2>6. row = [step |-> row.step, marks |-> row.marks]
    BY DEF TypeOK
  <2> QED BY <2>2, <2>5, <2>6 DEF Current
<1> QED BY <1>1, <1>2 DEF ProgressStep

\* The row's progress never goes back, and a run that returns with every report delivered leaves a
\* row that says of each sheet what the run knows. For any sheets, crops and number of database
\* errors, and any interleaving of the reports with the count that is read under their lock.
THEOREM ProgressIsTold == Spec => ProgressTold
<1>1. ProgressStep =>
        /\ row'.step >= row.step
        /\ phase \in {"gathering", "settling"} /\ phase' \in Returned
             /\ wires = {} /\ (\A t \in Reporters : ~Owes(t))
             /\ (\A s \in Sheets, k \in Keys : crop[s][k] # "lost") =>
             row' = [step |-> tally.done, marks |-> mark]
  BY DEF ProgressStep
<1>2. WinnersEverywhere => OwnCrops
  BY DEF WinnersEverywhere
<1>3. Init => OwnReports
  BY DEF Init, OwnReports
<1> QED BY <1>1, <1>2, <1>3, TypeInit, TypeStep, WinnersInit, ReportsStep, WinnersStep, PlacedInit, PlacedStep,
           CoveredInit, CoveredStep, ProgressByStep, PTL DEF Spec, ProgressTold

-----------------------------------------------------------------------------
(* The frames                                                              *)

CellSet == [x : Nat, y : Nat, w : Nat, h : Nat]

\* What the layout says of a cell, and of two.
CellFits(a) ==
  a \in CellSet /\ a.w > Pad /\ a.h > Pad /\ Right(a) <= Width /\ Bottom(a) <= Height
CellsKeepOff(a, b) ==
  /\ Apart(a, b)
  /\ \/ SameRows(a, b) \/ SameColumns(a, b)
     \/ Right(a) + Pad <= b.x \/ Right(b) + Pad <= a.x
     \/ Bottom(a) + Pad <= b.y \/ Bottom(b) + Pad <= a.y

LEMMA CellsOfSheet ==
  ASSUME NEW cells, Spaced(cells)
  PROVE  /\ Len(cells) \in Nat /\ DOMAIN cells = 1 .. Len(cells)
         /\ \A i \in DOMAIN cells : CellFits(cells[i])
         /\ \A i, j \in DOMAIN cells : i # j => CellsKeepOff(cells[i], cells[j])
<1>1. cells \in Seq(CellSet)
  BY DEF Spaced, CellSet
<1>2. Len(cells) \in Nat /\ DOMAIN cells = 1 .. Len(cells) /\ \A i \in DOMAIN cells : cells[i] \in CellSet
  BY <1>1, LenProperties, ElementOfSeq
<1>3. \A i \in DOMAIN cells : CellFits(cells[i])
  BY <1>2 DEF Spaced, CellFits
<1>4. \A i, j \in DOMAIN cells : i # j => CellsKeepOff(cells[i], cells[j])
  BY DEF Spaced, CellsKeepOff
<1> QED BY <1>2, <1>3, <1>4

LEMMA HalfType == \A n \in Nat : n \div 2 \in Nat /\ 2 * (n \div 2) <= n /\ n < 2 * (n \div 2) + 2
OBVIOUS

\* The pad of a side is at most ANCHOR_OUTER_PAD_PX and at most half of every gap.
LEMMA SlackIs ==
  ASSUME NEW gaps \in SUBSET Nat, IsFiniteSet(gaps)
  PROVE  /\ Slack(gaps) \in 0 .. Pad
         /\ \A g \in gaps : 2 * Slack(gaps) <= g
<1> DEFINE half == [g \in gaps |-> g \div 2]
           S == {Pad} \cup {g \div 2 : g \in gaps}
<1>1. Pad \in Nat
  BY SizesAssumption
<1>2. S \subseteq Nat
  BY <1>1, HalfType
<1>3. IsFiniteSet({g \div 2 : g \in gaps})
  <2>1. half \in Surjection(gaps, {g \div 2 : g \in gaps})
    BY DEF Surjection
  <2> QED BY <2>1, FS_Surjection
<1>4. IsFiniteSet(S)
  BY <1>3, FS_AddElement, FS_Singleton, FS_Union
<1>5. \E m \in S : \A n \in S : m <= n
  <2>1. S \in SUBSET Int /\ S # {}
    BY <1>2
  <2> HIDE DEF S
  <2> QED BY <2>1, <1>4, LeastExists
<1>6. Slack(gaps) \in S /\ \A n \in S : Slack(gaps) <= n
  BY <1>5 DEF Slack
<1>7. Slack(gaps) \in Nat
  BY <1>2, <1>6
<1>8. Slack(gaps) <= Pad
  BY <1>6
<1>9. ASSUME NEW g \in gaps PROVE 2 * Slack(gaps) <= g
  <2>1. Slack(gaps) <= g \div 2
    BY <1>6
  <2>2. g \in Nat /\ g \div 2 \in Nat /\ 2 * (g \div 2) <= g
    BY HalfType
  <2> QED BY <2>1, <2>2, <1>7
<1> QED BY <1>1, <1>7, <1>8, <1>9

\* A side of a window: at most the pad from the edge of its cell, and not past the middle of a gap.
SidesOf(i, cells) ==
  [left |-> Slack({cells[i].x - Right(cells[j]) : j \in OnLeft(i, cells)}),
   top |-> Slack({cells[i].y - Bottom(cells[j]) : j \in Over(i, cells)}),
   right |-> Slack({cells[j].x - Right(cells[i]) : j \in OnRight(i, cells)}),
   bottom |-> Slack({cells[j].y - Bottom(cells[i]) : j \in Under(i, cells)})]

LEMMA SidesAre ==
  ASSUME NEW cells, Spaced(cells), NEW i \in DOMAIN cells
  PROVE  LET s == SidesOf(i, cells) IN
         /\ s \in [left : 0 .. Pad, top : 0 .. Pad, right : 0 .. Pad, bottom : 0 .. Pad]
         /\ \A j \in OnLeft(i, cells) : 2 * s.left <= cells[i].x - Right(cells[j])
         /\ \A j \in Over(i, cells) : 2 * s.top <= cells[i].y - Bottom(cells[j])
         /\ \A j \in OnRight(i, cells) : 2 * s.right <= cells[j].x - Right(cells[i])
         /\ \A j \in Under(i, cells) : 2 * s.bottom <= cells[j].y - Bottom(cells[i])
<1> DEFINE n == Len(cells)
           D == DOMAIN cells
<1>1. n \in Nat /\ D = 1 .. n /\ \A j \in D : cells[j] \in CellSet
  BY CellsOfSheet DEF CellFits
<1>2. IsFiniteSet(D)
  BY <1>1, FS_Interval
<1>3. ASSUME NEW J \in SUBSET D, NEW gap \in [J -> Nat]
      PROVE  /\ Slack({gap[l] : l \in J}) \in 0 .. Pad
             /\ \A j \in J : 2 * Slack({gap[l] : l \in J}) <= gap[j]
  <2> DEFINE G == {gap[l] : l \in J}
  <2>1. IsFiniteSet(J)
    BY <1>2, FS_Subset
  <2>2. gap \in Surjection(J, G)
    BY DEF Surjection
  <2>3. G \in SUBSET Nat /\ IsFiniteSet(G)
    BY <2>1, <2>2, FS_Surjection
  <2> QED BY <2>3, SlackIs
<1>4. /\ SidesOf(i, cells).left \in 0 .. Pad
      /\ \A j \in OnLeft(i, cells) : 2 * SidesOf(i, cells).left <= cells[i].x - Right(cells[j])
  <2> DEFINE J == OnLeft(i, cells)
             gap == [j \in J |-> cells[i].x - Right(cells[j])]
  <2>1. J \in SUBSET D /\ gap \in [J -> Nat]
    BY <1>1 DEF OnLeft, Right, CellSet
  <2>2. {gap[l] : l \in J} = {cells[i].x - Right(cells[j]) : j \in J}
    OBVIOUS
  <2>3. SidesOf(i, cells).left = Slack({gap[l] : l \in J})
    BY <2>2 DEF SidesOf
  <2>4. \A j \in J : gap[j] = cells[i].x - Right(cells[j])
    OBVIOUS
  <2> HIDE DEF J, gap, D
  <2>5. /\ Slack({gap[l] : l \in J}) \in 0 .. Pad
        /\ \A j \in J : 2 * Slack({gap[l] : l \in J}) <= gap[j]
    BY <2>1, <1>3
  <2> QED BY <2>3, <2>4, <2>5 DEF J
<1>5. /\ SidesOf(i, cells).top \in 0 .. Pad
      /\ \A j \in Over(i, cells) : 2 * SidesOf(i, cells).top <= cells[i].y - Bottom(cells[j])
  <2> DEFINE J == Over(i, cells)
             gap == [j \in J |-> cells[i].y - Bottom(cells[j])]
  <2>1. J \in SUBSET D /\ gap \in [J -> Nat]
    BY <1>1 DEF Over, Bottom, CellSet
  <2>2. {gap[l] : l \in J} = {cells[i].y - Bottom(cells[j]) : j \in J}
    OBVIOUS
  <2>3. SidesOf(i, cells).top = Slack({gap[l] : l \in J})
    BY <2>2 DEF SidesOf
  <2>4. \A j \in J : gap[j] = cells[i].y - Bottom(cells[j])
    OBVIOUS
  <2> HIDE DEF J, gap, D
  <2>5. /\ Slack({gap[l] : l \in J}) \in 0 .. Pad
        /\ \A j \in J : 2 * Slack({gap[l] : l \in J}) <= gap[j]
    BY <2>1, <1>3
  <2> QED BY <2>3, <2>4, <2>5 DEF J
<1>6. /\ SidesOf(i, cells).right \in 0 .. Pad
      /\ \A j \in OnRight(i, cells) : 2 * SidesOf(i, cells).right <= cells[j].x - Right(cells[i])
  <2> DEFINE J == OnRight(i, cells)
             gap == [j \in J |-> cells[j].x - Right(cells[i])]
  <2>1. J \in SUBSET D /\ gap \in [J -> Nat]
    BY <1>1 DEF OnRight, Right, CellSet
  <2>2. {gap[l] : l \in J} = {cells[j].x - Right(cells[i]) : j \in J}
    OBVIOUS
  <2>3. SidesOf(i, cells).right = Slack({gap[l] : l \in J})
    BY <2>2 DEF SidesOf
  <2>4. \A j \in J : gap[j] = cells[j].x - Right(cells[i])
    OBVIOUS
  <2> HIDE DEF J, gap, D
  <2>5. /\ Slack({gap[l] : l \in J}) \in 0 .. Pad
        /\ \A j \in J : 2 * Slack({gap[l] : l \in J}) <= gap[j]
    BY <2>1, <1>3
  <2> QED BY <2>3, <2>4, <2>5 DEF J
<1>7. /\ SidesOf(i, cells).bottom \in 0 .. Pad
      /\ \A j \in Under(i, cells) : 2 * SidesOf(i, cells).bottom <= cells[j].y - Bottom(cells[i])
  <2> DEFINE J == Under(i, cells)
             gap == [j \in J |-> cells[j].y - Bottom(cells[i])]
  <2>1. J \in SUBSET D /\ gap \in [J -> Nat]
    BY <1>1 DEF Under, Bottom, CellSet
  <2>2. {gap[l] : l \in J} = {cells[j].y - Bottom(cells[i]) : j \in J}
    OBVIOUS
  <2>3. SidesOf(i, cells).bottom = Slack({gap[l] : l \in J})
    BY <2>2 DEF SidesOf
  <2>4. \A j \in J : gap[j] = cells[j].y - Bottom(cells[i])
    OBVIOUS
  <2> HIDE DEF J, gap, D
  <2>5. /\ Slack({gap[l] : l \in J}) \in 0 .. Pad
        /\ \A j \in J : 2 * Slack({gap[l] : l \in J}) <= gap[j]
    BY <2>1, <1>3
  <2> QED BY <2>3, <2>4, <2>5 DEF J
<1>8. SidesOf(i, cells) \in [left : 0 .. Pad, top : 0 .. Pad, right : 0 .. Pad, bottom : 0 .. Pad]
  <2>1. SidesOf(i, cells) = [left |-> SidesOf(i, cells).left, top |-> SidesOf(i, cells).top,
                             right |-> SidesOf(i, cells).right, bottom |-> SidesOf(i, cells).bottom]
    BY DEF SidesOf
  <2> QED BY <2>1, <1>4, <1>5, <1>6, <1>7
<1> QED BY <1>4, <1>5, <1>6, <1>7, <1>8

\* The window of a cell holds the cell and reaches at most the pad beyond it.
Around(w, a) ==
  /\ w \in [x0 : Nat, y0 : Nat, x1 : Nat, y1 : Nat]
  /\ w.x0 <= a.x /\ a.x <= w.x0 + Pad /\ w.y0 <= a.y /\ a.y <= w.y0 + Pad
  /\ Right(a) <= w.x1 /\ w.x1 <= Right(a) + Pad /\ w.x1 <= Width
  /\ Bottom(a) <= w.y1 /\ w.y1 <= Bottom(a) + Pad /\ w.y1 <= Height

\* Merge safety: it stops short of every other cell, at any scale of the sheet.
Clear(w, c) == w.x1 <= c.x \/ Right(c) <= w.x0 \/ w.y1 <= c.y \/ Bottom(c) <= w.y0

LEMMA WindowHoldsItsCell ==
  ASSUME NEW cells, Spaced(cells), NEW i \in DOMAIN cells
  PROVE  Around(Window(i, cells), cells[i])
<1> DEFINE s == SidesOf(i, cells)
           a == cells[i]
<1>1. s \in [left : 0 .. Pad, top : 0 .. Pad, right : 0 .. Pad, bottom : 0 .. Pad]
  BY SidesAre
<1>2. CellFits(a)
  BY CellsOfSheet
<1>3. Window(i, cells) = [x0 |-> Most(0, a.x - s.left), y0 |-> Most(0, a.y - s.top),
                          x1 |-> Least(Width, Right(a) + s.right),
                          y1 |-> Least(Height, Bottom(a) + s.bottom)]
  BY DEF Window, SidesOf
<1> HIDE DEF s, a
<1>4. Pad \in Nat /\ Width \in Nat /\ Height \in Nat
  BY SizesAssumption
<1>5. Around(Window(i, cells), a)
  BY <1>1, <1>2, <1>3, <1>4 DEF Around, CellFits, CellSet, Right, Bottom, Most, Least
<1> QED BY <1>5 DEF a

LEMMA WindowKeepsOff ==
  ASSUME NEW cells, Spaced(cells), NEW i \in DOMAIN cells, NEW j \in DOMAIN cells, i # j
  PROVE  Clear(Window(i, cells), cells[j])
<1> DEFINE s == SidesOf(i, cells)
           a == cells[i]
           c == cells[j]
<1>1. s \in [left : 0 .. Pad, top : 0 .. Pad, right : 0 .. Pad, bottom : 0 .. Pad]
  BY SidesAre
<1>2. CellFits(a) /\ CellFits(c) /\ CellsKeepOff(a, c)
  BY CellsOfSheet
<1>3. Window(i, cells) = [x0 |-> Most(0, a.x - s.left), y0 |-> Most(0, a.y - s.top),
                          x1 |-> Least(Width, Right(a) + s.right),
                          y1 |-> Least(Height, Bottom(a) + s.bottom)]
  BY DEF Window, SidesOf
<1>4. SameRows(a, c) /\ c.x >= Right(a) => 2 * s.right <= c.x - Right(a)
  BY SidesAre DEF OnRight
<1>5. SameRows(a, c) /\ Right(c) <= a.x => 2 * s.left <= a.x - Right(c)
  BY SidesAre DEF OnLeft
<1>6. SameColumns(a, c) /\ c.y >= Bottom(a) => 2 * s.bottom <= c.y - Bottom(a)
  BY SidesAre DEF Under
<1>7. SameColumns(a, c) /\ Bottom(c) <= a.y => 2 * s.top <= a.y - Bottom(c)
  BY SidesAre DEF Over
<1> HIDE DEF s, a, c
<1>8. Pad \in Nat /\ Width \in Nat /\ Height \in Nat
  BY SizesAssumption
<1>9. a \in CellSet /\ c \in CellSet
  BY <1>2 DEF CellFits
<1>10. Clear(Window(i, cells), c)
  <2>1. CASE SameRows(a, c)
    BY <1>1, <1>2, <1>3, <1>4, <1>5, <1>8, <1>9, <2>1
    DEF Clear, CellSet, CellsKeepOff, Apart, SameRows, Right, Bottom, Most, Least
  <2>2. CASE SameColumns(a, c)
    BY <1>1, <1>2, <1>3, <1>6, <1>7, <1>8, <1>9, <2>2
    DEF Clear, CellSet, CellsKeepOff, Apart, SameColumns, Right, Bottom, Most, Least
  <2>3. CASE ~SameRows(a, c) /\ ~SameColumns(a, c)
    BY <1>1, <1>2, <1>3, <1>8, <1>9, <2>3
    DEF Clear, CellSet, CellsKeepOff, Right, Bottom, Most, Least
  <2> QED BY <2>1, <2>2, <2>3
<1> QED BY <1>10 DEF c

\* A frame on the sheet that shows cell i and nothing of another.
FrameOf(f, i, cells) ==
  /\ f \in CellSet /\ f.w >= 1 /\ f.h >= 1 /\ Right(f) <= Width /\ Bottom(f) <= Height
  /\ \A q \in DOMAIN cells : Apart(f, cells[q]) <=> q # i

LEMMA CellIsItsFrame ==
  ASSUME NEW cells, Spaced(cells), NEW i \in DOMAIN cells
  PROVE  FrameOf(cells[i], i, cells)
<1>1. Pad \in Nat
  BY SizesAssumption
<1>2. CellFits(cells[i])
  BY CellsOfSheet
<1>3. \A q \in DOMAIN cells : q # i => Apart(cells[i], cells[q])
  BY CellsOfSheet DEF CellsKeepOff
<1>4. ~Apart(cells[i], cells[i])
  BY <1>1, <1>2 DEF CellFits, CellSet, Apart, Right, Bottom
<1> QED BY <1>1, <1>2, <1>3, <1>4 DEF FrameOf, CellFits, CellSet

LEMMA BandIs == \A n \in Nat : Band(n) \in Nat /\ 2 * Band(n) <= n
<1>1. TAKE n \in Nat
<1>2. n \div 2 \in Nat /\ 2 * (n \div 2) <= n
  BY HalfType
<1>3. (18 * n) \div 100 \in Nat
  OBVIOUS
<1> DEFINE half == n \div 2
           share == (18 * n) \div 100
<1>4. Band(n) = Least(Most(12, share), half)
  BY DEF Band
<1> HIDE DEF half, share
<1>5. half \in Nat /\ 2 * half <= n /\ share \in Nat
  BY <1>2, <1>3 DEF half, share
<1> QED BY <1>4, <1>5 DEF Least, Most

\* The lines a frame is made of: a stroke of the band, else the edge of the cell.
LEMMA LinesOfBand ==
  ASSUME NEW lo \in Nat, NEW hi \in Nat, NEW start \in Nat, NEW end \in Nat,
         lo <= start, start <= lo + Pad, end <= hi, hi <= end + Pad, start + Pad < end,
         NEW first \in {Missing} \cup (lo + 1) .. (lo + Band(hi - lo)),
         NEW last \in {Missing} \cup (hi - Band(hi - lo)) .. (hi - 1)
  PROVE  /\ Found(first, start) \in Nat /\ Found(last, end) \in Nat
         /\ lo <= Found(first, start) /\ Found(first, start) < end
         /\ start < Found(last, end) /\ Found(last, end) <= hi
<1>1. Pad \in Nat
  BY SizesAssumption
<1>2. hi - lo \in Nat
  BY <1>1
<1>3. Band(hi - lo) \in Nat /\ 2 * Band(hi - lo) <= hi - lo
  BY <1>2, BandIs
<1> DEFINE band == Band(hi - lo)
<1> HIDE DEF band
<1>4. band \in Nat /\ 2 * band <= hi - lo
  BY <1>3 DEF band
<1>5. (first = Missing \/ first \in (lo + 1) .. (lo + band)) /\ (last = Missing \/ last \in (hi - band) .. (hi - 1))
  BY DEF band
<1> QED BY <1>1, <1>4, <1>5 DEF Found, Missing

\* However little of the stroke is found, and wherever in the band: the frame shows its cell and
\* nothing of another (frame_finder's merge safety, at any scale of the sheet).
THEOREM FrameShowsItsCell ==
  ASSUME NEW cells, Spaced(cells), NEW i \in DOMAIN cells, NEW stroke,
         InBand(Window(i, cells), stroke)
  PROVE  FrameOf(Frame(i, cells, stroke), i, cells)
<1> DEFINE a == cells[i]
           win == Window(i, cells)
           x0 == Found(stroke.left, a.x)
           y0 == Found(stroke.top, a.y)
           x1 == Found(stroke.right, Right(a))
           y1 == Found(stroke.bottom, Bottom(a))
           f == [x |-> x0, y |-> y0, w |-> x1 - x0, h |-> y1 - y0]
           f0 == [a EXCEPT !.w = Most(1, Least(a.w, Width - a.x)),
                           !.h = Most(1, Least(a.h, Height - a.y))]
           whole == Degenerate(win, stroke) \/ x1 - x0 < MinBox \/ y1 - y0 < MinBox
<1>1. Pad \in Nat /\ Width \in Nat /\ Height \in Nat /\ MinBox \in Nat /\ MinBox >= 1
  BY SizesAssumption
<1>2. Around(win, a)
  BY WindowHoldsItsCell
<1>3. CellFits(a)
  BY CellsOfSheet
<1>4. Frame(i, cells, stroke) = IF whole THEN f0 ELSE f
  BY DEF Frame
<1>5. f0 = a
  <2> HIDE DEF a
  <2>1. Most(1, Least(a.w, Width - a.x)) = a.w /\ Most(1, Least(a.h, Height - a.y)) = a.h
    BY <1>1, <1>3 DEF CellFits, CellSet, Most, Least, Right, Bottom
  <2>2. a \in CellSet
    BY <1>3 DEF CellFits
  <2> QED BY <2>1, <2>2 DEF CellSet
<1>6. CASE whole
  BY <1>4, <1>5, <1>6, CellIsItsFrame
<1>7. CASE ~whole
  <2>1. x1 - x0 >= MinBox /\ y1 - y0 >= MinBox
    <3>1. x0 \in Int /\ x1 \in Int /\ y0 \in Int /\ y1 \in Int
      <4> HIDE DEF a, win
      <4> QED BY <1>1, <1>2, <1>3, BandIs DEF InBand, Found, Missing, Around, CellFits, CellSet, Right, Bottom
    <3> HIDE DEF x0, x1, y0, y1
    <3> QED BY <1>1, <1>7, <3>1
  <2>2. /\ x0 \in Nat /\ x1 \in Nat /\ win.x0 <= x0 /\ x0 < Right(a) /\ a.x < x1 /\ x1 <= win.x1
    <3> HIDE DEF a, win
    <3>1. /\ win.x0 \in Nat /\ win.x1 \in Nat /\ a.x \in Nat /\ Right(a) \in Nat
          /\ a.x + Pad < Right(a)
      BY <1>1, <1>2, <1>3 DEF Around, CellFits, CellSet, Right
    <3>2. win.x0 <= a.x /\ a.x <= win.x0 + Pad /\ Right(a) <= win.x1 /\ win.x1 <= Right(a) + Pad
      BY <1>2 DEF Around
    <3>3. /\ stroke.left \in {Missing} \cup (win.x0 + 1) .. (win.x0 + Band(win.x1 - win.x0))
          /\ stroke.right \in {Missing} \cup (win.x1 - Band(win.x1 - win.x0)) .. (win.x1 - 1)
      BY DEF InBand, win
    <3> QED BY <3>1, <3>2, <3>3, LinesOfBand
  <2>3. /\ y0 \in Nat /\ y1 \in Nat /\ win.y0 <= y0 /\ y0 < Bottom(a) /\ a.y < y1 /\ y1 <= win.y1
    <3> HIDE DEF a, win
    <3>1. /\ win.y0 \in Nat /\ win.y1 \in Nat /\ a.y \in Nat /\ Bottom(a) \in Nat
          /\ a.y + Pad < Bottom(a)
      BY <1>1, <1>2, <1>3 DEF Around, CellFits, CellSet, Bottom
    <3>2. win.y0 <= a.y /\ a.y <= win.y0 + Pad /\ Bottom(a) <= win.y1 /\ win.y1 <= Bottom(a) + Pad
      BY <1>2 DEF Around
    <3>3. /\ stroke.top \in {Missing} \cup (win.y0 + 1) .. (win.y0 + Band(win.y1 - win.y0))
          /\ stroke.bottom \in {Missing} \cup (win.y1 - Band(win.y1 - win.y0)) .. (win.y1 - 1)
      BY DEF InBand, win
    <3> QED BY <3>1, <3>2, <3>3, LinesOfBand
  <2>4. win.x1 <= Width /\ win.y1 <= Height /\ win \in [x0 : Nat, y0 : Nat, x1 : Nat, y1 : Nat]
    BY <1>2 DEF Around
  <2>5. a \in CellSet
    BY <1>3 DEF CellFits
  <2>6. ASSUME NEW q \in DOMAIN cells, q # i PROVE Apart(f, cells[q])
    <3>1. Clear(win, cells[q])
      BY <2>6, WindowKeepsOff
    <3>2. cells[q] \in CellSet
      BY CellsOfSheet DEF CellFits
    <3> HIDE DEF win, x0, y0, x1, y1, a
    <3> QED BY <3>1, <3>2, <2>2, <2>3, <2>4 DEF Clear, Apart, Right, Bottom, CellSet
  <2>7. ~Apart(f, a)
    <3> HIDE DEF win, x0, y0, x1, y1, a
    <3> QED BY <2>2, <2>3, <2>5 DEF Apart, Right, Bottom, CellSet
  <2>8. f \in CellSet /\ f.w >= 1 /\ f.h >= 1 /\ Right(f) <= Width /\ Bottom(f) <= Height
    <3> HIDE DEF win, x0, y0, x1, y1, a
    <3> QED BY <1>1, <2>1, <2>2, <2>3, <2>4 DEF Right, Bottom, CellSet
  <2>9. FrameOf(f, i, cells)
    <3> HIDE DEF f
    <3> QED BY <2>6, <2>7, <2>8 DEF FrameOf
  <2> QED BY <1>4, <1>7, <2>9
<1> QED BY <1>6, <1>7

-----------------------------------------------------------------------------
(* Sorting and taking                                                      *)

\* What is sorted is all there, each member once, and each before those it is ordered before.
Sorts(L, S, R) ==
  /\ L \in [1 .. Cardinality(S) -> S]
  /\ \A i, j \in 1 .. Cardinality(S) : i < j => <<L[i], L[j]>> \in R
  /\ \A i, j \in 1 .. Cardinality(S) : L[i] = L[j] => i = j
  /\ \A x \in S : \E i \in 1 .. Cardinality(S) : L[i] = x

LEMMA ListedSorts ==
  ASSUME NEW S, IsFiniteSet(S), NEW R, Ordered(R, S)
  PROVE  Sorts(Listed(S, R), S, R)
<1> DEFINE N == Cardinality(S)
           L == Listed(S, R)
<1>1. N \in Nat
  BY FS_CardinalityType
<1>2. \A i \in S : Cardinality({j \in S : <<j, i>> \in R}) = Rank(i, R, S)
  BY DEF Rank, Preceding
<1>3. L = [n \in 1 .. N |-> CHOOSE i \in S : Rank(i, R, S) = n - 1]
  BY <1>2 DEF Listed
<1>4. ASSUME NEW n \in 1 .. N PROVE L[n] \in S /\ Rank(L[n], R, S) = n - 1
  <2>1. \E x \in S : Rank(x, R, S) = n - 1
    BY RankTaken
  <2> HIDE DEF L
  <2> QED BY <1>3, <2>1
<1>5. L \in [1 .. N -> S]
  <2> HIDE DEF L
  <2> QED BY <1>3, <1>4
<1>6. ASSUME NEW i \in 1 .. N, NEW j \in 1 .. N, L[i] = L[j] PROVE i = j
  <2> HIDE DEF L, N
  <2> QED BY <1>1, <1>4, <1>6
<1>7. ASSUME NEW i \in 1 .. N, NEW j \in 1 .. N, i < j PROVE <<L[i], L[j]>> \in R
  <2> HIDE DEF L
  <2>1. L[i] \in S /\ L[j] \in S /\ Rank(L[i], R, S) = i - 1 /\ Rank(L[j], R, S) = j - 1
    BY <1>4
  <2>2. L[i] # L[j]
    BY <1>1, <1>6, <1>7
  <2>3. ~(<<L[j], L[i]>> \in R)
    <3>1. ASSUME <<L[j], L[i]>> \in R PROVE FALSE
      <4>1. Rank(L[j], R, S) < Rank(L[i], R, S)
        BY <2>1, <3>1, RankGrows
      <4> HIDE DEF N
      <4> QED BY <4>1, <2>1, <1>1, <1>7
    <3> QED BY <3>1
  <2> QED BY <2>1, <2>2, <2>3 DEF Ordered
<1>8. ASSUME NEW x \in S PROVE \E i \in 1 .. N : L[i] = x
  <2>1. Rank(x, R, S) \in 0 .. N - 1
    BY RankType
  <2> DEFINE i == Rank(x, R, S) + 1
  <2>2. i \in 1 .. N /\ i - 1 = Rank(x, R, S)
    BY <1>1, <2>1
  <2> HIDE DEF L, i, N
  <2>3. L[i] \in S /\ Rank(L[i], R, S) = Rank(x, R, S)
    BY <1>4, <2>2
  <2>4. L[i] = x
    BY <2>3, RankTells
  <2> QED BY <2>2, <2>4
<1>9. Sorts(L, S, R)
  <2> HIDE DEF L
  <2> QED BY <1>5, <1>6, <1>7, <1>8 DEF Sorts
<1> QED BY <1>9

\* An assignment is taken in its turn when frame and number are free.
TakeNext(prev, a, frames, numbers) ==
  IF /\ a.frame \in frames /\ a.number \in numbers
     /\ \A b \in prev : b.frame # a.frame /\ b.number # a.number
  THEN prev \cup {a} ELSE prev

Takes(f, as, frames, numbers) ==
  f = [k \in 0 .. Len(as) |-> IF k = 0 THEN {} ELSE TakeNext(f[k - 1], as[k], frames, numbers)]

\* A frame and a number are taken once, by an assignment told before every other of theirs.
TakenFrom(T, as, k, frames, numbers) ==
  /\ \A a \in T : a.frame \in frames /\ a.number \in numbers /\ \E m \in 1 .. k : a = as[m]
  /\ \A a, b \in T : a.frame = b.frame \/ a.number = b.number => a = b
  /\ \A m \in 1 .. k : as[m].frame \in frames /\ as[m].number \in numbers =>
       \E l \in 1 .. m : as[l] \in T /\ (as[l].frame = as[m].frame \/ as[l].number = as[m].number)

LEMMA TakeOnceTakes ==
  ASSUME NEW as, Len(as) \in Nat, NEW frames, NEW numbers
  PROVE  TakenFrom(TakeOnce(as, frames, numbers), as, Len(as), frames, numbers)
<1> DEFINE n == Len(as)
           V == SUBSET {as[m] : m \in 1 .. n}
           h == [x \in (1 .. n) \X V |-> TakeNext(x[2], as[x[1]], frames, numbers)]
           taken == CHOOSE f : Takes(f, as, frames, numbers)
<1>1. n \in Nat /\ {} \in V
  OBVIOUS
<1>2. h \in [(1 .. n) \X V -> V]
  BY DEF TakeNext
<1>3. \E f : Takes(f, as, frames, numbers)
  <2>1. \E f \in [0 .. n -> V] : Unfolds(f, n, {}, h)
    <3> HIDE DEF h, n, V
    <3> QED BY <1>1, <1>2, Recursion
  <2>2. PICK f \in [0 .. n -> V] : Unfolds(f, n, {}, h)
    BY <2>1
  <2>3. \A i \in 0 .. n : i # 0 => h[<<i, f[i - 1]>>] = TakeNext(f[i - 1], as[i], frames, numbers)
    <3>1. TAKE i \in 0 .. n
    <3>2. HAVE i # 0
    <3> HIDE DEF n
    <3>3. i \in 1 .. n /\ i - 1 \in 0 .. n
      BY <1>1, <3>2
    <3>4. f[i - 1] \in V
      BY <3>3, <2>2
    <3> HIDE DEF V
    <3> QED BY <3>3, <3>4
  <2>4. Takes(f, as, frames, numbers)
    <3> HIDE DEF h
    <3> QED BY <2>2, <2>3 DEF Takes, Unfolds
  <2> QED BY <2>4
<1>4. Takes(taken, as, frames, numbers)
  BY <1>3
<1> HIDE DEF taken
<1>5. taken[0] = {} /\ \A k \in 1 .. n : taken[k] = TakeNext(taken[k - 1], as[k], frames, numbers)
  <2>1. taken = [k \in 0 .. n |-> IF k = 0 THEN {} ELSE TakeNext(taken[k - 1], as[k], frames, numbers)]
    BY <1>4 DEF Takes
  <2> HIDE DEF n
  <2>2. 0 \in 0 .. n /\ \A k \in 1 .. n : k \in 0 .. n /\ k # 0
    BY <1>1
  <2> QED BY <2>1, <2>2
<1> DEFINE Good(k) == TakenFrom(taken[k], as, k, frames, numbers)
           G == {k \in 0 .. n : Good(k)}
<1>6. 0 \in G
  <2> HIDE DEF n
  <2>1. 0 \in 0 .. n /\ 1 .. 0 = {}
    BY <1>1
  <2>2. Good(0)
    BY <1>5, <2>1 DEF TakenFrom
  <2> QED BY <2>1, <2>2
<1>7. ASSUME NEW i \in 0 .. n - 1, i \in G PROVE i + 1 \in G
  <2> DEFINE a == as[i + 1]
             T == taken[i]
             U == taken[i + 1]
  <2>1. i + 1 \in 1 .. n /\ i + 1 \in 0 .. n /\ (i + 1) - 1 = i /\ i \in Nat
    <3> HIDE DEF n
    <3> QED BY <1>1
  <2>2. U = TakeNext(T, a, frames, numbers)
    BY <1>5, <2>1
  <2>3. TakenFrom(T, as, i, frames, numbers)
    BY <1>7
  <2>4. \A m \in 1 .. i + 1 : m \in 1 .. i \/ m = i + 1
    BY <2>1
  <2>5. 1 .. i \subseteq 1 .. i + 1 /\ i + 1 \in 1 .. i + 1
    BY <2>1
  <2> HIDE DEF T, U, a, n
  <2>6. T \subseteq U
    BY <2>2 DEF TakeNext
  <2>7. \A b \in U : b \in T \/ (b = a /\ a.frame \in frames /\ a.number \in numbers
                                /\ \A c \in T : c.frame # a.frame /\ c.number # a.number)
    BY <2>2 DEF TakeNext
  <2>8. a.frame \in frames /\ a.number \in numbers =>
          a \in U \/ \E b \in T : b.frame = a.frame \/ b.number = a.number
    BY <2>2 DEF TakeNext
  <2>9. \A b \in U : b.frame \in frames /\ b.number \in numbers /\ \E m \in 1 .. i + 1 : b = as[m]
    BY <2>3, <2>5, <2>7 DEF TakenFrom, a
  <2>10. \A b, c \in U : b.frame = c.frame \/ b.number = c.number => b = c
    BY <2>3, <2>7 DEF TakenFrom
  <2>11. ASSUME NEW m \in 1 .. i + 1, as[m].frame \in frames, as[m].number \in numbers
         PROVE \E l \in 1 .. m : as[l] \in U /\ (as[l].frame = as[m].frame \/ as[l].number = as[m].number)
    <3>1. CASE m \in 1 .. i
      BY <2>3, <2>6, <2>11, <3>1 DEF TakenFrom
    <3>2. CASE m = i + 1
      <4>1. CASE a \in U
        BY <4>1, <3>2, <2>5 DEF a
      <4>2. CASE \E b \in T : b.frame = a.frame \/ b.number = a.number
        <5>1. PICK b \in T : b.frame = a.frame \/ b.number = a.number
          BY <4>2
        <5>2. PICK l \in 1 .. i : b = as[l]
          BY <2>3, <5>1 DEF TakenFrom
        <5>3. l \in 1 .. m /\ as[l] \in U
          BY <3>2, <5>2, <2>5, <2>6, <5>1
        <5> QED BY <5>1, <5>2, <5>3, <3>2 DEF a
      <4> QED BY <4>1, <4>2, <2>8, <2>11, <3>2 DEF a
    <3> QED BY <3>1, <3>2, <2>4
  <2>12. TakenFrom(U, as, i + 1, frames, numbers)
    BY <2>9, <2>10, <2>11 DEF TakenFrom
  <2> QED BY <2>12, <2>1 DEF U
<1>8. 0 .. n \subseteq G
  <2> HIDE DEF G, n
  <2> QED BY <1>1, <1>6, <1>7, UpTo
<1>9. Good(n)
  <2>1. n \in 0 .. n
    <3> HIDE DEF n
    <3> QED BY <1>1
  <2> QED BY <1>8, <2>1
<1>10. TakeOnce(as, frames, numbers) = taken[Len(as)]
  BY DEF TakeOnce, taken, Takes, TakeNext
<1> QED BY <1>9, <1>10

-----------------------------------------------------------------------------
(* The frames in reading order                                             *)

LEMMA RowMajorOrders ==
  ASSUME NEW n \in Nat, NEW frame \in [1 .. n -> CellSet]
  PROVE  Ordered(RowMajor(frame), 1 .. n)
<1> DEFINE R == RowMajor(frame)
<1>1. \A i \in 1 .. n : frame[i].x \in Int /\ frame[i].y \in Int
  BY DEF CellSet
<1>2. \A i, j \in 1 .. n : <<i, j>> \in R <=>
        \/ Above(frame[i], frame[j])
        \/ ~Above(frame[j], frame[i]) /\ i < j
  BY DEF RowMajor
<1> HIDE DEF R
<1>3. \A i \in 1 .. n : <<i, i>> \notin R
  BY <1>1, <1>2 DEF Above
<1>4. ASSUME NEW i \in 1 .. n, NEW j \in 1 .. n, NEW k \in 1 .. n, <<i, j>> \in R, <<j, k>> \in R
      PROVE  <<i, k>> \in R
  <2> DEFINE a == frame[i]
             b == frame[j]
             c == frame[k]
  <2>1. /\ a.x \in Int /\ a.y \in Int /\ b.x \in Int /\ b.y \in Int /\ c.x \in Int /\ c.y \in Int
    BY <1>1
  <2>2. Above(a, b) \/ (~Above(b, a) /\ i < j)
    BY <1>2, <1>4
  <2>3. Above(b, c) \/ (~Above(c, b) /\ j < k)
    BY <1>2, <1>4
  <2> HIDE DEF a, b, c
  <2>4. Above(a, c) \/ (~Above(c, a) /\ i < k)
    BY <2>1, <2>2, <2>3 DEF Above
  <2> QED BY <1>2, <2>4 DEF a, c
<1>5. ASSUME NEW i \in 1 .. n, NEW j \in 1 .. n, i # j PROVE <<i, j>> \in R \/ <<j, i>> \in R
  BY <1>1, <1>2, <1>5 DEF Above
<1>6. Ordered(R, 1 .. n)
  BY <1>3, <1>4, <1>5 DEF Ordered
<1> QED BY <1>6 DEF R

\* Strokes as _inner_edge may find them.
Strokes(strokes, cells) == \A i \in DOMAIN cells : InBand(Window(i, cells), strokes[i])

\* place[k] is the cell whose frame is the k-th in reading order.
Placing(place, frames, cells, strokes) ==
  /\ place \in [DOMAIN cells -> DOMAIN cells]
  /\ \A k, l \in DOMAIN cells : place[k] = place[l] => k = l
  /\ \A i \in DOMAIN cells : \E k \in DOMAIN cells : place[k] = i
  /\ DOMAIN frames = DOMAIN cells
  /\ \A k \in DOMAIN cells : frames[k] = Frame(place[k], cells, strokes[place[k]])
  /\ \A k \in DOMAIN cells : FrameOf(frames[k], place[k], cells)

LEMMA FramesArePlaced ==
  ASSUME NEW cells, Spaced(cells), NEW strokes, Strokes(strokes, cells)
  PROVE  \E place : Placing(place, Frames(cells, strokes), cells, strokes)
<1> DEFINE n == Len(cells)
           D == DOMAIN cells
           frame == [i \in D |-> Frame(i, cells, strokes[i])]
           R == RowMajor(frame)
           place == Listed(D, R)
<1>1. n \in Nat /\ D = 1 .. n
  BY CellsOfSheet
<1>2. \A i \in D : FrameOf(Frame(i, cells, strokes[i]), i, cells)
  BY FrameShowsItsCell DEF Strokes
<1>3. frame \in [1 .. n -> CellSet]
  BY <1>1, <1>2 DEF FrameOf
<1>4. Ordered(R, 1 .. n)
  <2> HIDE DEF frame, n
  <2> QED BY <1>1, <1>3, RowMajorOrders
<1>5. IsFiniteSet(1 .. n) /\ Cardinality(1 .. n) = n
  <2> HIDE DEF n
  <2>1. 1 \in Int /\ n \in Int
    BY <1>1
  <2>2. Cardinality(1 .. n) = IF 1 > n THEN 0 ELSE n - 1 + 1
    BY <2>1, FS_Interval
  <2> QED BY <1>1, <2>1, <2>2, FS_Interval
<1>6. Sorts(place, 1 .. n, R)
  BY <1>1, <1>4, <1>5, ListedSorts
<1>7. /\ place \in [D -> D]
      /\ \A k, l \in D : place[k] = place[l] => k = l
      /\ \A i \in D : \E k \in D : place[k] = i
  <2> HIDE DEF place, R, n
  <2> QED BY <1>1, <1>5, <1>6 DEF Sorts
<1>8. Frames(cells, strokes) = [k \in D |-> frame[place[k]]]
  BY DEF Frames
<1>9. ASSUME NEW k \in D
      PROVE /\ Frames(cells, strokes)[k] = Frame(place[k], cells, strokes[place[k]])
            /\ FrameOf(Frames(cells, strokes)[k], place[k], cells)
  <2>1. place[k] \in D
    BY <1>7
  <2>2. Frames(cells, strokes)[k] = frame[place[k]]
    BY <1>8
  <2> HIDE DEF place
  <2> QED BY <2>1, <2>2, <1>2
<1>10. Placing(place, Frames(cells, strokes), cells, strokes)
  <2>1. DOMAIN Frames(cells, strokes) = D
    BY <1>8
  <2> HIDE DEF place
  <2> QED BY <2>1, <1>7, <1>9 DEF Placing
<1> QED BY <1>10

\* A piece cut from a frame is the frame.
Cut(b) ==
  LET x == Most(0, b.x)
      y == Most(0, b.y)
  IN [x |-> x, y |-> y,
      w |-> Least(Most(1, b.w), Most(1, Width - x)), h |-> Least(Most(1, b.h), Most(1, Height - y))]

LEMMA FrameIsCut ==
  ASSUME NEW cells, NEW p \in DOMAIN cells, NEW f, FrameOf(f, p, cells)
  PROVE  Cut(f) = f /\ Shows(Cut(f), p, cells)
<1>1. f \in CellSet /\ f.w >= 1 /\ f.h >= 1 /\ Right(f) <= Width /\ Bottom(f) <= Height
  BY DEF FrameOf
<1>2. Width \in Nat /\ Height \in Nat
  BY SizesAssumption
<1>3. f.x \in Nat /\ f.y \in Nat /\ f.w \in Nat /\ f.h \in Nat
  BY <1>1 DEF CellSet
<1>4. Most(0, f.x) = f.x /\ Most(0, f.y) = f.y
  BY <1>3 DEF Most
<1>5. Least(Most(1, f.w), Most(1, Width - f.x)) = f.w
  BY <1>1, <1>2, <1>3 DEF Most, Least, Right
<1>6. Least(Most(1, f.h), Most(1, Height - f.y)) = f.h
  BY <1>1, <1>2, <1>3 DEF Most, Least, Bottom
<1>7. Cut(f) = [x |-> f.x, y |-> f.y, w |-> f.w, h |-> f.h]
  BY <1>4, <1>5, <1>6 DEF Cut
<1>8. Cut(f) = f
  BY <1>1, <1>7 DEF CellSet
<1> QED BY <1>8 DEF FrameOf, Shows

LEMMA PieceIs ==
  ASSUME NEW n, NEW cells, NEW frames, NEW boxes
  PROVE  /\ (\A a \in boxes : a.number # n) => Piece(n, cells, frames, boxes) = Cut(cells[n])
         /\ \A a \in boxes : a.number = n /\ (\A b \in boxes : b.number = n => b.frame = a.frame) =>
              Piece(n, cells, frames, boxes) = Cut(frames[a.frame])
<1> DEFINE named == {a \in boxes : a.number = n}
<1>1. Piece(n, cells, frames, boxes) =
        Cut(IF named = {} THEN cells[n] ELSE frames[(CHOOSE a \in named : TRUE).frame])
  BY DEF Piece, Cut
<1>2. ASSUME \A a \in boxes : a.number # n PROVE Piece(n, cells, frames, boxes) = Cut(cells[n])
  <2>1. named = {}
    BY <1>2
  <2> QED BY <1>1, <2>1
<1>3. ASSUME NEW a \in boxes, a.number = n, \A b \in boxes : b.number = n => b.frame = a.frame
      PROVE  Piece(n, cells, frames, boxes) = Cut(frames[a.frame])
  <2>1. a \in named
    BY <1>3
  <2>2. (CHOOSE c \in named : TRUE) \in named
    BY <2>1
  <2>3. (CHOOSE c \in named : TRUE).frame = a.frame
    BY <2>2, <1>3
  <2> HIDE DEF named
  <2> QED BY <1>1, <2>1, <2>3
<1> QED BY <1>2, <1>3

-----------------------------------------------------------------------------
(* A classifier that is right about every frame                            *)

LEMMA SurestOrders ==
  ASSUME NEW n \in Nat, NEW as, DOMAIN as = 1 .. n, \A i \in 1 .. n : as[i].confidence \in Int
  PROVE  Ordered(Surest(as), 1 .. n)
<1> DEFINE R == Surest(as)
           sure == [i \in 1 .. n |-> as[i].confidence]
<1>1. sure \in [1 .. n -> Int]
  OBVIOUS
<1>2. \A i, j \in 1 .. n : <<i, j>> \in R <=>
        \/ sure[i] > sure[j]
        \/ sure[i] = sure[j] /\ i < j
  <2>1. \A i \in 1 .. n : as[i].confidence = sure[i]
    OBVIOUS
  <2> HIDE DEF sure
  <2> QED BY <2>1 DEF Surest
<1> HIDE DEF R, sure
<1>3. \A i \in 1 .. n : <<i, i>> \notin R
  BY <1>1, <1>2
<1>4. ASSUME NEW i \in 1 .. n, NEW j \in 1 .. n, NEW k \in 1 .. n, <<i, j>> \in R, <<j, k>> \in R
      PROVE  <<i, k>> \in R
  BY <1>1, <1>2, <1>4
<1>5. ASSUME NEW i \in 1 .. n, NEW j \in 1 .. n, i # j PROVE <<i, j>> \in R \/ <<j, i>> \in R
  BY <1>1, <1>2, <1>5
<1>6. Ordered(R, 1 .. n)
  BY <1>3, <1>4, <1>5 DEF Ordered
<1> QED BY <1>6 DEF R

LEMMA Interval == ASSUME NEW n \in Nat PROVE IsFiniteSet(1 .. n) /\ Cardinality(1 .. n) = n
<1>1. 1 \in Int /\ n \in Int
  OBVIOUS
<1>2. Cardinality(1 .. n) = IF 1 > n THEN 0 ELSE n - 1 + 1
  BY <1>1, FS_Interval
<1> QED BY <1>1, <1>2, FS_Interval

\* An order has each number at one place.
LEMMA PlaceOf ==
  ASSUME NEW n \in Nat, NEW order \in Orders(n), NEW c \in 1 .. n
  PROVE  Place(order, c) \in 1 .. n /\ order[Place(order, c)] = c
<1>1. order \in Injection(1 .. n, 1 .. n)
  BY DEF Orders, Injection, IsInjective
<1>2. order \in Surjection(1 .. n, 1 .. n)
  BY <1>1, Interval, FS_Injection
<1>3. \E p \in 1 .. n : order[p] = c
  BY <1>2 DEF Surjection
<1>4. DOMAIN order = 1 .. n
  BY DEF Orders
<1> QED BY <1>3, <1>4 DEF Place

\* The assignments of an answer: the lie first, then the truth about each frame.
Answer(as, n, place, order) ==
  /\ DOMAIN as = 1 .. n + 1 /\ Len(as) = n + 1
  /\ as[1].confidence = 5
  /\ \A k \in 1 .. n : as[k + 1] = [frame |-> k, confidence |-> 9, number |-> order[place[k]]]

LEMMA AnswerIs ==
  ASSUME NEW cells, Spaced(cells), NEW strokes, NEW frames, NEW place,
         Placing(place, frames, cells, strokes),
         NEW order \in Orders(Len(cells)), NEW lie \in Lies(Len(cells))
  PROVE  Answer(lie \o Truth(frames, cells, order), Len(cells), place, order)
<1> DEFINE n == Len(cells)
           truth == Truth(frames, cells, order)
<1>1. n \in Nat /\ DOMAIN cells = 1 .. n /\ DOMAIN frames = 1 .. n
  BY CellsOfSheet DEF Placing
<1>2. \A k \in 1 .. n : (CHOOSE p \in DOMAIN cells : ~Apart(frames[k], cells[p])) = place[k]
  <2>1. TAKE k \in 1 .. n
  <2>2. place[k] \in DOMAIN cells /\ FrameOf(frames[k], place[k], cells)
    BY <1>1 DEF Placing
  <2>3. \A p \in DOMAIN cells : ~Apart(frames[k], cells[p]) <=> p = place[k]
    BY <2>2 DEF FrameOf
  <2> QED BY <2>2, <2>3
<1>3. truth = [k \in 1 .. n |-> [frame |-> k, confidence |-> 9, number |-> order[place[k]]]]
  BY <1>1, <1>2 DEF Truth
<1>4. PICK e : lie = <<e>> /\ e.confidence = 5
  BY DEF Lies
<1> HIDE DEF n
<1>5. truth \in Seq({truth[k] : k \in 1 .. n}) /\ Len(truth) = n
  <2> DEFINE S == {truth[k] : k \in 1 .. n}
  <2>1. truth \in [1 .. n -> S]
    BY <1>3
  <2> HIDE DEF truth, S
  <2> QED BY <1>1, <2>1, FunctionIsSeq DEF S
<1> DEFINE U == {e} \cup {truth[k] : k \in 1 .. n}
<1>6. lie \in Seq(U) /\ Len(lie) = 1 /\ lie[1] = e
  BY <1>4
<1>7. truth \in Seq(U)
  <2>1. truth \in [1 .. n -> U]
    BY <1>3
  <2> HIDE DEF truth, U
  <2> QED BY <1>1, <2>1, FunctionIsSeq
<1> HIDE DEF truth, U
<1>8. /\ lie \o truth \in Seq(U) /\ Len(lie \o truth) = 1 + n
      /\ \A i \in 1 .. 1 + n : (lie \o truth)[i] = IF i <= 1 THEN lie[i] ELSE truth[i - 1]
  <2>1. /\ lie \o truth \in Seq(U) /\ Len(lie \o truth) = Len(lie) + Len(truth)
        /\ \A i \in 1 .. Len(lie) + Len(truth) :
             (lie \o truth)[i] = IF i <= Len(lie) THEN lie[i] ELSE truth[i - Len(lie)]
    BY <1>6, <1>7, ConcatProperties
  <2> QED BY <2>1, <1>5, <1>6
<1>9. DOMAIN (lie \o truth) = 1 .. n + 1 /\ Len(lie \o truth) = n + 1
  BY <1>1, <1>8, LenProperties
<1>10. (lie \o truth)[1].confidence = 5
  BY <1>1, <1>4, <1>6, <1>8
<1>11. ASSUME NEW k \in 1 .. n
       PROVE  (lie \o truth)[k + 1] = [frame |-> k, confidence |-> 9, number |-> order[place[k]]]
  <2>1. k + 1 \in 1 .. 1 + n /\ ~(k + 1 <= 1) /\ (k + 1) - 1 = k
    BY <1>1
  <2>2. (lie \o truth)[k + 1] = truth[k]
    BY <1>8, <2>1
  <2> QED BY <2>2, <1>3
<1>12. Answer(lie \o truth, n, place, order)
  BY <1>9, <1>10, <1>11 DEF Answer
<1> QED BY <1>12 DEF truth, n

TruthTaken(T, n, place, order) ==
  /\ \A k \in 1 .. n : [frame |-> k, confidence |-> 9, number |-> order[place[k]]] \in T
  /\ \A a, b \in T : a.number = b.number => a = b

\* The truth about every frame is taken, whatever the lie says.
LEMMA TruthIsTaken ==
  ASSUME NEW n \in Nat, NEW place \in [1 .. n -> 1 .. n],
         \A k, l \in 1 .. n : place[k] = place[l] => k = l,
         NEW order \in Orders(n), NEW as, Answer(as, n, place, order),
         NEW frames, DOMAIN frames = 1 .. n, NEW cells, DOMAIN cells = 1 .. n
  PROVE  TruthTaken(Detections(as, frames, cells), n, place, order)
<1> DEFINE N == n + 1
           D == DOMAIN as
           R == Surest(as)
           L == Listed(D, R)
           s == [k \in D |-> as[L[k]]]
           T == TakeOnce(s, 1 .. n, 1 .. n)
           fact(k) == [frame |-> k, confidence |-> 9, number |-> order[place[k]]]
<1>1. N \in Nat /\ D = 1 .. N
  BY DEF Answer
<1>2. as[1].confidence = 5 /\ \A k \in 1 .. n : as[k + 1] = fact(k)
  BY DEF Answer
<1>3. \A i \in D : i = 1 \/ (i - 1 \in 1 .. n /\ as[i] = fact(i - 1))
  <2>1. TAKE i \in D
  <2>2. i = 1 \/ (i - 1 \in 1 .. n /\ (i - 1) + 1 = i)
    BY <1>1
  <2> QED BY <1>2, <2>2
<1>4. \A i \in D : as[i].confidence \in Int
  <2>1. \A k : fact(k).confidence = 9
    OBVIOUS
  <2> HIDE DEF fact, D
  <2>2. ASSUME NEW i \in D PROVE as[i].confidence = 5 \/ as[i].confidence = 9
    <3>1. CASE i = 1
      BY <1>2, <3>1
    <3>2. CASE as[i] = fact(i - 1)
      <4>1. fact(i - 1).confidence = 9
        BY <2>1
      <4> QED BY <3>2, <4>1
    <3> QED BY <1>3, <3>1, <3>2
  <2>3. 5 \in Int /\ 9 \in Int
    OBVIOUS
  <2> QED BY <2>2, <2>3
<1>5. Ordered(R, D)
  <2> HIDE DEF N
  <2> QED BY <1>1, <1>4, SurestOrders
<1>6. IsFiniteSet(D) /\ Cardinality(D) = N
  <2> HIDE DEF N
  <2> QED BY <1>1, Interval
<1>7. Sorts(L, D, R)
  <2> HIDE DEF D, R
  <2> QED BY <1>5, <1>6, ListedSorts
<1>8. /\ L \in [D -> D]
      /\ \A i, j \in D : i < j => <<L[i], L[j]>> \in R
      /\ \A x \in D : \E i \in D : L[i] = x
  <2> HIDE DEF L, R, N
  <2> QED BY <1>1, <1>6, <1>7 DEF Sorts
<1>9. Len(s) = N
  <2>1. s \in [1 .. N -> {as[i] : i \in D}]
    <3> HIDE DEF L, N
    <3> QED BY <1>1, <1>8
  <2> HIDE DEF s, N, D
  <2> QED BY <1>1, <2>1, FunctionIsSeq
<1>10. TakenFrom(T, s, N, 1 .. n, 1 .. n)
  <2> HIDE DEF s, N
  <2> QED BY <1>1, <1>9, TakeOnceTakes
<1>11. Detections(as, frames, cells) = T
  BY DEF Detections
<1>12. \A i \in D : s[i] = as[L[i]]
  OBVIOUS
<1> HIDE DEF T, s, L
<1>13. \A a, b \in T : a.number = b.number => a = b
  BY <1>10 DEF TakenFrom
<1>14. ASSUME NEW k \in 1 .. n PROVE fact(k) \in T
  <2>1. k + 1 \in D /\ as[k + 1] = fact(k)
    <3>1. k + 1 \in 1 .. N
      OBVIOUS
    <3> QED BY <1>1, <1>2, <3>1
  <2>2. PICK m \in D : L[m] = k + 1
    BY <1>8, <2>1
  <2>3. s[m] = fact(k)
    BY <1>12, <2>1, <2>2
  <2>4. order \in [1 .. n -> 1 .. n] /\ \A i, j \in 1 .. n : order[i] = order[j] => i = j
    BY DEF Orders
  <2>5. fact(k).frame = k /\ fact(k).number = order[place[k]] /\ fact(k).confidence = 9
    OBVIOUS
  <2>6. s[m].frame \in 1 .. n /\ s[m].number \in 1 .. n
    BY <2>3, <2>4, <2>5
  <2>7. PICK l \in 1 .. m : s[l] \in T /\ (s[l].frame = s[m].frame \/ s[l].number = s[m].number)
    <3> HIDE DEF N
    <3>1. m \in 1 .. N
      BY <1>1
    <3> QED BY <1>10, <2>6, <3>1 DEF TakenFrom
  <2>8. l \in D /\ m \in Int /\ l \in Int /\ l <= m
    BY <1>1
  <2>9. CASE l = m
    BY <2>3, <2>7, <2>9
  <2>10. CASE l # m
    <3>1. <<L[l], L[m]>> \in R
      <4>1. l < m
        BY <2>8, <2>10
      <4> HIDE DEF D, R
      <4> QED BY <2>8, <4>1, <1>8
    <3>2. L[l] \in D /\ L[m] \in D
      <4> HIDE DEF D
      <4> QED BY <2>8, <1>8
    <3>3. L[l] # 1
      <4>1. \/ as[L[l]].confidence > as[L[m]].confidence
            \/ as[L[l]].confidence = as[L[m]].confidence
        BY <3>1 DEF Surest
      <4>2. as[L[m]].confidence = 9
        BY <2>1, <2>2, <2>5
      <4>3. ASSUME L[l] = 1 PROVE FALSE
        <5>1. 5 > 9 \/ 5 = 9
          BY <4>1, <4>2, <4>3, <1>2
        <5> QED BY <5>1
      <4> QED BY <4>3
    <3> DEFINE other == L[l] - 1
    <3>4. other \in 1 .. n /\ s[l] = fact(other)
      BY <1>3, <1>12, <2>8, <3>2, <3>3
    <3> HIDE DEF other
    <3>5. s[l].frame = other /\ s[l].number = order[place[other]]
      BY <3>4
    <3>6. other = k
      BY <2>3, <2>4, <2>5, <2>7, <3>4, <3>5
    <3> QED BY <2>7, <3>4, <3>6
  <2> QED BY <2>9, <2>10
<1>15. TruthTaken(T, n, place, order)
  BY <1>13, <1>14 DEF TruthTaken
<1> QED BY <1>11, <1>15

LEMMA RightAnswerCutsRight ==
  ASSUME NEW cells, Spaced(cells), NEW strokes, NEW frames, NEW place,
         Placing(place, frames, cells, strokes), Len(cells) <= MaxCrops,
         NEW order \in Orders(Len(cells)), NEW as \in Replies(frames, cells, order),
         NEW c \in DOMAIN cells
  PROVE  Shows(Piece(c, cells, frames, BoxesForCut(cells, frames, TRUE, as)), Place(order, c), cells)
<1> DEFINE n == Len(cells)
           T == Detections(as, frames, cells)
           p == Place(order, c)
<1>1. n \in Nat /\ DOMAIN cells = 1 .. n /\ DOMAIN frames = 1 .. n
  BY CellsOfSheet DEF Placing
<1>2. /\ place \in [1 .. n -> 1 .. n] /\ \A k, l \in 1 .. n : place[k] = place[l] => k = l
      /\ \A i \in 1 .. n : \E k \in 1 .. n : place[k] = i
  BY <1>1 DEF Placing
<1>3. Answer(as, n, place, order)
  BY AnswerIs DEF Replies
<1>4. TruthTaken(T, n, place, order)
  <2> HIDE DEF n
  <2>1. order \in Orders(n)
    BY DEF n
  <2> QED BY <1>1, <1>2, <1>3, <2>1, TruthIsTaken
<1>5. MaxCrops \in Nat
  BY SizesAssumption
<1>6. BoxesForCut(cells, frames, TRUE, as) = T
  <2>1. ~(Len(cells) > MaxCrops)
    BY <1>1, <1>5
  <2> QED BY <2>1 DEF BoxesForCut, BoxesTold
<1>7. p \in 1 .. n /\ order[p] = c
  <2> HIDE DEF n
  <2>1. order \in Orders(n) /\ c \in 1 .. n
    BY <1>1 DEF n
  <2> QED BY <1>1, <2>1, PlaceOf
<1> HIDE DEF T, p, n
<1>8. PICK k \in 1 .. n : place[k] = p
  BY <1>2, <1>7
<1> DEFINE e == [frame |-> k, confidence |-> 9, number |-> c]
<1>9. e \in T
  BY <1>4, <1>7, <1>8 DEF TruthTaken
<1>10. e.number = c /\ e.frame = k
  OBVIOUS
<1> HIDE DEF e
<1>11. \A b \in T : b.number = c => b.frame = e.frame
  BY <1>4, <1>9, <1>10 DEF TruthTaken
<1>12. Piece(c, cells, frames, T) = Cut(frames[k])
  BY <1>9, <1>10, <1>11, PieceIs
<1>13. FrameOf(frames[k], p, cells)
  BY <1>1, <1>8 DEF Placing
<1>14. Shows(Cut(frames[k]), p, cells)
  BY <1>1, <1>7, <1>13, FrameIsCut
<1>15. Shows(Piece(c, cells, frames, BoxesForCut(cells, frames, TRUE, as)), p, cells)
  BY <1>6, <1>12, <1>14
<1> QED BY <1>15 DEF p

-----------------------------------------------------------------------------
(* A classifier that fails                                                 *)

\* A cell none of whose strokes is found keeps its static place.
LEMMA NoStrokeKeepsTheCell ==
  ASSUME NEW cells, Spaced(cells), NEW i \in DOMAIN cells
  PROVE  /\ InBand(Window(i, cells), Exact(i, cells))
         /\ Frame(i, cells, Exact(i, cells)) = cells[i]
<1> DEFINE a == cells[i]
           s == Exact(i, cells)
<1>1. s.left = Missing /\ s.right = Missing /\ s.top = Missing /\ s.bottom = Missing
  BY DEF Exact
<1>2. CellFits(a) /\ a.x \in Nat /\ a.y \in Nat /\ a.w \in Nat /\ a.h \in Nat
  BY CellsOfSheet DEF CellFits, CellSet
<1>3. Pad \in Nat /\ Width \in Nat /\ Height \in Nat
  BY SizesAssumption
<1>4. Found(s.left, a.x) = a.x /\ Found(s.top, a.y) = a.y
  BY <1>1 DEF Found
<1>5. Found(s.right, Right(a)) - a.x = a.w /\ Found(s.bottom, Bottom(a)) - a.y = a.h
  <2>1. Found(s.right, Right(a)) = Right(a) /\ Found(s.bottom, Bottom(a)) = Bottom(a)
    BY <1>1 DEF Found
  <2> HIDE DEF a, s
  <2> QED BY <2>1, <1>2 DEF Right, Bottom
<1>6. Most(1, Least(a.w, Width - a.x)) = a.w /\ Most(1, Least(a.h, Height - a.y)) = a.h
  <2> HIDE DEF a
  <2> QED BY <1>2, <1>3 DEF CellFits, Most, Least, Right, Bottom
<1>7. [a EXCEPT !.w = a.w, !.h = a.h] = a /\ [x |-> a.x, y |-> a.y, w |-> a.w, h |-> a.h] = a
  <2>1. a \in CellSet
    BY <1>2 DEF CellFits
  <2> HIDE DEF a
  <2> QED BY <2>1 DEF CellSet
<1>8. \E b \in BOOLEAN : Frame(i, cells, s) =
        IF b THEN [a EXCEPT !.w = Most(1, Least(a.w, Width - a.x)),
                            !.h = Most(1, Least(a.h, Height - a.y))]
        ELSE [x |-> Found(s.left, a.x), y |-> Found(s.top, a.y),
              w |-> Found(s.right, Right(a)) - Found(s.left, a.x),
              h |-> Found(s.bottom, Bottom(a)) - Found(s.top, a.y)]
  <2> DEFINE b == \/ Degenerate(Window(i, cells), s)
                  \/ Found(s.right, Right(a)) - Found(s.left, a.x) < MinBox
                  \/ Found(s.bottom, Bottom(a)) - Found(s.top, a.y) < MinBox
  <2> HIDE DEF s
  <2>1. Frame(i, cells, s) =
          IF b THEN [a EXCEPT !.w = Most(1, Least(a.w, Width - a.x)),
                              !.h = Most(1, Least(a.h, Height - a.y))]
          ELSE [x |-> Found(s.left, a.x), y |-> Found(s.top, a.y),
                w |-> Found(s.right, Right(a)) - Found(s.left, a.x),
                h |-> Found(s.bottom, Bottom(a)) - Found(s.top, a.y)]
    BY DEF Frame
  <2> HIDE DEF b
  <2>2. CASE b
    BY <2>1, <2>2
  <2>3. CASE ~b
    BY <2>1, <2>3
  <2> QED BY <2>2, <2>3
<1>9. Frame(i, cells, s) = a
  <2> HIDE DEF a, s
  <2> QED BY <1>4, <1>5, <1>6, <1>7, <1>8
<1>10. InBand(Window(i, cells), s)
  <2> HIDE DEF s
  <2> QED BY <1>1 DEF InBand
<1> QED BY <1>9, <1>10

\* The strokes tried are such as may be found, and all but one cell keep their place.
LEMMA TriedStrokes ==
  ASSUME NEW cells, Spaced(cells), NEW strokes \in StrokesTried(cells)
  PROVE  /\ Strokes(strokes, cells)
         /\ \E i \in DOMAIN cells : \A j \in DOMAIN cells \ {i} :
              Frame(j, cells, strokes[j]) = cells[j]
<1> DEFINE tried(i, s) == [j \in DOMAIN cells |-> IF j = i THEN s ELSE Exact(j, cells)]
<1>1. PICK i \in DOMAIN cells : \E s \in StrokesOf(i, cells) : strokes = tried(i, s)
  BY DEF StrokesTried
<1>2. PICK s \in StrokesOf(i, cells) : strokes = tried(i, s)
  BY <1>1
<1>3. InBand(Window(i, cells), s)
  BY DEF StrokesOf
<1>4. \A j \in DOMAIN cells : strokes[j] = IF j = i THEN s ELSE Exact(j, cells)
  BY <1>2
<1>5. \A j \in DOMAIN cells : InBand(Window(j, cells), strokes[j])
  BY <1>3, <1>4, NoStrokeKeepsTheCell
<1>6. \A j \in DOMAIN cells \ {i} : Frame(j, cells, strokes[j]) = cells[j]
  BY <1>4, NoStrokeKeepsTheCell
<1> QED BY <1>5, <1>6 DEF Strokes

LEMMA SquareIs == \A n \in Int : n * n \in Nat /\ (n * n = 0 => n = 0)
OBVIOUS

LEMMA DistanceIs ==
  ASSUME NEW f \in CellSet, NEW c \in CellSet, f.w >= 1, f.h >= 1, c.w >= 1, c.h >= 1
  PROVE  /\ Distance(f, c) \in Nat
         /\ Distance(f, f) = 0
         /\ Distance(f, c) = 0 => ~Apart(f, c)
<1> DEFINE dx == (2 * f.x + f.w) - (2 * c.x + c.w)
           dy == (2 * f.y + f.h) - (2 * c.y + c.h)
           ex == (2 * f.x + f.w) - (2 * f.x + f.w)
           ey == (2 * f.y + f.h) - (2 * f.y + f.h)
<1>1. /\ f.x \in Nat /\ f.y \in Nat /\ f.w \in Nat /\ f.h \in Nat
      /\ c.x \in Nat /\ c.y \in Nat /\ c.w \in Nat /\ c.h \in Nat
  BY DEF CellSet
<1>2. dx \in Int /\ dy \in Int /\ ex = 0 /\ ey = 0
  BY <1>1
<1>3. Distance(f, c) = dx * dx + dy * dy /\ Distance(f, f) = ex * ex + ey * ey
  BY DEF Distance
<1>4. dx * dx \in Nat /\ (dx * dx = 0 => dx = 0) /\ dy * dy \in Nat /\ (dy * dy = 0 => dy = 0)
  <2> HIDE DEF dx, dy
  <2> QED BY <1>2, SquareIs
<1> DEFINE sx == dx * dx
           sy == dy * dy
<1>5. Distance(f, c) \in Nat /\ (Distance(f, c) = 0 => dx = 0 /\ dy = 0)
  <2>1. sx \in Nat /\ sy \in Nat /\ Distance(f, c) = sx + sy
    BY <1>3, <1>4
  <2>2. (sx = 0 => dx = 0) /\ (sy = 0 => dy = 0)
    BY <1>4
  <2> HIDE DEF sx, sy, dx, dy
  <2> QED BY <2>1, <2>2
<1>6. Distance(f, f) = 0
  <2> HIDE DEF ex, ey
  <2> QED BY <1>2, <1>3
<1>7. ASSUME dx = 0, dy = 0 PROVE ~Apart(f, c)
  BY <1>1, <1>7 DEF Apart, Right, Bottom
<1> QED BY <1>5, <1>6, <1>7

Far(p, frames, cells) == Distance(frames[p.frame], cells[p.number])

LEMMA NearestOrders ==
  ASSUME NEW n \in Nat, NEW frames, DOMAIN frames = 1 .. n, NEW cells, DOMAIN cells = 1 .. n,
         \A p \in Pairs(frames, cells) : Far(p, frames, cells) \in Int
  PROVE  Ordered(Nearest(frames, cells), Pairs(frames, cells))
<1> DEFINE R == Nearest(frames, cells)
           P == Pairs(frames, cells)
           far == [p \in P |-> Far(p, frames, cells)]
<1>1. far \in [P -> Int] /\ \A p \in P : p.frame \in Int /\ p.number \in Int
  BY DEF Pairs
<1>2. \A p, q \in P : p.frame = q.frame /\ p.number = q.number => p = q
  BY DEF Pairs
<1>3. \A p, q \in P : <<p, q>> \in R <=>
        \/ far[p] < far[q]
        \/ far[p] = far[q] /\ p.frame < q.frame
        \/ far[p] = far[q] /\ p.frame = q.frame /\ p.number < q.number
  <2>1. \A p \in P : far[p] = Distance(frames[p.frame], cells[p.number])
    BY DEF Far
  <2> HIDE DEF far, P
  <2>2. R = {pq \in P \X P :
              LET p == pq[1]  q == pq[2] IN
              \/ Distance(frames[p.frame], cells[p.number]) < Distance(frames[q.frame], cells[q.number])
              \/ /\ Distance(frames[p.frame], cells[p.number]) = Distance(frames[q.frame], cells[q.number])
                 /\ p.frame < q.frame
              \/ /\ Distance(frames[p.frame], cells[p.number]) = Distance(frames[q.frame], cells[q.number])
                 /\ p.frame = q.frame /\ p.number < q.number}
    BY DEF Nearest, P
  <2> HIDE DEF R
  <2> QED BY <2>1, <2>2
<1> HIDE DEF R, P, far
<1>4. \A p \in P : <<p, p>> \notin R
  BY <1>1, <1>3
<1>5. ASSUME NEW p \in P, NEW q \in P, NEW r \in P, <<p, q>> \in R, <<q, r>> \in R
      PROVE  <<p, r>> \in R
  <2> DEFINE fp == far[p]
             fq == far[q]
             fr == far[r]
  <2>1. /\ fp \in Int /\ fq \in Int /\ fr \in Int
        /\ p.frame \in Int /\ q.frame \in Int /\ r.frame \in Int
        /\ p.number \in Int /\ q.number \in Int /\ r.number \in Int
    BY <1>1
  <2>2. fp < fq \/ (fp = fq /\ p.frame < q.frame) \/ (fp = fq /\ p.frame = q.frame /\ p.number < q.number)
    BY <1>3, <1>5
  <2>3. fq < fr \/ (fq = fr /\ q.frame < r.frame) \/ (fq = fr /\ q.frame = r.frame /\ q.number < r.number)
    BY <1>3, <1>5
  <2> HIDE DEF fp, fq, fr
  <2>4. fp < fr \/ (fp = fr /\ p.frame < r.frame) \/ (fp = fr /\ p.frame = r.frame /\ p.number < r.number)
    BY <2>1, <2>2, <2>3
  <2> QED BY <1>3, <2>4 DEF fp, fr
<1>6. ASSUME NEW p \in P, NEW q \in P, p # q PROVE <<p, q>> \in R \/ <<q, p>> \in R
  <2> DEFINE fp == far[p]
             fq == far[q]
  <2>1. /\ fp \in Int /\ fq \in Int
        /\ p.frame \in Int /\ q.frame \in Int /\ p.number \in Int /\ q.number \in Int
    BY <1>1
  <2>2. p.frame # q.frame \/ p.number # q.number
    BY <1>2, <1>6
  <2> HIDE DEF fp, fq
  <2>3. \/ fp < fq \/ (fp = fq /\ p.frame < q.frame)
        \/ (fp = fq /\ p.frame = q.frame /\ p.number < q.number)
        \/ fq < fp \/ (fq = fp /\ q.frame < p.frame)
        \/ (fq = fp /\ q.frame = p.frame /\ q.number < p.number)
    BY <2>1, <2>2
  <2> QED BY <1>3, <2>3 DEF fp, fq
<1>7. Ordered(R, P)
  BY <1>4, <1>5, <1>6 DEF Ordered
<1> QED BY <1>7 DEF R, P

LEMMA PairsFinite ==
  ASSUME NEW n \in Nat, NEW frames, DOMAIN frames = 1 .. n, NEW cells, DOMAIN cells = 1 .. n
  PROVE  IsFiniteSet(Pairs(frames, cells))
<1> DEFINE D == 1 .. n
           all == [frame : D, number : D]
           f == [x \in D \X D |-> [frame |-> x[1], number |-> x[2]]]
<1>1. IsFiniteSet(D)
  BY Interval
<1>2. IsFiniteSet(D \X D)
  BY <1>1, FS_Product
<1>3. f \in [D \X D -> all]
  <2> HIDE DEF D
  <2> QED OBVIOUS
<1>4. ASSUME NEW r \in all PROVE \E x \in D \X D : f[x] = r
  <2>1. <<r.frame, r.number>> \in D \X D
    OBVIOUS
  <2>2. f[<<r.frame, r.number>>] = [frame |-> r.frame, number |-> r.number]
    BY <2>1
  <2>3. r = [frame |-> r.frame, number |-> r.number]
    OBVIOUS
  <2> QED BY <2>1, <2>2, <2>3
<1>5. f \in Surjection(D \X D, all)
  <2> HIDE DEF f, D, all
  <2> QED BY <1>3, <1>4 DEF Surjection
<1>6. IsFiniteSet(all)
  <2> HIDE DEF f, D, all
  <2> QED BY <1>2, <1>5, FS_Surjection
<1>7. Pairs(frames, cells) \in SUBSET all
  BY DEF Pairs
<1> QED BY <1>6, <1>7, FS_Subset

LEMMA FarIs ==
  ASSUME NEW cells, Spaced(cells), NEW strokes, NEW frames, NEW place,
         Placing(place, frames, cells, strokes), NEW p \in Pairs(frames, cells)
  PROVE  /\ p.frame \in DOMAIN cells /\ p.number \in DOMAIN cells
         /\ Far(p, frames, cells) \in Nat
         /\ Far(p, frames, cells) = 0 => place[p.frame] = p.number
<1>1. p.frame \in DOMAIN cells /\ p.number \in DOMAIN cells
  BY DEF Pairs, Placing
<1>2. FrameOf(frames[p.frame], place[p.frame], cells)
  BY <1>1 DEF Placing
<1>3. CellFits(cells[p.number]) /\ Pad \in Nat
  BY <1>1, CellsOfSheet, SizesAssumption
<1> DEFINE f == frames[p.frame]
           c == cells[p.number]
<1>4. f \in CellSet /\ c \in CellSet /\ f.w >= 1 /\ f.h >= 1 /\ c.w >= 1 /\ c.h >= 1
  <2>1. f \in CellSet /\ f.w >= 1 /\ f.h >= 1
    BY <1>2 DEF FrameOf
  <2> HIDE DEF f, c
  <2>2. CellFits(c)
    BY <1>3 DEF c
  <2> QED BY <2>1, <2>2, <1>3 DEF CellFits, CellSet
<1>5. Distance(f, c) \in Nat /\ (Distance(f, c) = 0 => ~Apart(f, c))
  <2> HIDE DEF f, c
  <2> QED BY <1>4, DistanceIs
<1>6. ~Apart(f, c) => place[p.frame] = p.number
  BY <1>1, <1>2 DEF FrameOf
<1> QED BY <1>1, <1>5, <1>6 DEF Far

\* A frame that is its cell is paired with the cell, at no distance.
LEMMA OwnPair ==
  ASSUME NEW cells, Spaced(cells), NEW strokes, NEW frames, NEW place,
         Placing(place, frames, cells, strokes),
         NEW k \in DOMAIN cells, frames[k] = cells[place[k]]
  PROVE  LET o == [frame |-> k, number |-> place[k]]
         IN o \in Pairs(frames, cells) /\ Far(o, frames, cells) = 0
<1> DEFINE o == [frame |-> k, number |-> place[k]]
           c == cells[place[k]]
<1>1. place[k] \in DOMAIN cells /\ DOMAIN frames = DOMAIN cells
  BY DEF Placing
<1>2. CellFits(c) /\ Pad \in Nat
  BY <1>1, CellsOfSheet, SizesAssumption
<1>3. c \in CellSet /\ c.w \in Nat /\ c.h \in Nat /\ c.w >= 1 /\ c.h >= 1
  <2> HIDE DEF c
  <2> QED BY <1>2 DEF CellFits, CellSet
<1>4. Alike(c, c)
  <2> HIDE DEF c
  <2>1. c.w - c.w = 0 /\ c.h - c.h = 0
    BY <1>3
  <2>2. Size(0) = 0
    BY DEF Size
  <2>3. 100 * Size(c.w - c.w) = 0 /\ 100 * Size(c.h - c.h) = 0
    BY <2>1, <2>2
  <2> QED BY <2>3, <1>3 DEF Alike
<1>5. Distance(c, c) = 0
  <2> HIDE DEF c
  <2> QED BY <1>3, DistanceIs
<1>6. frames[o.frame] = c /\ cells[o.number] = c
  OBVIOUS
<1>7. o \in [frame : DOMAIN frames, number : DOMAIN cells]
  BY <1>1
<1> HIDE DEF c, o
<1>8. o \in Pairs(frames, cells)
  BY <1>4, <1>6, <1>7 DEF Pairs
<1>9. Far(o, frames, cells) = 0
  BY <1>5, <1>6 DEF Far
<1> QED BY <1>8, <1>9 DEF o

\* The positional fallback gives no crop the frame of another cell.
LEMMA NearestIsOwn ==
  ASSUME NEW cells, Spaced(cells), NEW strokes, NEW frames, NEW place,
         Placing(place, frames, cells, strokes),
         NEW i \in DOMAIN cells,
         \A j \in DOMAIN cells \ {i} : Frame(j, cells, strokes[j]) = cells[j]
  PROVE  /\ \A a \in Positional(frames, cells) : a.frame \in DOMAIN cells /\ place[a.frame] = a.number
         /\ \A a, b \in Positional(frames, cells) : a.number = b.number => a = b
<1> DEFINE n == Len(cells)
           P == Pairs(frames, cells)
           R == Nearest(frames, cells)
           N == Cardinality(P)
           s == Listed(P, R)
           T == TakeOnce(s, 1 .. n, 1 .. n)
           own(k) == [frame |-> k, number |-> place[k]]
<1>1. n \in Nat /\ DOMAIN cells = 1 .. n /\ DOMAIN frames = 1 .. n
  BY CellsOfSheet DEF Placing
<1>2. /\ place \in [1 .. n -> 1 .. n] /\ \A k, l \in 1 .. n : place[k] = place[l] => k = l
      /\ \A j \in 1 .. n : \E k \in 1 .. n : place[k] = j
  <2> HIDE DEF n
  <2> QED BY <1>1 DEF Placing
<1>3. \A p \in P : /\ p.frame \in 1 .. n /\ p.number \in 1 .. n /\ Far(p, frames, cells) \in Nat
                   /\ Far(p, frames, cells) = 0 => place[p.frame] = p.number
  <2> HIDE DEF n
  <2> QED BY <1>1, FarIs
<1>4. IsFiniteSet(P) /\ N \in Nat
  <2>1. IsFiniteSet(P)
    <3> HIDE DEF n
    <3> QED BY <1>1, PairsFinite
  <2> QED BY <2>1, FS_CardinalityType
<1>5. Ordered(R, P)
  <2> HIDE DEF n
  <2>1. \A p \in Pairs(frames, cells) : Far(p, frames, cells) \in Int
    BY <1>3
  <2> QED BY <1>1, <2>1, NearestOrders
<1>6. Sorts(s, P, R)
  <2> HIDE DEF P, R
  <2> QED BY <1>4, <1>5, ListedSorts
<1>7. /\ s \in [1 .. N -> P]
      /\ \A l, m \in 1 .. N : l < m => <<s[l], s[m]>> \in R
      /\ \A x \in P : \E m \in 1 .. N : s[m] = x
  <2> HIDE DEF s, P, R
  <2> QED BY <1>6 DEF Sorts
<1>8. Len(s) = N
  <2> HIDE DEF s, N, P
  <2> QED BY <1>4, <1>7, FunctionIsSeq
<1>9. TakenFrom(T, s, N, 1 .. n, 1 .. n)
  <2> HIDE DEF s, N
  <2> QED BY <1>4, <1>8, TakeOnceTakes
<1>10. Positional(frames, cells) = T
  <2> HIDE DEF n
  <2> QED BY <1>1 DEF Positional
<1> HIDE DEF T, s, N
<1>11. \A a, b \in T : a.number = b.number \/ a.frame = b.frame => a = b
  BY <1>9 DEF TakenFrom
<1>12. \A p, q \in P : <<p, q>> \in R => Far(p, frames, cells) < Far(q, frames, cells)
                                          \/ Far(p, frames, cells) = Far(q, frames, cells)
  BY DEF Nearest, Far
<1>13. ASSUME NEW k \in 1 .. n, place[k] # i PROVE own(k) \in T
  <2> DEFINE o == own(k)
  <2>1. frames[k] = cells[place[k]]
    BY <1>1, <1>2, <1>13 DEF Placing
  <2>2. o \in P /\ Far(o, frames, cells) = 0
    <3> HIDE DEF n
    <3> QED BY <1>1, <2>1, OwnPair
  <2>3. o.frame = k /\ o.number = place[k] /\ k \in 1 .. n /\ place[k] \in 1 .. n
    BY <1>2
  <2> HIDE DEF o
  <2>4. PICK m \in 1 .. N : s[m] = o
    BY <1>7, <2>2
  <2>5. PICK l \in 1 .. m : s[l] \in T /\ (s[l].frame = o.frame \/ s[l].number = o.number)
    BY <1>9, <2>3, <2>4 DEF TakenFrom
  <2>6. l \in 1 .. N /\ l \in Int /\ m \in Int /\ l <= m
    BY <1>4
  <2>7. s[l] = o
    <3>1. CASE l = m
      BY <2>4, <3>1
    <3>2. CASE l # m
      <4> HIDE DEF P, R, n
      <4>1. l < m
        BY <2>6, <3>2
      <4>2. s[l] \in P /\ <<s[l], o>> \in R
        BY <1>7, <2>4, <2>6, <4>1
      <4>3. Far(s[l], frames, cells) < 0 \/ Far(s[l], frames, cells) = 0
        BY <4>2, <2>2, <1>12
      <4>4. Far(s[l], frames, cells) \in Nat
        BY <4>2, <1>3
      <4>5. Far(s[l], frames, cells) = 0
        BY <4>3, <4>4
      <4>6. place[s[l].frame] = s[l].number /\ s[l].frame \in 1 .. n
        BY <4>2, <4>5, <1>3
      <4>7. s[l].frame = k /\ s[l].number = place[k]
        <5> DEFINE q == s[l].frame
                   r == s[l].number
        <5>1. place[q] = r /\ q \in 1 .. n /\ (q = k \/ r = place[k])
          BY <4>6, <2>3, <2>5
        <5> HIDE DEF q, r
        <5>2. q = k /\ r = place[k]
          BY <5>1, <1>2
        <5> QED BY <5>2 DEF q, r
      <4>8. s[l] = [frame |-> s[l].frame, number |-> s[l].number]
        BY <4>2 DEF P, Pairs
      <4> QED BY <4>7, <4>8 DEF o
    <3> QED BY <3>1, <3>2
  <2> QED BY <2>5, <2>7 DEF o
<1>14. ASSUME NEW a \in T PROVE a.frame \in 1 .. n /\ place[a.frame] = a.number
  <2>1. a.frame \in 1 .. n /\ a.number \in 1 .. n
    BY <1>9 DEF TakenFrom
  <2> DEFINE k == a.frame
  <2>2. PICK l \in 1 .. n : place[l] = a.number
    BY <1>2, <2>1
  <2>3. CASE place[l] # i
    <3>1. own(l) \in T /\ own(l).number = a.number /\ own(l).frame = l
      BY <1>13, <2>2, <2>3
    <3> HIDE DEF own
    <3>2. a = own(l)
      BY <3>1, <1>11
    <3> QED BY <3>1, <3>2, <2>1, <2>2
  <2>4. CASE place[l] = i
    <3>1. CASE place[k] # i
      <4>1. own(k) \in T /\ own(k).frame = a.frame /\ own(k).number = place[k]
        BY <1>13, <2>1, <3>1
      <4> HIDE DEF own
      <4>2. a = own(k)
        BY <4>1, <1>11
      <4> QED BY <4>1, <4>2, <2>1
    <3>2. CASE place[k] = i
      BY <2>1, <2>2, <2>4, <3>2
    <3> QED BY <3>1, <3>2
  <2> QED BY <2>3, <2>4
<1> QED BY <1>1, <1>10, <1>11, <1>14

LEMMA NeverWorse ==
  ASSUME NEW cells, Spaced(cells), NEW strokes, NEW frames, NEW place,
         Placing(place, frames, cells, strokes),
         NEW i \in DOMAIN cells,
         \A j \in DOMAIN cells \ {i} : Frame(j, cells, strokes[j]) = cells[j],
         NEW order \in Orders(Len(cells)), NEW c \in DOMAIN cells,
         Shows(Piece(c, cells, frames, {}), Place(order, c), cells)
  PROVE  Shows(Piece(c, cells, frames, BoxesForCut(cells, frames, FALSE, << >>)), Place(order, c), cells)
<1> DEFINE n == Len(cells)
           p == Place(order, c)
           boxes == BoxesForCut(cells, frames, FALSE, << >>)
<1>1. n \in Nat /\ DOMAIN cells = 1 .. n /\ DOMAIN frames = 1 .. n
  BY CellsOfSheet DEF Placing
<1>2. p \in 1 .. n
  <2> HIDE DEF n
  <2>1. order \in Orders(n) /\ c \in 1 .. n
    BY <1>1 DEF n
  <2> QED BY <1>1, <2>1, PlaceOf
<1>3. FrameOf(cells[c], c, cells)
  BY CellIsItsFrame
<1>4. Cut(cells[c]) = cells[c] /\ Shows(Cut(cells[c]), c, cells)
  BY <1>3, FrameIsCut
<1>5. Piece(c, cells, frames, {}) = Cut(cells[c])
  BY PieceIs
<1>6. p = c
  <2> HIDE DEF p
  <2>1. Shows(Cut(cells[c]), p, cells)
    BY <1>5 DEF p
  <2> QED BY <2>1, <1>1, <1>2, <1>4 DEF Shows
<1>7. boxes = {} \/ boxes = Positional(frames, cells)
  <2>1. CASE Len(cells) > MaxCrops
    BY <2>1 DEF BoxesForCut, BoxesTold
  <2>2. CASE ~(Len(cells) > MaxCrops)
    BY <2>2 DEF BoxesForCut, BoxesTold
  <2> QED BY <2>1, <2>2
<1>8. \A a \in boxes : a.frame \in DOMAIN cells /\ place[a.frame] = a.number
  <2> HIDE DEF boxes
  <2> QED BY <1>7, NearestIsOwn
<1>9. \A a, b \in boxes : a.number = b.number => a = b
  <2> HIDE DEF boxes
  <2> QED BY <1>7, NearestIsOwn
<1> HIDE DEF boxes
<1>10. CASE \A a \in boxes : a.number # c
  <2>1. Piece(c, cells, frames, boxes) = Cut(cells[c])
    BY <1>10, PieceIs
  <2> QED BY <2>1, <1>4, <1>6 DEF boxes
<1>11. CASE \E a \in boxes : a.number = c
  <2>1. PICK a \in boxes : a.number = c
    BY <1>11
  <2>2. Piece(c, cells, frames, boxes) = Cut(frames[a.frame])
    BY <2>1, <1>9, PieceIs
  <2>3. FrameOf(frames[a.frame], c, cells)
    BY <2>1, <1>8 DEF Placing
  <2>4. Shows(Cut(frames[a.frame]), c, cells)
    BY <2>3, FrameIsCut
  <2> QED BY <2>2, <2>4, <1>6 DEF boxes
<1> QED BY <1>10, <1>11

\* Whatever the strokes of a sheet: frames that do not touch a neighbour, one for each cell, and
\* with a classifier that is right about them every crop is cut from where it was drawn.
THEOREM CutFollowsTheClassifier ==
  ASSUME NEW cells, Spaced(cells), Len(cells) <= MaxCrops, NEW strokes, Strokes(strokes, cells),
         NEW order \in Orders(Len(cells)), NEW as \in Replies(Frames(cells, strokes), cells, order),
         NEW c \in DOMAIN cells
  PROVE  LET frames == Frames(cells, strokes)
         IN Shows(Piece(c, cells, frames, BoxesForCut(cells, frames, TRUE, as)), Place(order, c), cells)
<1> DEFINE frames == Frames(cells, strokes)
<1>1. PICK place : Placing(place, frames, cells, strokes)
  BY FramesArePlaced
<1>2. as \in Replies(frames, cells, order)
  OBVIOUS
<1> HIDE DEF frames
<1>3. Shows(Piece(c, cells, frames, BoxesForCut(cells, frames, TRUE, as)), Place(order, c), cells)
  BY <1>1, <1>2, RightAnswerCutsRight
<1> QED BY <1>3 DEF frames

\* PiecesRight for every sheet the composer may lay out.
LEMMA PiecesAreRight == PiecesRight
<1> SUFFICES ASSUME NEW cells \in Layouts, NEW frames \in FramesTried(cells),
                    NEW order \in Orders(Len(cells)), NEW c \in DOMAIN cells
             PROVE  LET positional == BoxesForCut(cells, frames, FALSE, << >>)
                    IN /\ Len(cells) <= MaxCrops =>
                            \A as \in Replies(frames, cells, order) :
                              LET boxes == BoxesForCut(cells, frames, TRUE, as)
                              IN Shows(Piece(c, cells, frames, boxes), Place(order, c), cells)
                       /\ Shows(Piece(c, cells, frames, {}), Place(order, c), cells) =>
                            Shows(Piece(c, cells, frames, positional), Place(order, c), cells)
  BY DEF PiecesRight
<1> PICK strokes \in StrokesTried(cells) : frames = Frames(cells, strokes)
  BY DEF FramesTried
<1>1. Spaced(cells)
  BY LayoutsAssumption
<1>2. Strokes(strokes, cells)
  BY <1>1, TriedStrokes
<1>3. PICK i \in DOMAIN cells : \A j \in DOMAIN cells \ {i} : Frame(j, cells, strokes[j]) = cells[j]
  BY <1>1, TriedStrokes
<1>4. PICK place : Placing(place, frames, cells, strokes)
  BY <1>1, <1>2, FramesArePlaced
<1>5. Len(cells) <= MaxCrops =>
        \A as \in Replies(frames, cells, order) :
          Shows(Piece(c, cells, frames, BoxesForCut(cells, frames, TRUE, as)), Place(order, c), cells)
  BY <1>1, <1>4, RightAnswerCutsRight
<1>6. Shows(Piece(c, cells, frames, {}), Place(order, c), cells) =>
        Shows(Piece(c, cells, frames, BoxesForCut(cells, frames, FALSE, << >>)), Place(order, c), cells)
  BY <1>1, <1>3, <1>4, NeverWorse
<1> QED BY <1>5, <1>6

\* However the image model moved the cells of a sheet, each crop is cut from where it was drawn when
\* the classifier is right, and none is cut worse than statically when it fails.
THEOREM PiecesAreOfTheirCrops == Spec => []PiecesOfSheets
<1>1. PiecesOfSheets
  BY PiecesAreRight DEF PiecesOfSheets
<1> QED BY <1>1, PTL
=============================================================================
