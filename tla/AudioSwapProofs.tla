--------------------------- MODULE AudioSwapProofs ---------------------------
(***************************************************************************)
(* What AudioSwap guarantees for any spreads, boxes, chunks, voices and    *)
(* caps, and any number of jobs and edits: a stored audio is stale only    *)
(* after a failed combine, a box that lost a narration stays in need of    *)
(* one, and a spread told as done has nothing left to do. And what         *)
(* WordTimings computes for any text and any alignment: words in order.    *)
(***************************************************************************)
EXTENDS MCAudioSwap, OrderLemmas, SequenceTheorems

InSpread == {"work", "missing", "unsaved", "settle"}
Loaded == InSpread \cup {"next"}
PartStates == {"none", "queued", "talking", "said", "lost"}
Verdicts == {"none", "completed", "cancelled", "failed"}
Places(b) == DOMAIN Book[b].chunks
ChunkNow == [reader : Voiced, voice : Voiced, synced : BOOLEAN, tuned : BOOLEAN,
             sel : NoResult .. MaxJobs]
AudioOf(b) == [chunks : [Places(b) -> ChunkNow], combined : Seq(Int), isSync : BOOLEAN]
IsStore(st) == st = [b \in Boxes |-> st[b]] /\ \A b \in Boxes : st[b] \in AudioOf(b)
IsParts(pt) == pt = [b \in Boxes |-> pt[b]] /\ \A b \in Boxes : pt[b] \in [Places(b) -> PartStates]

Types ==
  /\ IsStore(db) /\ IsStore(mem)
  /\ dbSpreads \subseteq Spreads /\ memSpreads \subseteq Spreads
  /\ phase \in Phases
  /\ scope \in Seq(Spreads) /\ pos \in 1 .. Len(scope) + 1
  /\ told \in [Spreads -> Marks] /\ box \in [Boxes -> BoxStates] /\ IsParts(part)
  /\ spread \in [dirty : BOOLEAN, failed : SUBSET Named]
  /\ tally \in [updated : Int, failed : Int, chunks : Int]
  /\ job \in [count : 0 .. MaxJobs, cancel : BOOLEAN, verdict : Verdicts]
  /\ edits \in 0 .. MaxEdits
  /\ hist \in [harmed : SUBSET Boxes, unvoiced : SUBSET Boxes, touched : SUBSET Boxes]

-----------------------------------------------------------------------------
(* The data                                                                *)

LEMMA PlacesShape == \A b \in Boxes : \E n \in Nat : Places(b) = 1 .. n
BY BookAssumption DEF Places

LEMMA PlacesFinite == \A b \in Boxes : IsFiniteSet(Places(b))
<1> SUFFICES ASSUME NEW b \in Boxes PROVE IsFiniteSet(Places(b))
  OBVIOUS
<1>1. PICK n \in Nat : Places(b) = 1 .. n
  BY PlacesShape
<1> QED BY <1>1, FS_Interval

LEMMA BookIsStore == IsStore(Book)
<1>1. Chunks \subseteq ChunkNow
  BY CapsAssumption DEF Chunks, ChunkNow, NoResult
<1>2. ASSUME NEW b \in Boxes PROVE Book[b] \in AudioOf(b)
  <2>1. Book[b] \in [chunks : Seq(Chunks), combined : Seq(Nat), isSync : BOOLEAN]
    BY BookAssumption
  <2>2. Book[b].chunks \in [Places(b) -> Chunks]
    <3>1. Book[b].chunks \in Seq(Chunks)
      BY <2>1
    <3> QED BY <3>1 DEF Places
  <2>3. Book[b].combined \in Seq(Int)
    BY <2>1
  <2>4. Book[b].chunks \in [Places(b) -> ChunkNow]
    BY <1>1, <2>2
  <2> QED BY <2>1, <2>3, <2>4 DEF AudioOf
<1> QED BY <1>2, BookAssumption DEF IsStore

LEMMA StoreUpdate ==
  ASSUME NEW st, IsStore(st), NEW b \in Boxes, NEW a \in AudioOf(b)
  PROVE  IsStore([st EXCEPT ![b] = a])
BY DEF IsStore

LEMMA PartsUpdate ==
  ASSUME NEW pt, IsParts(pt), NEW b \in Boxes, NEW p \in [Places(b) -> PartStates]
  PROVE  IsParts([pt EXCEPT ![b] = p])
BY DEF IsParts

LEMMA SilentIsParts == IsParts(Silent)
BY DEF IsParts, Silent, Places, PartStates

\* The first of a list that satisfies a condition.
LEMMA FirstIsHit ==
  ASSUME NEW hits \in SUBSET (DOMAIN Voices), hits # {}
  PROVE  First(hits) \in hits /\ \A m \in hits : First(hits) <= m
<1>1. PICK n \in Nat : DOMAIN Voices = 1 .. n
  BY ShapeAssumption
<1>2. IsFiniteSet(hits)
  BY <1>1, FS_Interval, FS_Subset
<1>3. hits \in SUBSET Int
  BY <1>1
<1>4. \E n_1 \in hits : \A m \in hits : n_1 <= m
  BY <1>2, <1>3, LeastExists
<1> QED BY <1>4 DEF First

LEMMA VoiceType ==
  ASSUME NEW c, c.voice \in Voiced
  PROVE  ResolveVoice(c) \in Voiced /\ VoiceFor(c) \in Voiced
<1> DEFINE reader == IF c.reader # None THEN c.reader
                     ELSE IF VoiceToReader(c.voice) # None THEN VoiceToReader(c.voice)
                     ELSE "narrator"
           entries == {n \in DOMAIN Voices : Voices[n].key = reader /\ Voices[n].enabled}
<1>1. ResolveVoice(c) = IF entries = {} THEN None ELSE Voices[First(entries)].voice
  BY DEF ResolveVoice
<1>2. entries # {} => Voices[First(entries)].voice \in Voiced
  <2> SUFFICES ASSUME entries # {} PROVE Voices[First(entries)].voice \in Voiced
    OBVIOUS
  <2>1. First(entries) \in DOMAIN Voices
    BY FirstIsHit
  <2> DEFINE E == [key : STRING, voice : Voiced, enabled : BOOLEAN]
  <2>2. Voices \in Seq(E)
    BY ShapeAssumption
  <2>3. \A n \in DOMAIN Voices : Voices[n] \in E
    <3> HIDE DEF E
    <3> QED BY <2>2
  <2> QED BY <2>1, <2>3
<1> HIDE DEF entries
<1>3. ResolveVoice(c) \in Voiced
  BY <1>1, <1>2 DEF Voiced
<1> QED BY <1>3 DEF VoiceFor

LEMMA RenarratedType ==
  ASSUME Types, NEW b \in Boxes
  PROVE  Renarrated(b) \in [Places(b) -> ChunkNow]
<1>1. mem[b].chunks \in [Places(b) -> ChunkNow]
  BY DEF Types, IsStore, AudioOf
<1>2. job.count \in NoResult .. MaxJobs
  BY CapsAssumption DEF Types, NoResult
<1>3. ASSUME NEW i \in Places(b)
      PROVE  LET c == mem[b].chunks[i]
             IN  [c EXCEPT !.voice = VoiceFor(c), !.synced = TRUE, !.sel = job.count] \in ChunkNow
  <2>1. mem[b].chunks[i] \in ChunkNow
    BY <1>1
  <2>2. VoiceFor(mem[b].chunks[i]) \in Voiced
    BY <2>1, VoiceType DEF ChunkNow
  <2> QED BY <1>2, <2>1, <2>2 DEF ChunkNow
<1> QED BY <1>1, <1>3 DEF Renarrated

LEMMA CombinedType ==
  ASSUME NEW b \in Boxes, NEW a \in AudioOf(b)
  PROVE  Combined(a) \in AudioOf(b)
<1>1. PICK n \in Nat : Places(b) = 1 .. n
  BY PlacesShape
<1>2. a.chunks \in [1 .. n -> ChunkNow]
  BY <1>1 DEF AudioOf
<1>3. Selected(a) \in [1 .. n -> Int]
  BY <1>2, CapsAssumption DEF Selected, ChunkNow, NoResult
<1>4. Selected(a) \in Seq(Int)
  BY <1>3
<1>5. (\A i \in DOMAIN a.chunks : a.chunks[i].synced /\ a.chunks[i].tuned) \in BOOLEAN
  OBVIOUS
<1> QED BY <1>4, <1>5 DEF Combined, AudioOf

\* The spreads that need work, each once.
LEMMA ScopeType ==
  ASSUME NEW store, NEW spreads \in SUBSET Spreads
  PROVE  /\ NeedyScope(store, spreads) \in Seq(Spreads)
         /\ \A m, n \in DOMAIN NeedyScope(store, spreads) :
              m < n => NeedyScope(store, spreads)[m] # NeedyScope(store, spreads)[n]
<1> DEFINE S == {s \in spreads : \E b \in BoxesOf(s) : DirtyChunks(b, store) # {}}
<1>1. S \in SUBSET Spreads /\ S \in SUBSET Int
  <2>1. S \in SUBSET Spreads
    OBVIOUS
  <2>2. Spreads \in SUBSET Int
    BY ShapeAssumption
  <2> HIDE DEF S
  <2> QED BY <2>1, <2>2
<1>2. IsFiniteSet(S)
  BY <1>1, ShapeAssumption, FS_Subset
<1>3. NeedyScope(store, spreads) = Ascending(S)
  BY DEF NeedyScope
<1> HIDE DEF S
<1>4. \E f \in [1 .. Cardinality(S) -> S] : \A i, j \in 1 .. Cardinality(S) : i < j => f[i] < f[j]
  BY <1>1, <1>2, Ascends
<1>5. /\ Ascending(S) \in [1 .. Cardinality(S) -> S]
      /\ \A i, j \in 1 .. Cardinality(S) : i < j => Ascending(S)[i] < Ascending(S)[j]
  BY <1>4 DEF Ascending
<1>6. Cardinality(S) \in Nat
  BY <1>2, FS_CardinalityType
<1>7. Ascending(S) \in Seq(Spreads)
  <2>1. Ascending(S) \in [1 .. Cardinality(S) -> Spreads]
    BY <1>1, <1>5
  <2> QED BY <1>6, <2>1
<1>8. ASSUME NEW m \in 1 .. Cardinality(S), NEW n \in 1 .. Cardinality(S), m < n
      PROVE  Ascending(S)[m] # Ascending(S)[n]
  <2>1. Ascending(S)[m] \in Int /\ Ascending(S)[m] < Ascending(S)[n]
    BY <1>1, <1>5, <1>8
  <2> QED BY <2>1
<1>9. DOMAIN Ascending(S) = 1 .. Cardinality(S)
  BY <1>5
<1> QED BY <1>3, <1>7, <1>8, <1>9

-----------------------------------------------------------------------------
(* What the longer steps do                                                *)

Renewed(b) == [mem[b] EXCEPT !.chunks = Renarrated(b)]

\* All narrations of the box are in but the one that comes in now.
Gathers(b, i) ==
  box[b] = "narrating" /\ \A k \in Places(b) : k = i \/ part[b][k] \in {"none", "said"}

Counted ==
  /\ tally' \in [updated : Int, failed : Int, chunks : Int]
  /\ tally'.updated = tally.updated /\ tally'.failed = tally.failed

CombinesAtOnce(b) ==
  /\ mem' = [mem EXCEPT ![b] = Combined(Renewed(b))]
  /\ box' = [box EXCEPT ![b] = "combined"]
  /\ spread' = [spread EXCEPT !.dirty = TRUE]
  /\ hist' = hist
GoesToFetch(b) ==
  /\ mem' = [mem EXCEPT ![b] = Renewed(b)]
  /\ box' = [box EXCEPT ![b] = "fetching"]
  /\ UNCHANGED <<spread, hist>>
StaysMute(b) ==
  /\ mem' = [mem EXCEPT ![b] = Renewed(b)]
  /\ box' = [box EXCEPT ![b] = "failed"]
  /\ spread' = Failing(b, spread)
  /\ hist' = [hist EXCEPT !.harmed = @ \cup {b}]

LEMMA NarratedStep ==
  ASSUME Types, NEW b \in Boxes, NEW i \in Places(b), Narrated(b, i)
  PROVE  /\ part[b][i] = "talking" /\ part' = [part EXCEPT ![b][i] = "said"]
         /\ UNCHANGED <<db, dbSpreads, memSpreads, phase, scope, pos, told, job, edits>>
         /\ \/ UNCHANGED <<mem, box, spread, tally, hist>>
            \/ /\ Gathers(b, i) /\ Counted
               /\ CombinesAtOnce(b) \/ GoesToFetch(b) \/ StaysMute(b)
<1> DEFINE said == [part EXCEPT ![b][i] = "said"]
           N == {k \in DOMAIN said[b] : said[b][k] = "said"}
<1>1. part[b] \in [Places(b) -> PartStates] /\ DOMAIN said[b] = Places(b)
  BY DEF Types, IsParts
<1>2. Cardinality(N) \in Nat
  <2>1. N \in SUBSET Places(b)
    BY <1>1
  <2> QED BY <2>1, PlacesFinite, FS_Subset, FS_CardinalityType
<1>3. ASSUME tally' = [tally EXCEPT !.chunks = @ + Cardinality(N)] PROVE Counted
  <2> HIDE DEF N
  <2> QED BY <1>2, <1>3 DEF Counted, Types
<1>4. ASSUME box[b] = "narrating", \A k \in DOMAIN said[b] : said[b][k] \in {"none", "said"}
      PROVE  Gathers(b, i)
  BY <1>1, <1>4 DEF Gathers, Types, IsParts
<1> QED BY <1>3, <1>4 DEF Narrated, CombinesAtOnce, GoesToFetch, StaysMute, Renewed

LEMMA RenewedType ==
  ASSUME Types, NEW b \in Boxes
  PROVE  Renewed(b) \in AudioOf(b) /\ Combined(Renewed(b)) \in AudioOf(b)
<1>1. mem[b] \in AudioOf(b)
  BY DEF Types, IsStore
<1>2. Renewed(b) \in AudioOf(b)
  BY <1>1, RenarratedType DEF Renewed, AudioOf
<1> QED BY <1>2, CombinedType

-----------------------------------------------------------------------------
(* Types                                                                   *)

LEMMA TypesInit == Init => Types
BY BookIsStore, SilentIsParts, CapsAssumption
   DEF Init, Types, Phases, Marks, BoxStates, Idle, Fresh, Verdicts

LEMMA FailingType ==
  ASSUME Types, NEW b \in Boxes
  PROVE  Failing(b, spread) \in [dirty : BOOLEAN, failed : SUBSET Named]
BY DEF Types, Failing

LEMMA TypesOfReport ==
  ASSUME Types, NEW marks \in [Spreads -> Marks], NEW next \in Phases, Report(marks, next)
  PROVE  told' \in [Spreads -> Marks] /\ phase' \in Phases /\ job' \in
           [count : 0 .. MaxJobs, cancel : BOOLEAN, verdict : Verdicts]
BY DEF Types, Report, End, Phases, Verdicts

LEMMA TypesOfClose ==
  ASSUME Types, pos <= Len(scope), NEW mark \in Marks, Close(mark)
  PROVE  Types'
<1>1. scope[pos] \in Spreads
  BY DEF Types
<1>2. [told EXCEPT ![scope[pos]] = mark] \in [Spreads -> Marks]
  BY <1>1 DEF Types
<1>3. "next" \in Phases
  BY DEF Phases
<1>4. told' \in [Spreads -> Marks] /\ phase' \in Phases /\ job' \in
        [count : 0 .. MaxJobs, cancel : BOOLEAN, verdict : Verdicts]
  BY <1>2, <1>3, TypesOfReport DEF Close
<1>5. tally' \in [updated : Int, failed : Int, chunks : Int] /\ pos' \in 1 .. Len(scope) + 1
  BY DEF Types, Close
<1> QED BY <1>4, <1>5 DEF Types, Close

LEMMA TypesStep ==
  ASSUME Types, phase \in InSpread => pos <= Len(scope), [Next]_vars
  PROVE  Types'
<1> USE DEF work
<1>1. CASE Enqueue
  <2>1. scope' \in Seq(Spreads) /\ pos' \in 1 .. Len(scope') + 1
    BY <1>1, ScopeType DEF Enqueue, Types
  <2>2. told' \in [Spreads -> Marks]
    BY <1>1 DEF Enqueue, Marks
  <2>3. job' \in [count : 0 .. MaxJobs, cancel : BOOLEAN, verdict : Verdicts]
    BY <1>1, CapsAssumption DEF Enqueue, Types, Verdicts
  <2>4. box' \in [Boxes -> BoxStates] /\ IsParts(part')
    BY <1>1, SilentIsParts DEF Enqueue, Idle, BoxStates
  <2>5. spread' \in [dirty : BOOLEAN, failed : SUBSET Named] /\ phase' \in Phases
    BY <1>1 DEF Enqueue, Fresh, Phases
  <2>6. hist' \in [harmed : SUBSET Boxes, unvoiced : SUBSET Boxes, touched : SUBSET Boxes]
    BY <1>1 DEF Enqueue, Types
  <2>7. tally' \in [updated : Int, failed : Int, chunks : Int]
    BY <1>1 DEF Enqueue
  <2> QED BY <1>1, <2>1, <2>2, <2>3, <2>4, <2>5, <2>6, <2>7 DEF Enqueue, Types
<1>2. CASE Load
  <2>1. scope' \in Seq(Spreads) /\ pos' \in 1 .. Len(scope') + 1
    BY <1>2, ScopeType DEF Load, Types
  <2>2. IsStore(mem') /\ memSpreads' \subseteq Spreads
    BY <1>2 DEF Load, Types
  <2>3. /\ phase' \in Phases /\ job' \in [count : 0 .. MaxJobs, cancel : BOOLEAN, verdict : Verdicts]
        /\ hist' \in [harmed : SUBSET Boxes, unvoiced : SUBSET Boxes, touched : SUBSET Boxes]
    BY <1>2 DEF Load, Types, End, Phases, Verdicts
  <2> QED BY <1>2, <2>1, <2>2, <2>3 DEF Load, Types
<1>3. CASE NextSpread
  <2>1. scope[pos] \in Spreads
    BY <1>3 DEF NextSpread, Types
  <2>2. CASE job.cancel
    BY <1>3, <2>2 DEF NextSpread, Types, End, Phases, Verdicts
  <2>3. CASE ~job.cancel
    <3> DEFINE next == IF scope[pos] \in memSpreads THEN "work" ELSE "missing"
    <3>1. [told EXCEPT ![scope[pos]] = "running"] \in [Spreads -> Marks] /\ next \in Phases
      BY <2>1 DEF Types, Marks, Phases
    <3>2. /\ told' \in [Spreads -> Marks] /\ phase' \in Phases
          /\ job' \in [count : 0 .. MaxJobs, cancel : BOOLEAN, verdict : Verdicts]
      <4>1. Report([told EXCEPT ![scope[pos]] = "running"], next)
        BY <1>3, <2>3 DEF NextSpread
      <4> HIDE DEF next
      <4> QED BY <3>1, <4>1, TypesOfReport
    <3>3. box' \in [Boxes -> BoxStates]
      BY <1>3, <2>3 DEF NextSpread, BoxStates
    <3>4. IsParts(part')
      <4>1. part' = Silent
        BY <1>3, <2>3 DEF NextSpread
      <4> QED BY <4>1, SilentIsParts
    <3>5. spread' \in [dirty : BOOLEAN, failed : SUBSET Named]
      <4>1. spread' = Fresh
        BY <1>3, <2>3 DEF NextSpread
      <4> QED BY <4>1 DEF Fresh
    <3> QED BY <1>3, <2>3, <3>2, <3>3, <3>4, <3>5 DEF NextSpread, Types
  <2> QED BY <2>2, <2>3
<1>4. CASE SpreadMissing \/ Unsaved \/ Settle
  <2>1. pos <= Len(scope) /\ \E mark \in Marks : Close(mark)
    BY <1>4 DEF SpreadMissing, Unsaved, Settle, InSpread, Marks
  <2> QED BY <2>1, TypesOfClose
<1>5. ASSUME NEW b \in Boxes, Take(b) PROVE Types'
  <2> DEFINE p == [i \in Places(b) |-> IF i \in DirtyChunks(b, mem) THEN "queued" ELSE "none"]
  <2>1. p \in [Places(b) -> PartStates]
    BY DEF PartStates
  <2>2. part' = [part EXCEPT ![b] = p]
    BY <1>5 DEF Take, Types, IsParts
  <2>3. IsParts(part')
    <3> HIDE DEF p
    <3> QED BY <2>1, <2>2, PartsUpdate DEF Types
  <2>4. box' \in [Boxes -> BoxStates]
    BY <1>5 DEF Take, Types, BoxStates
  <2> QED BY <1>5, <2>3, <2>4 DEF Take, Types
<1>6. ASSUME NEW b \in Boxes, FetchChunks(b) PROVE Types'
  BY <1>6 DEF FetchChunks, Types, BoxStates
<1>7. ASSUME NEW b \in Boxes, FetchFails(b) \/ CombineFails(b) PROVE Types'
  <2>1. Uncombined(b)
    BY <1>7 DEF FetchFails, CombineFails
  <2>2. /\ box' \in [Boxes -> BoxStates]
        /\ spread' \in [dirty : BOOLEAN, failed : SUBSET Named]
        /\ hist' \in [harmed : SUBSET Boxes, unvoiced : SUBSET Boxes, touched : SUBSET Boxes]
    BY <2>1, FailingType DEF Uncombined, Types, BoxStates
  <2> QED BY <2>1, <2>2 DEF Uncombined, Types
<1>8. ASSUME NEW b \in Boxes, Combine(b) PROVE Types'
  <2>1. Combined(mem[b]) \in AudioOf(b)
    BY CombinedType DEF Types, IsStore
  <2>2. IsStore(mem')
    BY <1>8, <2>1, StoreUpdate DEF Combine, Types
  <2>3. /\ box' \in [Boxes -> BoxStates]
        /\ spread' \in [dirty : BOOLEAN, failed : SUBSET Named]
    BY <1>8 DEF Combine, Types, BoxStates
  <2> QED BY <1>8, <2>2, <2>3 DEF Combine, Types
<1>9. ASSUME NEW b \in Boxes, NEW i \in Places(b), Speak(b, i) PROVE Types'
  <2>1. IsParts(part')
    BY <1>9 DEF Speak, Types, IsParts, PartStates
  <2> QED BY <1>9, <2>1 DEF Speak, Types
<1>10. ASSUME NEW b \in Boxes, NEW i \in Places(b), Narrated(b, i) PROVE Types'
  <2>1. IsParts(part')
    BY <1>10, NarratedStep DEF Types, IsParts, PartStates
  <2>2. CASE UNCHANGED <<mem, box, spread, tally, hist>>
    BY <1>10, <2>1, <2>2, NarratedStep DEF Types
  <2>3. CASE Counted /\ (CombinesAtOnce(b) \/ GoesToFetch(b) \/ StaysMute(b))
    <3>1. \E a \in AudioOf(b) : mem' = [mem EXCEPT ![b] = a]
      BY <2>3, RenewedType DEF CombinesAtOnce, GoesToFetch, StaysMute
    <3>2. IsStore(mem')
      <4>1. PICK a \in AudioOf(b) : mem' = [mem EXCEPT ![b] = a]
        BY <3>1
      <4>2. IsStore([mem EXCEPT ![b] = a])
        BY StoreUpdate DEF Types
      <4> QED BY <4>1, <4>2
    <3>3. /\ box' \in [Boxes -> BoxStates]
          /\ spread' \in [dirty : BOOLEAN, failed : SUBSET Named]
          /\ hist' \in [harmed : SUBSET Boxes, unvoiced : SUBSET Boxes, touched : SUBSET Boxes]
      <4>1. CASE CombinesAtOnce(b)
        BY <4>1 DEF CombinesAtOnce, Types, BoxStates
      <4>2. CASE GoesToFetch(b)
        BY <4>2 DEF GoesToFetch, Types, BoxStates
      <4>3. CASE StaysMute(b)
        BY <4>3, FailingType DEF StaysMute, Types, BoxStates
      <4> QED BY <2>3, <4>1, <4>2, <4>3
    <3>4. UNCHANGED <<db, dbSpreads, memSpreads, phase, scope, pos, told, job, edits>>
      BY <1>10, NarratedStep
    <3> QED BY <2>1, <2>3, <3>2, <3>3, <3>4 DEF Types, Counted
  <2> QED BY <1>10, <2>2, <2>3, NarratedStep
<1>11. ASSUME NEW b \in Boxes, NEW i \in Places(b), NarrationFails(b, i) PROVE Types'
  <2>1. IsParts(part')
    BY <1>11 DEF NarrationFails, Types, IsParts, PartStates
  <2>2. /\ box' \in [Boxes -> BoxStates]
        /\ spread' \in [dirty : BOOLEAN, failed : SUBSET Named]
        /\ hist' \in [harmed : SUBSET Boxes, unvoiced : SUBSET Boxes, touched : SUBSET Boxes]
    <3>1. CASE box[b] = "narrating"
      <4>1. /\ box' = [box EXCEPT ![b] = "failed"]
            /\ spread' = Failing(b, spread)
            /\ hist' = [hist EXCEPT !.unvoiced = @ \cup {b}]
        BY <1>11, <3>1 DEF NarrationFails
      <4> QED BY <4>1, FailingType DEF Types, BoxStates
    <3>2. CASE box[b] # "narrating"
      BY <1>11, <3>2 DEF NarrationFails, Types
    <3> QED BY <3>1, <3>2
  <2> QED BY <1>11, <2>1, <2>2 DEF NarrationFails, Types
<1>12. ASSUME NEW b \in Boxes, NEW i \in Places(b), Edit(b, i) PROVE Types'
  <2>1. db[b] \in AudioOf(b) /\ db[b].chunks[i] \in ChunkNow
    BY DEF Types, IsStore, AudioOf
  <2>2. [db[b] EXCEPT !.chunks[i].synced = FALSE] \in AudioOf(b)
    BY <2>1 DEF AudioOf, ChunkNow
  <2>3. db' = [db EXCEPT ![b] = [db[b] EXCEPT !.chunks[i].synced = FALSE]]
    BY <1>12 DEF Edit, Types, IsStore
  <2>4. IsStore(db')
    BY <2>2, <2>3, StoreUpdate DEF Types
  <2>5. edits' \in 0 .. MaxEdits
    BY <1>12, CapsAssumption DEF Edit, Types
  <2>6. hist' \in [harmed : SUBSET Boxes, unvoiced : SUBSET Boxes, touched : SUBSET Boxes]
    BY <1>12 DEF Edit, Types
  <2> QED BY <1>12, <2>4, <2>5, <2>6 DEF Edit, Types
<1>13. CASE Persist
  BY <1>13 DEF Persist, Types, Phases
<1>14. CASE Finish
  BY <1>14 DEF Finish, Types, End, Phases, Verdicts
<1>15. CASE RequestCancel
  BY <1>15 DEF RequestCancel, Types
<1>16. ASSUME NEW s \in Spreads, RemoveSpread(s) PROVE Types'
  <2>1. edits' \in 0 .. MaxEdits
    BY <1>16, CapsAssumption DEF RemoveSpread, Types
  <2>2. hist' \in [harmed : SUBSET Boxes, unvoiced : SUBSET Boxes, touched : SUBSET Boxes]
    BY <1>16 DEF RemoveSpread, Types, BoxesOf
  <2> QED BY <1>16, <2>1, <2>2 DEF RemoveSpread, Types
<1>17. CASE UNCHANGED vars
  BY <1>17 DEF vars, Types
<1>18. \A b \in Boxes : DOMAIN part[b] = Places(b)
  BY DEF Types, IsParts
<1> QED BY <1>1, <1>2, <1>3, <1>4, <1>5, <1>6, <1>7, <1>8, <1>9, <1>10, <1>11, <1>12, <1>13,
           <1>14, <1>15, <1>16, <1>17, <1>18 DEF Next

-----------------------------------------------------------------------------
(* The course of a job                                                     *)

\* The spread has been worked on.
Visited(s) == \E n \in 1 .. pos - 1 : scope[n] = s

\* The spreads of the scope differ, only those behind the position are done, and the tallies
\* count them.
Course ==
  /\ \A m, n \in DOMAIN scope : m < n => scope[m] # scope[n]
  /\ phase = "queued" => pos = 1 /\ box = Idle
  /\ phase \in InSpread => pos <= Len(scope)
  /\ \A s \in Spreads : told[s] = "done" => Visited(s)
  /\ phase # "idle" => /\ tally.updated = Cardinality({s \in Spreads : told[s] = "done"})
                       /\ tally.updated + tally.failed = pos - 1

LEMMA CourseInit == Init => Course
BY DEF Init, Course, InSpread

LEMMA NotVisitedYet ==
  ASSUME Types, Course, pos <= Len(scope)
  PROVE  scope[pos] \in Spreads /\ ~Visited(scope[pos])
<1>1. pos \in DOMAIN scope /\ DOMAIN scope = 1 .. Len(scope)
  BY DEF Types
<1>2. scope[pos] \in Spreads
  BY <1>1 DEF Types
<1> QED BY <1>1, <1>2 DEF Types, Course, Visited

LEMMA CourseKept ==
  ASSUME Types, Course, UNCHANGED <<scope, pos, told>>,
         tally'.updated = tally.updated, tally'.failed = tally.failed,
         phase' \in {phase, "idle"} \/ (phase \in InSpread /\ phase' \in InSpread),
         phase = "queued" => box' = box
  PROVE  Course'
<1>1. \A s : Visited(s)' <=> Visited(s)
  BY DEF Visited
<1>2. \A s \in Spreads : told'[s] = told[s]
  OBVIOUS
<1>3. "queued" \notin InSpread /\ "idle" \notin InSpread
  BY DEF InSpread
<1> QED BY <1>1, <1>2, <1>3 DEF Course

LEMMA CourseOfClose ==
  ASSUME Types, Course, phase \in InSpread, NEW mark \in {"done", "failed"}, Close(mark)
  PROVE  Course'
<1> DEFINE s0 == scope[pos]
           done == {s \in Spreads : told[s] = "done"}
<1>1. pos <= Len(scope) /\ s0 \in Spreads /\ ~Visited(s0)
  BY NotVisitedYet DEF Course
<1>2. pos' = pos + 1 /\ scope' = scope /\ pos \in Nat
  BY DEF Close, Types
<1>3. \A s : Visited(s) \/ s = s0 => Visited(s)'
  BY <1>1, <1>2 DEF Visited, Types
<1>4. phase' \in {"next", "idle"}
  BY DEF Close, Report, End
<1>5. \/ told' = told /\ phase' = "idle"
      \/ told' = [told EXCEPT ![s0] = mark] /\ phase' = "next"
  <2>1. Report([told EXCEPT ![s0] = mark], "next")
    BY DEF Close
  <2> HIDE DEF s0
  <2> QED BY <2>1 DEF Report, End
<1>6. \A s \in Spreads : told'[s] = "done" => Visited(s)'
  BY <1>3, <1>5 DEF Types, Course
<1>7. ASSUME phase' = "next"
      PROVE  /\ tally'.updated = Cardinality({s \in Spreads : told'[s] = "done"})
             /\ tally'.updated + tally'.failed = pos' - 1
  <2>1. s0 \notin done
    BY <1>1 DEF Course
  <2>2. IsFiniteSet(done) /\ Cardinality(done) \in Nat
    BY ShapeAssumption, FS_Subset, FS_CardinalityType
  <2>3. /\ tally.updated = Cardinality(done) /\ tally.updated + tally.failed = pos - 1
        /\ tally.updated \in Int /\ tally.failed \in Int
    BY DEF Course, InSpread, Types
  <2>4. told' = [told EXCEPT ![s0] = mark]
    BY <1>5, <1>7
  <2>5. CASE mark = "done"
    <3>1. {s \in Spreads : told'[s] = "done"} = done \cup {s0}
      BY <1>1, <2>4, <2>5 DEF Types
    <3>2. Cardinality(done \cup {s0}) = Cardinality(done) + 1
      BY <2>1, <2>2, FS_AddElement
    <3>3. tally'.updated = tally.updated + 1 /\ tally'.failed = tally.failed
      BY <2>5 DEF Close, Types
    <3>4. tally'.updated = Cardinality(done \cup {s0})
      <4> HIDE DEF done, s0
      <4> QED BY <2>3, <3>2, <3>3
    <3>5. tally'.updated + tally'.failed = pos' - 1
      BY <1>2, <2>3, <3>3
    <3> QED BY <3>1, <3>4, <3>5
  <2>6. CASE mark = "failed"
    <3>1. {s \in Spreads : told'[s] = "done"} = done
      BY <1>1, <2>1, <2>4, <2>6 DEF Types
    <3>2. tally'.updated = tally.updated /\ tally'.failed = tally.failed + 1
      BY <2>6 DEF Close, Types
    <3>3. tally'.updated + tally'.failed = pos' - 1
      BY <1>2, <2>3, <3>2
    <3> QED BY <2>3, <3>1, <3>2, <3>3
  <2> QED BY <2>5, <2>6
<1>8. \A m, n \in DOMAIN scope' : m < n => scope'[m] # scope'[n]
  BY <1>2 DEF Course
<1> QED BY <1>4, <1>6, <1>7, <1>8 DEF Course, InSpread

LEMMA CourseStep ==
  ASSUME Types, Course, [Next]_vars
  PROVE  Course'
<1> USE DEF work
<1>1. CASE Enqueue
  <2>1. \A m, n \in DOMAIN scope' : m < n => scope'[m] # scope'[n]
    BY <1>1, ScopeType DEF Enqueue, Types
  <2>2. \A s \in Spreads : told'[s] # "done"
    BY <1>1 DEF Enqueue
  <2>3. {s \in Spreads : told'[s] = "done"} = {}
    BY <2>2
  <2>4. pos' = 1 /\ box' = Idle /\ phase' = "queued" /\ tally'.updated = 0 /\ tally'.failed = 0
    BY <1>1 DEF Enqueue
  <2>5. Cardinality({s \in Spreads : told'[s] = "done"}) = 0
    BY <2>3, FS_EmptySet
  <2>6. tally'.updated + tally'.failed = pos' - 1
    BY <2>4
  <2> QED BY <2>1, <2>2, <2>4, <2>5, <2>6 DEF Course, InSpread
<1>2. CASE Load
  <2>1. UNCHANGED <<pos, told, tally, box>> /\ phase = "queued" /\ phase' \in {"idle", "next"}
    BY <1>2 DEF Load, End
  <2>2. \A m, n \in DOMAIN scope' : m < n => scope'[m] # scope'[n]
    BY <1>2, ScopeType DEF Load, Types, Course
  <2>3. pos = 1 /\ \A s \in Spreads : told[s] # "done"
    BY <2>1 DEF Course, Visited
  <2> QED BY <2>1, <2>2, <2>3 DEF Course, InSpread
<1>3. CASE NextSpread
  <2>1. CASE job.cancel
    <3>1. UNCHANGED <<scope, pos, told, tally, box>> /\ phase' = "idle"
      BY <1>3, <2>1 DEF NextSpread, End
    <3> QED BY <3>1, CourseKept
  <2>2. CASE ~job.cancel
    <3>1. UNCHANGED <<scope, pos, tally>> /\ phase = "next" /\ pos <= Len(scope)
      BY <1>3, <2>2 DEF NextSpread
    <3>2. \/ told' = told /\ phase' = "idle"
          \/ told' = [told EXCEPT ![scope[pos]] = "running"] /\ phase' \in InSpread
      BY <1>3, <2>2 DEF NextSpread, Report, End, InSpread
    <3>3. scope[pos] \in Spreads /\ ~Visited(scope[pos]) /\ \A s : Visited(s)' <=> Visited(s)
      BY <3>1, NotVisitedYet DEF Visited
    <3>4. told[scope[pos]] # "done"
      BY <3>3 DEF Course
    <3>5. \A s \in Spreads : told'[s] = "done" <=> told[s] = "done"
      BY <3>2, <3>3, <3>4 DEF Types
    <3>6. {s \in Spreads : told'[s] = "done"} = {s \in Spreads : told[s] = "done"}
      BY <3>5
    <3> QED BY <3>1, <3>2, <3>3, <3>5, <3>6 DEF Course, InSpread
  <2> QED BY <2>1, <2>2
<1>4. CASE SpreadMissing \/ Unsaved \/ Settle
  <2>1. phase \in InSpread /\ \E mark \in {"done", "failed"} : Close(mark)
    BY <1>4 DEF SpreadMissing, Unsaved, Settle, InSpread
  <2> QED BY <2>1, CourseOfClose
<1>5. ASSUME NEW b \in Boxes, Take(b) PROVE Course'
  BY <1>5, CourseKept DEF Take
<1>6. ASSUME NEW b \in Boxes, FetchChunks(b) \/ FetchFails(b) \/ Combine(b) \/ CombineFails(b)
      PROVE  Course'
  <2>1. phase # "queued"
    BY <1>6 DEF FetchChunks, FetchFails, Combine, CombineFails, Course, Idle
  <2> QED BY <1>6, <2>1, CourseKept DEF FetchChunks, FetchFails, Combine, CombineFails, Uncombined
<1>7. ASSUME NEW b \in Boxes, NEW i \in Places(b), Speak(b, i) PROVE Course'
  BY <1>7, CourseKept DEF Speak
<1>8. ASSUME NEW b \in Boxes, NEW i \in Places(b), Narrated(b, i) PROVE Course'
  <2>1. UNCHANGED <<scope, pos, told, phase>>
    BY <1>8, NarratedStep
  <2>2. tally'.updated = tally.updated /\ tally'.failed = tally.failed
    BY <1>8, NarratedStep DEF Counted
  <2>3. phase = "queued" => box' = box
    BY <1>8, NarratedStep DEF Gathers, Course, Idle
  <2> QED BY <2>1, <2>2, <2>3, CourseKept
<1>9. ASSUME NEW b \in Boxes, NEW i \in Places(b), NarrationFails(b, i) PROVE Course'
  <2>1. phase = "queued" => box' = box
    BY <1>9 DEF NarrationFails, Course, Idle
  <2> QED BY <1>9, <2>1, CourseKept DEF NarrationFails
<1>10. ASSUME NEW b \in Boxes, NEW i \in Places(b), Edit(b, i) PROVE Course'
  BY <1>10, CourseKept DEF Edit
<1>11. CASE Persist
  BY <1>11, CourseKept DEF Persist, InSpread
<1>12. CASE Finish
  BY <1>12, CourseKept DEF Finish, End
<1>13. CASE RequestCancel
  BY <1>13, CourseKept DEF RequestCancel
<1>14. ASSUME NEW s \in Spreads, RemoveSpread(s) PROVE Course'
  BY <1>14, CourseKept DEF RemoveSpread
<1>15. CASE UNCHANGED vars
  BY <1>15, CourseKept DEF vars
<1>16. \A b \in Boxes : DOMAIN part[b] = Places(b)
  BY DEF Types, IsParts
<1> QED BY <1>1, <1>2, <1>3, <1>4, <1>5, <1>6, <1>7, <1>8, <1>9, <1>10, <1>11, <1>12, <1>13,
           <1>14, <1>15, <1>16 DEF Next

-----------------------------------------------------------------------------
(* The tasks of the boxes                                                  *)

Busy == {"narrating", "fetching", "combining"}

\* A box has a task only while its spread is worked on, a box being narrated asks for the chunks
\* that need it and has lost none, and the spread remembers what its boxes came to.
Tasks ==
  /\ \A b \in Boxes : box[b] \in Busy => phase = "work"
  /\ phase \in InSpread => \A b \in Boxes : box[b] # "out" <=> SpreadOf[b] = scope[pos]
  /\ phase = "next" => \A b \in Boxes : box[b] # "out" => Visited(SpreadOf[b])
  /\ \A b \in Boxes : box[b] = "narrating" =>
       \A i \in Places(b) : /\ part[b][i] # "lost"
                            /\ part[b][i] # "none" <=> i \in DirtyChunks(b, mem)
  /\ \A b \in Boxes : box[b] = "combined" => spread.dirty
  /\ \A b \in Named : box[b] = "failed" => b \in spread.failed
  /\ phase \in {"settle", "unsaved"} => BoxesOver

LEMMA TasksInit == Init => Tasks
BY ShapeAssumption DEF Init, Tasks, Idle, Busy, InSpread

LEMMA DirtyIsLocal ==
  ASSUME NEW b, NEW s, NEW t, s[b] = t[b]
  PROVE  DirtyChunks(b, s) = DirtyChunks(b, t) /\ (Stale(b, s) <=> Stale(b, t))
BY DEF DirtyChunks, Stale

\* What a step of one box leaves alone.
OneBox(b, state) ==
  /\ phase = "work" /\ box' = [box EXCEPT ![b] = state]
  /\ UNCHANGED <<db, dbSpreads, memSpreads, phase, scope, pos, told, job, edits>>
  /\ \A d \in Boxes \ {b} : part'[d] = part[d] /\ mem'[d] = mem[d]
  /\ mem' = [d \in Boxes |-> mem'[d]]

Skips(b) ==
  /\ box[b] = "waiting" /\ OneBox(b, "skipped") /\ DirtyChunks(b, mem) = {}
  /\ UNCHANGED <<mem, spread, hist>>
Narrates(b) ==
  /\ box[b] = "waiting" /\ OneBox(b, "narrating") /\ UNCHANGED <<mem, spread, hist>>
  /\ part'[b] = [i \in Places(b) |-> IF i \in DirtyChunks(b, mem) THEN "queued" ELSE "none"]
AllIn(b) == box[b] = "narrating" /\ \A i \in Places(b) : part[b][i] \in {"none", "said", "talking"}
CombinesNow(b) ==
  /\ AllIn(b) /\ OneBox(b, "combined") /\ mem'[b] = Combined(Renewed(b))
  /\ spread' = [spread EXCEPT !.dirty = TRUE] /\ UNCHANGED hist
Fetches(b) ==
  /\ AllIn(b) /\ OneBox(b, "fetching") /\ mem'[b] = Renewed(b) /\ UNCHANGED <<spread, hist>>
Mute(b) ==
  /\ AllIn(b) /\ OneBox(b, "failed") /\ mem'[b] = Renewed(b)
  /\ spread' = Failing(b, spread) /\ hist' = [hist EXCEPT !.harmed = @ \cup {b}]
HasFetched(b) ==
  /\ box[b] = "fetching" /\ OneBox(b, "combining") /\ UNCHANGED <<mem, spread, hist>>
Combines(b) ==
  /\ box[b] = "combining" /\ OneBox(b, "combined") /\ mem'[b] = Combined(mem[b])
  /\ spread' = [spread EXCEPT !.dirty = TRUE] /\ UNCHANGED hist
Gives(b) ==
  /\ box[b] \in {"fetching", "combining"} /\ OneBox(b, "failed") /\ UNCHANGED mem
  /\ spread' = Failing(b, spread) /\ hist' = [hist EXCEPT !.harmed = @ \cup {b}]
Loses(b) ==
  /\ box[b] = "narrating" /\ OneBox(b, "failed") /\ UNCHANGED mem
  /\ \E i \in Places(b) : part[b][i] = "talking"
  /\ spread' = Failing(b, spread) /\ hist' = [hist EXCEPT !.unvoiced = @ \cup {b}]

BoxMoves(b) ==
  \/ Skips(b) \/ Narrates(b) \/ CombinesNow(b) \/ Fetches(b) \/ Mute(b)
  \/ HasFetched(b) \/ Combines(b) \/ Gives(b) \/ Loses(b)

\* A narration goes on without the box's task.
PartMoves(b, i, state) ==
  /\ part[b][i] \in {"queued", "talking"} /\ part' = [part EXCEPT ![b][i] = state]
  /\ state \in {"talking", "said"} \/ (state = "lost" /\ box[b] # "narrating")
  /\ UNCHANGED <<db, dbSpreads, mem, memSpreads, phase, scope, pos, told, box, spread, job, edits, hist>>

Rests ==
  UNCHANGED <<db, dbSpreads, mem, memSpreads, phase, scope, pos, told, box, part, spread, tally, hist>>

LEMMA StepKinds ==
  ASSUME Types, Tasks, [Next]_vars
  PROVE  \/ Enqueue \/ Load \/ NextSpread \/ SpreadMissing \/ Persist \/ Unsaved \/ Settle
         \/ Finish \/ Rests
         \/ \E b \in Boxes : BoxMoves(b)
         \/ \E b \in Boxes : \E i \in Places(b) : Edit(b, i)
         \/ \E b \in Boxes : \E i \in Places(b) :
              \E state \in {"talking", "said", "lost"} : PartMoves(b, i, state)
         \/ \E s \in Spreads : RemoveSpread(s)
<1> USE DEF work
<1>1. ASSUME NEW b \in Boxes, Take(b) PROVE Skips(b) \/ Narrates(b)
  <2>1. DOMAIN part[b] = Places(b) /\ box \in [Boxes -> BoxStates] /\ part = [d \in Boxes |-> part[d]]
    BY DEF Types, IsParts
  <2>2. part'[b] = [i \in Places(b) |-> IF i \in DirtyChunks(b, mem) THEN "queued" ELSE "none"]
    BY <1>1, <2>1 DEF Take
  <2>3. \A d \in Boxes \ {b} : part'[d] = part[d]
    BY <1>1, <2>1 DEF Take
  <2>4. OneBox(b, IF DirtyChunks(b, mem) = {} THEN "skipped" ELSE "narrating")
    BY <1>1, <2>3 DEF Take, OneBox, Types, IsStore
  <2> QED BY <1>1, <2>2, <2>4 DEF Take, Skips, Narrates
<1>2. ASSUME NEW b \in Boxes, FetchChunks(b) PROVE HasFetched(b)
  <2>1. phase = "work"
    BY <1>2 DEF FetchChunks, Tasks, Busy
  <2> QED BY <1>2, <2>1 DEF FetchChunks, HasFetched, OneBox, Types, IsStore
<1>3. ASSUME NEW b \in Boxes, FetchFails(b) \/ CombineFails(b) PROVE Gives(b)
  <2>1. phase = "work" /\ box[b] \in {"fetching", "combining"} /\ Uncombined(b)
    BY <1>3 DEF FetchFails, CombineFails, Tasks, Busy
  <2> QED BY <2>1 DEF Uncombined, Gives, OneBox, Types, IsStore
<1>4. ASSUME NEW b \in Boxes, Combine(b) PROVE Combines(b)
  <2>1. phase = "work"
    BY <1>4 DEF Combine, Tasks, Busy
  <2>2. mem'[b] = Combined(mem[b]) /\ \A d \in Boxes \ {b} : mem'[d] = mem[d]
    BY <1>4 DEF Combine, Types, IsStore
  <2>3. mem' = [d \in Boxes |-> mem'[d]]
    BY <1>4 DEF Combine, Types, IsStore
  <2> QED BY <1>4, <2>1, <2>2, <2>3 DEF Combine, Combines, OneBox
<1>5. ASSUME NEW b \in Boxes, NEW i \in Places(b), Speak(b, i)
      PROVE  PartMoves(b, i, "talking")
  BY <1>5 DEF Speak, PartMoves
<1>6. ASSUME NEW b \in Boxes, NEW i \in Places(b), Narrated(b, i)
      PROVE  PartMoves(b, i, "said") \/ BoxMoves(b)
  <2>1. CASE UNCHANGED <<mem, box, spread, tally, hist>>
    BY <1>6, <2>1, NarratedStep DEF PartMoves
  <2>2. CASE Gathers(b, i) /\ Counted /\ (CombinesAtOnce(b) \/ GoesToFetch(b) \/ StaysMute(b))
    <3>1. part[b][i] = "talking"
      BY <1>6, NarratedStep
    <3>2. AllIn(b) /\ phase = "work"
      BY <2>2, <3>1 DEF Gathers, AllIn, Tasks, Busy
    <3>3. \A d \in Boxes \ {b} : part'[d] = part[d] /\ mem'[d] = mem[d]
      BY <1>6, <2>2, NarratedStep
         DEF CombinesAtOnce, GoesToFetch, StaysMute, Types, IsStore, IsParts
    <3>4. mem' = [d \in Boxes |-> mem'[d]]
      BY <2>2 DEF CombinesAtOnce, GoesToFetch, StaysMute, Types, IsStore
    <3>5. UNCHANGED <<db, dbSpreads, memSpreads, phase, scope, pos, told, job, edits>>
      BY <1>6, NarratedStep
    <3>6. CASE CombinesAtOnce(b)
      <4>1. mem'[b] = Combined(Renewed(b))
        BY <3>6 DEF CombinesAtOnce, Types, IsStore
      <4> QED BY <3>2, <3>3, <3>4, <3>5, <3>6, <4>1 DEF CombinesAtOnce, CombinesNow, OneBox, BoxMoves
    <3>7. CASE GoesToFetch(b)
      <4>1. mem'[b] = Renewed(b)
        BY <3>7 DEF GoesToFetch, Types, IsStore
      <4> QED BY <3>2, <3>3, <3>4, <3>5, <3>7, <4>1 DEF GoesToFetch, Fetches, OneBox, BoxMoves
    <3>8. CASE StaysMute(b)
      <4>1. mem'[b] = Renewed(b)
        BY <3>8 DEF StaysMute, Types, IsStore
      <4> QED BY <3>2, <3>3, <3>4, <3>5, <3>8, <4>1 DEF StaysMute, Mute, OneBox, BoxMoves
    <3> QED BY <2>2, <3>6, <3>7, <3>8
  <2> QED BY <1>6, <2>1, <2>2, NarratedStep
<1>7. ASSUME NEW b \in Boxes, NEW i \in Places(b), NarrationFails(b, i)
      PROVE  PartMoves(b, i, "lost") \/ Loses(b)
  <2>1. CASE box[b] = "narrating"
    <3>1. phase = "work"
      BY <2>1 DEF Tasks, Busy
    <3>2. \A d \in Boxes \ {b} : part'[d] = part[d]
      BY <1>7 DEF NarrationFails, Types, IsParts
    <3> QED BY <1>7, <2>1, <3>1, <3>2 DEF NarrationFails, Loses, OneBox, Types, IsStore
  <2>2. CASE box[b] # "narrating"
    BY <1>7, <2>2 DEF NarrationFails, PartMoves
  <2> QED BY <2>1, <2>2
<1>8. CASE RequestCancel \/ UNCHANGED vars
  BY <1>8 DEF RequestCancel, Rests, vars
<1>9. \A b \in Boxes : DOMAIN part[b] = Places(b)
  BY DEF Types, IsParts
<1> QED BY <1>1, <1>2, <1>3, <1>4, <1>5, <1>6, <1>7, <1>8, <1>9 DEF Next, BoxMoves

LEMMA DirtyInPlaces ==
  ASSUME Types, NEW b \in Boxes
  PROVE  /\ DirtyChunks(b, mem) = {i \in Places(b) : NeedsRegen(mem[b].chunks[i])}
         /\ DirtyChunks(b, db) = {i \in Places(b) : NeedsRegen(db[b].chunks[i])}
BY DEF Types, IsStore, AudioOf, DirtyChunks

LEMMA OneBoxRest ==
  ASSUME Types, NEW b \in Boxes, NEW state, OneBox(b, state)
  PROVE  /\ box'[b] = state
         /\ \A d \in Boxes \ {b} : /\ box'[d] = box[d] /\ part'[d] = part[d] /\ mem'[d] = mem[d]
                                   /\ DirtyChunks(d, mem') = DirtyChunks(d, mem)
         /\ \A s : Visited(s)' <=> Visited(s)
BY DirtyIsLocal DEF OneBox, Types, Visited

LEMMA TasksOfBox ==
  ASSUME Types, Tasks, NEW b \in Boxes, BoxMoves(b)
  PROVE  Tasks'
<1>1. PICK state \in {"skipped", "narrating", "fetching", "combining", "combined", "failed"} : OneBox(b, state)
  BY DEF BoxMoves, Skips, Narrates, CombinesNow, Fetches, Mute, HasFetched, Combines, Gives, Loses
<1>2. phase = "work" /\ phase' = "work" /\ scope' = scope /\ pos' = pos
  BY <1>1 DEF OneBox
<1>3. /\ box'[b] = state
      /\ \A d \in Boxes \ {b} : /\ box'[d] = box[d] /\ part'[d] = part[d]
                                /\ DirtyChunks(d, mem') = DirtyChunks(d, mem)
  BY <1>1, OneBoxRest
<1>4. box[b] # "out"
  BY DEF BoxMoves, Skips, Narrates, CombinesNow, Fetches, Mute, HasFetched, Combines, Gives, Loses,
         AllIn
<1>5. \A d \in Boxes : box'[d] # "out" <=> SpreadOf[d] = scope'[pos']
  BY <1>2, <1>3, <1>4 DEF Tasks, InSpread
<1>6. \A d \in Boxes : box'[d] = "narrating" =>
        \A i \in Places(d) : /\ part'[d][i] # "lost"
                             /\ part'[d][i] # "none" <=> i \in DirtyChunks(d, mem')
  <2>1. ASSUME state = "narrating"
        PROVE  \A i \in Places(b) : /\ part'[b][i] # "lost"
                                    /\ part'[b][i] # "none" <=> i \in DirtyChunks(b, mem')
    <3>1. Narrates(b)
      BY <1>3, <2>1, OneBoxRest
         DEF BoxMoves, Skips, Narrates, CombinesNow, Fetches, Mute, HasFetched, Combines, Gives, Loses
    <3> QED BY <3>1 DEF Narrates
  <2> QED BY <1>3, <2>1 DEF Tasks
<1>7. \A d \in Boxes : box'[d] = "combined" => spread'.dirty
  <2>1. spread.dirty => spread'.dirty
    BY DEF BoxMoves, Skips, Narrates, CombinesNow, Fetches, Mute, HasFetched, Combines, Gives, Loses,
           Failing, Types
  <2>2. state = "combined" => spread'.dirty
    BY <1>3, OneBoxRest
       DEF BoxMoves, Skips, Narrates, CombinesNow, Fetches, Mute, HasFetched, Combines, Gives, Loses,
           Types
  <2> QED BY <1>3, <2>1, <2>2 DEF Tasks
<1>8. \A d \in Named : box'[d] = "failed" => d \in spread'.failed
  <2>1. spread.failed \subseteq spread'.failed
    BY DEF BoxMoves, Skips, Narrates, CombinesNow, Fetches, Mute, HasFetched, Combines, Gives, Loses,
           Failing, Types
  <2>2. state = "failed" /\ b \in Named => b \in spread'.failed
    BY <1>3, OneBoxRest
       DEF BoxMoves, Skips, Narrates, CombinesNow, Fetches, Mute, HasFetched, Combines, Gives, Loses,
           Failing, Types
  <2> QED BY <1>3, <2>1, <2>2, ShapeAssumption DEF Tasks
<1> QED BY <1>2, <1>5, <1>6, <1>7, <1>8 DEF Tasks

LEMMA TasksOfPart ==
  ASSUME Types, Tasks, NEW b \in Boxes, NEW i \in Places(b),
         NEW state \in {"talking", "said", "lost"}, PartMoves(b, i, state)
  PROVE  Tasks'
<1>1. \A d \in Boxes : \A k \in Places(d) :
        \/ part'[d][k] = part[d][k]
        \/ d = b /\ k = i /\ part'[d][k] = state
  BY DEF PartMoves, Types, IsParts
<1>2. \A d \in Boxes : box[d] = "narrating" =>
        \A k \in Places(d) : /\ part'[d][k] # "lost"
                             /\ part'[d][k] # "none" <=> k \in DirtyChunks(d, mem)
  BY <1>1 DEF PartMoves, Tasks
<1>3. UNCHANGED <<mem, phase, scope, pos, box, spread>> /\ \A s : Visited(s)' <=> Visited(s)
  BY DEF PartMoves, Visited
<1>4. BoxesOver' <=> BoxesOver
  BY <1>3 DEF BoxesOver
<1> QED BY <1>2, <1>3, <1>4 DEF Tasks

LEMMA TasksOfClose ==
  ASSUME Types, Tasks, phase \in {"missing", "unsaved", "settle"}, pos <= Len(scope),
         NEW mark, Close(mark)
  PROVE  Tasks'
<1>1. pos' = pos + 1 /\ pos \in Nat \ {0} /\ phase' \in {"next", "idle"}
  BY DEF Close, Report, End, Types
<1>2. UNCHANGED <<mem, scope, box, part, spread>>
  BY DEF Close
<1>3. \A s : s = scope[pos] => Visited(s)'
  BY <1>1, <1>2 DEF Visited
<1>4. \A b \in Boxes : box[b] \notin Busy
  BY DEF Tasks
<1>5. \A b \in Boxes : box[b] # "out" => Visited(SpreadOf[b])'
  BY <1>3 DEF Tasks, InSpread
<1> QED BY <1>1, <1>2, <1>4, <1>5 DEF Tasks, InSpread, Busy

LEMMA TasksStep ==
  ASSUME Types, Course, Tasks, [Next]_vars
  PROVE  Tasks'
<1> USE DEF work
<1>1. CASE Enqueue
  <2>1. phase' = "queued" /\ box' = Idle
    BY <1>1 DEF Enqueue
  <2>2. \A b \in Boxes : box'[b] = "out"
    BY <2>1 DEF Idle
  <2> QED BY <2>1, <2>2, ShapeAssumption DEF Tasks, Busy, InSpread
<1>2. CASE Load
  <2>1. phase = "queued" /\ phase' \in {"next", "idle"} /\ UNCHANGED <<box, spread>>
    BY <1>2 DEF Load, End
  <2>2. \A b \in Boxes : box[b] = "out"
    BY <2>1 DEF Course, Idle
  <2> QED BY <2>1, <2>2 DEF Tasks, Busy, InSpread
<1>3. CASE NextSpread
  <2>1. CASE job.cancel
    <3>1. UNCHANGED <<mem, box, part, spread>> /\ phase = "next" /\ phase' = "idle"
      BY <1>3, <2>1 DEF NextSpread, End
    <3> QED BY <3>1 DEF Tasks, Busy, InSpread
  <2>2. CASE ~job.cancel
    <3>1. /\ UNCHANGED <<scope, pos>> /\ spread' = Fresh
          /\ box' = [b \in Boxes |-> IF b \in BoxesOf(scope[pos]) THEN "waiting" ELSE "out"]
      BY <1>3, <2>2 DEF NextSpread
    <3>2. phase' \in {"work", "missing", "idle"}
      BY <1>3, <2>2 DEF NextSpread, Report, End
    <3>3. \A b \in Boxes : /\ box'[b] \in {"waiting", "out"}
                           /\ box'[b] # "out" <=> SpreadOf[b] = scope'[pos']
      BY <3>1 DEF BoxesOf
    <3> QED BY <3>2, <3>3, ShapeAssumption DEF Tasks, Busy
  <2> QED BY <2>1, <2>2
<1>4. CASE SpreadMissing \/ Unsaved \/ Settle
  <2>1. phase \in {"missing", "unsaved", "settle"} /\ \E mark : Close(mark)
    BY <1>4 DEF SpreadMissing, Unsaved, Settle
  <2>2. pos <= Len(scope)
    BY <2>1 DEF Course, InSpread
  <2> QED BY <2>1, <2>2, TasksOfClose
<1>5. CASE Persist
  <2>1. phase = "work" /\ BoxesOver /\ phase' \in {"settle", "unsaved"}
    BY <1>5 DEF Persist
  <2>2. UNCHANGED <<mem, scope, pos, box, part, spread>>
    BY <1>5 DEF Persist
  <2>3. BoxesOver' /\ \A b \in Boxes : box[b] \notin Busy
    BY <2>1, <2>2 DEF BoxesOver, Busy
  <2> QED BY <2>1, <2>2, <2>3 DEF Tasks, InSpread, Busy
<1>6. CASE Finish
  <2>1. UNCHANGED <<mem, box, part, spread>> /\ phase = "next" /\ phase' = "idle"
    BY <1>6 DEF Finish, End
  <2> QED BY <2>1 DEF Tasks, Busy, InSpread
<1>7. ASSUME UNCHANGED <<mem, phase, scope, pos, box, part, spread>> PROVE Tasks'
  <2>1. (BoxesOver' <=> BoxesOver) /\ \A s : Visited(s)' <=> Visited(s)
    BY <1>7 DEF BoxesOver, Visited
  <2> QED BY <1>7, <2>1 DEF Tasks
<1>8. Rests => Tasks'
  BY <1>7 DEF Rests
<1>9. ASSUME NEW b \in Boxes, NEW i \in Places(b), Edit(b, i) PROVE Tasks'
  BY <1>7, <1>9 DEF Edit
<1>10. ASSUME NEW s \in Spreads, RemoveSpread(s) PROVE Tasks'
  BY <1>7, <1>10 DEF RemoveSpread
<1> QED BY <1>1, <1>2, <1>3, <1>4, <1>5, <1>6, <1>8, <1>9, <1>10, TasksOfBox, TasksOfPart, StepKinds

-----------------------------------------------------------------------------
(* The slots                                                               *)

Slots ==
  /\ IsFiniteSet(Active) /\ Cardinality(Active) <= TextboxCap
  /\ IsFiniteSet(Talking) /\ Cardinality(Talking) <= ChunkCap

LEMMA FewerIsFine ==
  ASSUME NEW S, IsFiniteSet(S), NEW T \in SUBSET S, NEW n \in Nat, Cardinality(S) <= n
  PROVE  IsFiniteSet(T) /\ Cardinality(T) <= n
<1>1. IsFiniteSet(T) /\ Cardinality(T) <= Cardinality(S)
  BY FS_Subset
<1>2. Cardinality(T) \in Int /\ Cardinality(S) \in Int
  BY <1>1, FS_CardinalityType
<1> QED BY <1>1, <1>2

LEMMA OneMoreIsFine ==
  ASSUME NEW S, IsFiniteSet(S), NEW x, NEW T \in SUBSET (S \cup {x}), NEW n \in Nat,
         Cardinality(S) < n
  PROVE  IsFiniteSet(T) /\ Cardinality(T) <= n
<1>1. IsFiniteSet(S \cup {x}) /\ Cardinality(S \cup {x}) <= Cardinality(S) + 1
  <2>1. Cardinality(S) \in Int
    BY FS_CardinalityType
  <2>2. /\ IsFiniteSet(S \cup {x})
        /\ Cardinality(S \cup {x}) = IF x \in S THEN Cardinality(S) ELSE Cardinality(S) + 1
    BY FS_AddElement
  <2> QED BY <2>1, <2>2
<1>2. Cardinality(S) \in Int /\ Cardinality(S \cup {x}) \in Int
  BY <1>1, FS_CardinalityType
<1>3. Cardinality(S \cup {x}) <= n
  BY <1>1, <1>2
<1> QED BY <1>1, <1>3, FewerIsFine

\* The members of the two sets.
LEMMA TalkingIs ==
  ASSUME Types, NEW p
  PROVE  p \in Talking <=> \E b \in Boxes : \E i \in Places(b) : p = <<b, i>> /\ part[b][i] = "talking"
<1>1. \A b \in Boxes : DOMAIN part[b] = Places(b)
  BY DEF Types, IsParts
<1> QED BY <1>1 DEF Talking

LEMMA SlotsInit == Init => Slots
<1> SUFFICES ASSUME Init PROVE Slots
  OBVIOUS
<1>1. Active = {}
  BY DEF Init, Idle, Active
<1>2. Talking = {}
  BY TypesInit, TalkingIs DEF Init, Silent, Places
<1> QED BY <1>1, <1>2, FS_EmptySet, CapsAssumption DEF Slots

LEMMA SlotsStep ==
  ASSUME Types, Types', Slots, [Next]_vars
  PROVE  Slots'
<1> USE DEF work
<1>1. TextboxCap \in Nat /\ ChunkCap \in Nat
  BY CapsAssumption
<1>2. ASSUME Active' \subseteq Active, Talking' \subseteq Talking
      PROVE  Slots'
  BY <1>1, <1>2, FewerIsFine DEF Slots
<1>3. ASSUME UNCHANGED <<box, part>> PROVE Slots'
  BY <1>2, <1>3 DEF Active, Talking
<1>4. ASSUME \A b \in Boxes : \A i \in Places(b) : part'[b][i] = "talking" => part[b][i] = "talking"
      PROVE  Talking' \subseteq Talking
  <2> SUFFICES ASSUME NEW p \in Talking' PROVE p \in Talking
    OBVIOUS
  <2>1. \A b \in Boxes : DOMAIN part'[b] = Places(b)
    BY DEF Types, IsParts
  <2>2. \E b \in Boxes : \E i \in Places(b) : p = <<b, i>> /\ part'[b][i] = "talking"
    BY <2>1 DEF Talking
  <2> QED BY <1>4, <2>2, TalkingIs
<1>5. CASE Enqueue
  <2>1. box' = Idle /\ part' = Silent
    BY <1>5 DEF Enqueue
  <2>2. Talking' \subseteq Talking
    BY <1>4, <2>1 DEF Silent, Places
  <2>3. Active' \subseteq Active
    BY <2>1 DEF Active, Idle
  <2> QED BY <1>2, <2>2, <2>3
<1>6. CASE NextSpread
  <2>1. CASE job.cancel
    BY <1>3, <1>6, <2>1 DEF NextSpread
  <2>2. CASE ~job.cancel
    <3>1. /\ box' = [b \in Boxes |-> IF b \in BoxesOf(scope[pos]) THEN "waiting" ELSE "out"]
          /\ part' = Silent
      BY <1>6, <2>2 DEF NextSpread
    <3>2. Talking' \subseteq Talking
      BY <1>4, <3>1 DEF Silent, Places
    <3>3. Active' \subseteq Active
      BY <3>1 DEF Active
    <3> QED BY <1>2, <3>2, <3>3
  <2> QED BY <2>1, <2>2
<1>7. CASE Load \/ SpreadMissing \/ Unsaved \/ Settle \/ Persist \/ Finish \/ RequestCancel
           \/ UNCHANGED vars
  BY <1>3, <1>7 DEF Load, SpreadMissing, Unsaved, Settle, Persist, Finish, RequestCancel, Close, vars
<1>8. ASSUME NEW s \in Spreads, RemoveSpread(s) PROVE Slots'
  BY <1>3, <1>8 DEF RemoveSpread
<1>9. ASSUME NEW b \in Boxes, NEW i \in Places(b), Edit(b, i) PROVE Slots'
  BY <1>3, <1>9 DEF Edit
<1>10. ASSUME NEW b \in Boxes, Take(b) PROVE Slots'
  <2>1. Active' \subseteq Active \cup {b}
    BY <1>10 DEF Take, Active, Types
  <2>2. IsFiniteSet(Active') /\ Cardinality(Active') <= TextboxCap
    BY <1>1, <1>10, <2>1, OneMoreIsFine DEF Take, Slots
  <2>3. \A d \in Boxes : \A i \in Places(d) : part'[d][i] = "talking" => part[d][i] = "talking"
    BY <1>10 DEF Take, Types, IsParts
  <2>4. Talking' \subseteq Talking
    BY <1>4, <2>3
  <2> QED BY <1>1, <2>2, <2>4, FewerIsFine DEF Slots
<1>11. ASSUME NEW b \in Boxes,
              FetchChunks(b) \/ FetchFails(b) \/ Combine(b) \/ CombineFails(b)
       PROVE  Slots'
  <2>1. Active' \subseteq Active
    BY <1>11 DEF FetchChunks, FetchFails, Combine, CombineFails, Uncombined, Active, Types
  <2>2. part' = part
    BY <1>11 DEF FetchChunks, FetchFails, Combine, CombineFails, Uncombined
  <2>3. Talking' \subseteq Talking
    BY <1>4, <2>2
  <2> QED BY <1>2, <2>1, <2>3
<1>12. ASSUME NEW b \in Boxes, NEW i \in Places(b), Speak(b, i) PROVE Slots'
  <2>1. \A d \in Boxes : \A k \in Places(d) :
          part'[d][k] = "talking" => part[d][k] = "talking" \/ (d = b /\ k = i)
    BY <1>12 DEF Speak, Types, IsParts
  <2>2. Talking' \subseteq Talking \cup {<<b, i>>}
    <3> SUFFICES ASSUME NEW p \in Talking' PROVE p \in Talking \/ p = <<b, i>>
      OBVIOUS
    <3>1. \A d \in Boxes : DOMAIN part'[d] = Places(d)
      BY DEF Types, IsParts
    <3>2. \E d \in Boxes : \E k \in Places(d) : p = <<d, k>> /\ part'[d][k] = "talking"
      BY <3>1 DEF Talking
    <3> QED BY <2>1, <3>2, TalkingIs
  <2>3. IsFiniteSet(Talking') /\ Cardinality(Talking') <= ChunkCap
    BY <1>1, <1>12, <2>2, OneMoreIsFine DEF Speak, Slots
  <2>4. Active' = Active
    BY <1>12 DEF Speak, Active
  <2> QED BY <2>3, <2>4 DEF Slots
<1>13. ASSUME NEW b \in Boxes, NEW i \in Places(b), Narrated(b, i) PROVE Slots'
  <2>1. \A d \in Boxes : \A k \in Places(d) : part'[d][k] = "talking" => part[d][k] = "talking"
    <3>1. part' = [part EXCEPT ![b][i] = "said"]
      BY <1>13, NarratedStep
    <3> QED BY <3>1 DEF Types, IsParts
  <2>2. Active' \subseteq Active
    <3>1. \/ box' = box
          \/ /\ box[b] = "narrating"
             /\ \E state : box' = [box EXCEPT ![b] = state]
      BY <1>13, NarratedStep DEF Gathers, CombinesAtOnce, GoesToFetch, StaysMute
    <3> QED BY <3>1 DEF Active, Types
  <2>3. Talking' \subseteq Talking
    BY <1>4, <2>1
  <2> QED BY <1>2, <2>2, <2>3
<1>14. ASSUME NEW b \in Boxes, NEW i \in Places(b), NarrationFails(b, i) PROVE Slots'
  <2>1. \A d \in Boxes : \A k \in Places(d) : part'[d][k] = "talking" => part[d][k] = "talking"
    BY <1>14 DEF NarrationFails, Types, IsParts
  <2>2. Active' \subseteq Active
    BY <1>14 DEF NarrationFails, Active, Types
  <2>3. Talking' \subseteq Talking
    BY <1>4, <2>1
  <2> QED BY <1>2, <2>2, <2>3
<1>15. \A b \in Boxes : DOMAIN part[b] = Places(b)
  BY DEF Types, IsParts
<1> QED BY <1>5, <1>6, <1>7, <1>8, <1>9, <1>10, <1>11, <1>12, <1>13, <1>14, <1>15 DEF Next

-----------------------------------------------------------------------------
(* A stored audio is stale only after a failed combine                     *)

\* The copy too, but for the boxes whose narrations are in and whose combine is not.
InSync ==
  \A b \in Boxes \ hist.harmed :
    ~Stale(b, db) /\ (box[b] \notin {"fetching", "combining"} => ~Stale(b, mem))

LEMMA InSyncInit == Init => InSync
BY DEF Init, InSync, Idle

LEMMA CombinedIsFresh ==
  ASSUME NEW b, NEW store, NEW a, a = [chunks |-> a.chunks, combined |-> a.combined, isSync |-> a.isSync],
         store[b] = Combined(a)
  PROVE  ~Stale(b, store)
BY DEF Stale, Combined, Selected

LEMMA InSyncOfBox ==
  ASSUME Types, InSync, NEW b \in Boxes, BoxMoves(b)
  PROVE  InSync'
<1>1. PICK state \in {"skipped", "narrating", "fetching", "combining", "combined", "failed"} : OneBox(b, state)
  BY DEF BoxMoves, Skips, Narrates, CombinesNow, Fetches, Mute, HasFetched, Combines, Gives, Loses
<1>2. db' = db
  BY <1>1 DEF OneBox
<1>3. /\ box'[b] = state
      /\ \A d \in Boxes \ {b} : box'[d] = box[d] /\ mem'[d] = mem[d]
  BY <1>1, OneBoxRest
<1>4. hist.harmed \subseteq hist'.harmed
  BY DEF BoxMoves, Skips, Narrates, CombinesNow, Fetches, Mute, HasFetched, Combines, Gives, Loses,
         Types
<1>5. \A d \in Boxes \ {b} : Stale(d, mem') <=> Stale(d, mem)
  BY <1>3, DirtyIsLocal
<1>6. b \in hist'.harmed \/ state \in {"fetching", "combining"} \/ ~Stale(b, mem')
      \/ (mem'[b] = mem[b] /\ box[b] \notin {"fetching", "combining"})
  <2>1. CASE CombinesNow(b)
    <3>1. Renewed(b) \in AudioOf(b)
      BY RenewedType
    <3>2. mem'[b] = Combined(Renewed(b))
      BY <2>1 DEF CombinesNow
    <3> QED BY <3>1, <3>2, CombinedIsFresh DEF AudioOf
  <2>2. CASE Combines(b)
    <3>1. mem[b] \in AudioOf(b)
      BY DEF Types, IsStore
    <3>2. mem'[b] = Combined(mem[b])
      BY <2>2 DEF Combines
    <3> QED BY <3>1, <3>2, CombinedIsFresh DEF AudioOf
  <2>3. CASE Fetches(b) \/ HasFetched(b)
    BY <1>3, <2>3, OneBoxRest DEF Fetches, HasFetched
  <2>4. CASE Mute(b) \/ Gives(b)
    BY <2>4 DEF Mute, Gives, Types
  <2>5. CASE Skips(b) \/ Narrates(b) \/ Loses(b)
    BY <2>5 DEF Skips, Narrates, Loses
  <2> QED BY <2>1, <2>2, <2>3, <2>4, <2>5 DEF BoxMoves
<1>7. \A d \in Boxes : Stale(d, db') <=> Stale(d, db)
  BY <1>2
<1>8. b \notin hist'.harmed /\ state \notin {"fetching", "combining"} => ~Stale(b, mem')
  BY <1>4, <1>6, DirtyIsLocal DEF InSync
<1> QED BY <1>3, <1>4, <1>5, <1>7, <1>8 DEF InSync

\* A new script makes the box need narration; if it still counts as in sync, its audio is the one
\* its chunks select.
LEMMA EditIsNotStale ==
  ASSUME Types, NEW b \in Boxes, NEW i \in Places(b), Edit(b, i), ~Stale(b, db)
  PROVE  ~Stale(b, db')
<1>1. db[b] \in AudioOf(b) /\ db[b].chunks[i] \in ChunkNow /\ i \in DOMAIN db[b].chunks
  BY DEF Types, IsStore, AudioOf
<1>2. db'[b] = [db[b] EXCEPT !.chunks[i].synced = FALSE]
  BY DEF Edit, Types, IsStore
<1>3. /\ db'[b].combined = db[b].combined /\ db'[b].isSync = db[b].isSync
      /\ db'[b].chunks = [db[b].chunks EXCEPT ![i] = [@ EXCEPT !.synced = FALSE]]
  BY <1>1, <1>2 DEF AudioOf
<1>4. Selected(db'[b]) = Selected(db[b])
  BY <1>1, <1>3 DEF Selected, AudioOf, ChunkNow
<1>5. DirtyChunks(b, db') # {}
  <2>1. i \in DOMAIN db'[b].chunks /\ ~db'[b].chunks[i].synced
    BY <1>1, <1>3 DEF AudioOf, ChunkNow
  <2> QED BY <2>1 DEF DirtyChunks, NeedsRegen
<1> QED BY <1>3, <1>4, <1>5 DEF Stale

LEMMA InSyncStep ==
  ASSUME Types, Course, Tasks, InSync, [Next]_vars
  PROVE  InSync'
<1> USE DEF work
<1>1. ASSUME UNCHANGED <<db, mem>>, hist'.harmed = hist.harmed,
             \A b \in Boxes : box[b] \in {"fetching", "combining"} =>
                                 box'[b] \in {"fetching", "combining"}
      PROVE  InSync'
  BY <1>1 DEF InSync
<1>2. CASE Enqueue
  <2>1. \A b \in Boxes : box[b] \notin {"fetching", "combining"}
    BY <1>2 DEF Enqueue, Tasks, Busy
  <2>2. UNCHANGED <<db, mem>> /\ hist'.harmed = hist.harmed
    BY <1>2 DEF Enqueue, Types
  <2> QED BY <1>1, <2>1, <2>2
<1>3. CASE Load
  <2>1. db' = db /\ hist'.harmed = hist.harmed /\ mem' \in {mem, db} /\ box' = box
    BY <1>3 DEF Load, Types
  <2> QED BY <2>1 DEF InSync
<1>4. CASE NextSpread
  <2>1. UNCHANGED <<db, mem, hist>> /\ \A b \in Boxes : box[b] \notin {"fetching", "combining"}
    BY <1>4 DEF NextSpread, Tasks, Busy
  <2> QED BY <1>1, <2>1
<1>5. CASE Persist
  <2>1. \A b \in Boxes : box[b] \notin {"fetching", "combining"}
    BY <1>5 DEF Persist, BoxesOver
  <2>2. mem' = mem /\ db' \in {mem, db} /\ UNCHANGED <<box, hist>>
    BY <1>5 DEF Persist
  <2> QED BY <2>1, <2>2 DEF InSync
<1>6. CASE SpreadMissing \/ Unsaved \/ Settle \/ Finish \/ Rests
  <2>1. UNCHANGED <<db, mem, box, hist>>
    BY <1>6 DEF SpreadMissing, Unsaved, Settle, Close, Finish, Rests
  <2> QED BY <1>1, <2>1
<1>7. ASSUME NEW b \in Boxes, NEW i \in Places(b), Edit(b, i) PROVE InSync'
  <2>1. mem' = mem /\ box' = box /\ hist'.harmed = hist.harmed
    BY <1>7 DEF Edit, Types
  <2>2. \A d \in Boxes \ {b} : db'[d] = db[d]
    BY <1>7 DEF Edit, Types, IsStore
  <2>3. \A d \in Boxes \ hist.harmed : ~Stale(d, db')
    BY <1>7, <2>2, EditIsNotStale, DirtyIsLocal DEF InSync
  <2> QED BY <2>1, <2>3 DEF InSync
<1>8. ASSUME NEW s \in Spreads, RemoveSpread(s) PROVE InSync'
  <2>1. UNCHANGED <<db, mem, box>> /\ hist'.harmed = hist.harmed
    BY <1>8 DEF RemoveSpread, Types
  <2> QED BY <1>1, <2>1
<1>9. ASSUME NEW b \in Boxes, NEW i \in Places(b), NEW state \in {"talking", "said", "lost"},
             PartMoves(b, i, state)
      PROVE  InSync'
  BY <1>1, <1>9 DEF PartMoves
<1> QED BY <1>2, <1>3, <1>4, <1>5, <1>6, <1>7, <1>8, <1>9, InSyncOfBox, StepKinds

-----------------------------------------------------------------------------
(* A box that lost a narration stays in need of one                        *)

\* What the copy needs is needed as stored, and a box that lost a narration is in need in both; no
\* later step of the job touches it.
Voicings ==
  /\ phase \in Loaded => \A b \in Boxes : DirtyChunks(b, mem) \subseteq DirtyChunks(b, db)
  /\ phase = "queued" => hist.unvoiced = {}
  /\ \A b \in hist.unvoiced :
       /\ DirtyChunks(b, db) # {}
       /\ phase \in Loaded => /\ DirtyChunks(b, mem) # {}
                              /\ \/ Visited(SpreadOf[b])
                                 \/ phase \in InSpread /\ box[b] = "failed"

LEMMA VoicingsInit == Init => Voicings
BY DEF Init, Voicings, Loaded, InSpread

\* A renarration needs nothing that was not needed, and the combine of the box nothing else.
LEMMA RenewedNeedsLess ==
  ASSUME Types, Tasks, NEW b \in Boxes, box[b] = "narrating", NEW store,
         store[b] = Renewed(b) \/ store[b] = Combined(Renewed(b))
  PROVE  DirtyChunks(b, store) \subseteq DirtyChunks(b, mem)
<1>1. mem[b] \in AudioOf(b)
  BY DEF Types, IsStore
<1>2. store[b].chunks = Renarrated(b)
  BY <1>1 DEF Renewed, Combined, AudioOf
<1>3. DOMAIN mem[b].chunks = Places(b)
  BY <1>1 DEF AudioOf
<1>4. \A i \in Places(b) : part[b][i] = "none" => Renarrated(b)[i] = mem[b].chunks[i]
  BY <1>3 DEF Renarrated
<1>5. \A i \in Places(b) : part[b][i] # "none" => i \in DirtyChunks(b, mem)
  BY DEF Tasks
<1>6. DOMAIN Renarrated(b) = Places(b)
  BY <1>3 DEF Renarrated
<1> QED BY <1>2, <1>3, <1>4, <1>5, <1>6 DEF DirtyChunks

LEMMA CombinedNeedsTheSame ==
  ASSUME NEW b \in Boxes, mem[b] \in AudioOf(b), NEW store, store[b] = Combined(mem[b])
  PROVE  DirtyChunks(b, store) = DirtyChunks(b, mem)
<1>1. store[b].chunks = mem[b].chunks
  BY DEF Combined, AudioOf
<1> QED BY <1>1 DEF DirtyChunks

LEMMA VoicingsOfBox ==
  ASSUME Types, Course, Tasks, Voicings, NEW b \in Boxes, BoxMoves(b)
  PROVE  Voicings'
<1>1. PICK state \in {"skipped", "narrating", "fetching", "combining", "combined", "failed"} : OneBox(b, state)
  BY DEF BoxMoves, Skips, Narrates, CombinesNow, Fetches, Mute, HasFetched, Combines, Gives, Loses
<1>2. db' = db /\ phase = "work" /\ phase' = "work" /\ scope' = scope /\ pos' = pos
  BY <1>1 DEF OneBox
<1>3. /\ box'[b] = state
      /\ \A d \in Boxes \ {b} : /\ box'[d] = box[d]
                                /\ DirtyChunks(d, mem') = DirtyChunks(d, mem)
      /\ \A s : Visited(s)' <=> Visited(s)
  BY <1>1, OneBoxRest
<1>4. mem[b] \in AudioOf(b)
  BY DEF Types, IsStore
<1>5. /\ DirtyChunks(b, mem') \subseteq DirtyChunks(b, mem)
      /\ Loses(b) => DirtyChunks(b, mem') = DirtyChunks(b, mem)
  <2>1. CASE CombinesNow(b) \/ Fetches(b) \/ Mute(b)
    <3>1. DirtyChunks(b, mem') \subseteq DirtyChunks(b, mem)
      BY <2>1, RenewedNeedsLess DEF CombinesNow, Fetches, Mute, AllIn
    <3>2. Loses(b) => mem' = mem
      BY DEF Loses
    <3> QED BY <3>1, <3>2
  <2>2. CASE Combines(b)
    <3>1. mem'[b] = Combined(mem[b])
      BY <2>2 DEF Combines
    <3> QED BY <1>4, <3>1, CombinedNeedsTheSame
  <2>3. CASE Skips(b) \/ Narrates(b) \/ HasFetched(b) \/ Gives(b) \/ Loses(b)
    BY <2>3 DEF Skips, Narrates, HasFetched, Gives, Loses
  <2> QED BY <2>1, <2>2, <2>3 DEF BoxMoves
<1>6. ~Visited(SpreadOf[b])
  <2>1. box[b] # "out"
    BY DEF BoxMoves, Skips, Narrates, CombinesNow, Fetches, Mute, HasFetched, Combines, Gives, Loses,
           AllIn
  <2>2. SpreadOf[b] = scope[pos] /\ pos <= Len(scope)
    BY <1>2, <2>1 DEF Tasks, Course, InSpread
  <2> QED BY <2>2, NotVisitedYet
<1>7. b \notin hist.unvoiced
  <2>1. box[b] # "failed"
    BY DEF BoxMoves, Skips, Narrates, CombinesNow, Fetches, Mute, HasFetched, Combines, Gives, Loses,
           AllIn
  <2> QED BY <1>2, <1>6, <2>1 DEF Voicings, Loaded, InSpread
<1>8. hist'.unvoiced = hist.unvoiced \/ (Loses(b) /\ hist'.unvoiced = hist.unvoiced \cup {b})
  BY DEF BoxMoves, Skips, Narrates, CombinesNow, Fetches, Mute, HasFetched, Combines, Gives, Loses,
         Types
<1>9. ASSUME Loses(b)
      PROVE  state = "failed" /\ DirtyChunks(b, mem) # {}
  BY <1>3, <1>9, OneBoxRest DEF Loses, Tasks
<1>10. \A d \in Boxes : DirtyChunks(d, mem') \subseteq DirtyChunks(d, db')
  BY <1>2, <1>3, <1>5 DEF Voicings, Loaded, InSpread
<1>11. ASSUME NEW d \in hist'.unvoiced
       PROVE  /\ DirtyChunks(d, db') # {} /\ DirtyChunks(d, mem') # {}
              /\ Visited(SpreadOf[d])' \/ box'[d] = "failed"
  <2>1. CASE d = b
    <3>1. Loses(b)
      BY <1>7, <1>8, <2>1
    <3> QED BY <1>3, <1>5, <1>9, <1>10, <2>1, <3>1
  <2>2. CASE d # b
    <3>1. d \in hist.unvoiced /\ d \in Boxes \ {b}
      BY <1>8, <2>2 DEF Types
    <3> QED BY <1>2, <1>3, <3>1 DEF Voicings, Loaded, InSpread
  <2> QED BY <2>1, <2>2
<1> QED BY <1>2, <1>10, <1>11 DEF Voicings, Loaded, InSpread

LEMMA EditNeedsMore ==
  ASSUME Types, NEW b \in Boxes, NEW i \in Places(b), Edit(b, i)
  PROVE  \A d \in Boxes : DirtyChunks(d, db) \subseteq DirtyChunks(d, db')
<1>1. \A d \in Boxes \ {b} : db'[d] = db[d]
  BY DEF Edit, Types, IsStore
<1>2. db[b] \in AudioOf(b) /\ db[b].chunks[i] \in ChunkNow /\ i \in DOMAIN db[b].chunks
  BY DEF Types, IsStore, AudioOf
<1>3. db'[b] = [db[b] EXCEPT !.chunks[i].synced = FALSE]
  BY DEF Edit, Types, IsStore
<1>4. db'[b].chunks = [db[b].chunks EXCEPT ![i] = [@ EXCEPT !.synced = FALSE]]
  BY <1>2, <1>3 DEF AudioOf
<1>5. ~db'[b].chunks[i].synced
  BY <1>2, <1>4 DEF AudioOf, ChunkNow
<1>6. \A k \in DOMAIN db[b].chunks : k \in DOMAIN db'[b].chunks /\ (k = i \/ db'[b].chunks[k] = db[b].chunks[k])
  BY <1>2, <1>4 DEF AudioOf
<1>7. DirtyChunks(b, db) \subseteq DirtyChunks(b, db')
  BY <1>5, <1>6 DEF DirtyChunks, NeedsRegen
<1> QED BY <1>1, <1>7, DirtyIsLocal

LEMMA VoicingsStep ==
  ASSUME Types, Course, Tasks, Voicings, [Next]_vars
  PROVE  Voicings'
<1> USE DEF work
<1>1. CASE Enqueue
  <2>1. hist'.unvoiced = {} /\ phase' = "queued"
    BY <1>1 DEF Enqueue, Types
  <2> QED BY <2>1 DEF Voicings, Loaded, InSpread
<1>2. CASE Load
  <2>1. phase = "queued" /\ phase' \in {"next", "idle"} /\ db' = db /\ hist'.unvoiced = hist.unvoiced
    BY <1>2 DEF Load, End, Types
  <2>2. phase' = "next" => mem' = db
    BY <1>2 DEF Load, End
  <2> QED BY <2>1, <2>2 DEF Voicings, Loaded, InSpread
<1>3. ASSUME UNCHANGED <<db, mem, box>>, hist'.unvoiced = hist.unvoiced,
             \/ phase' = "idle"
             \/ UNCHANGED <<phase, scope, pos>>
             \/ phase \in InSpread /\ phase' \in InSpread /\ UNCHANGED <<scope, pos>>
      PROVE  Voicings'
  <2>1. phase' # "idle" => \A s : Visited(s)' <=> Visited(s)
    BY <1>3 DEF Visited, InSpread
  <2>2. "idle" \notin Loaded /\ "queued" \notin Loaded /\ InSpread \subseteq Loaded
    BY DEF Loaded, InSpread
  <2> QED BY <1>3, <2>1, <2>2 DEF Voicings
<1>4. CASE NextSpread
  <2>1. CASE job.cancel
    BY <1>3, <1>4, <2>1 DEF NextSpread, End
  <2>2. CASE ~job.cancel
    <3>1. UNCHANGED <<db, mem, scope, pos, hist>> /\ phase = "next"
      BY <1>4, <2>2 DEF NextSpread
    <3>2. \A s : Visited(s)' <=> Visited(s)
      BY <3>1 DEF Visited
    <3>3. phase' \in {"idle", "work", "missing"}
      BY <1>4, <2>2 DEF NextSpread, Report, End
    <3> QED BY <3>1, <3>2, <3>3 DEF Voicings, Loaded, InSpread
  <2> QED BY <2>1, <2>2
<1>5. CASE SpreadMissing \/ Unsaved \/ Settle
  <2>1. phase \in {"missing", "unsaved", "settle"} /\ \E mark : Close(mark)
    BY <1>5 DEF SpreadMissing, Unsaved, Settle
  <2>2. UNCHANGED <<db, mem, scope, box, hist>> /\ pos' = pos + 1 /\ phase' \in {"next", "idle"}
    BY <2>1 DEF Close, Report, End
  <2>3. pos \in Nat \ {0}
    BY DEF Types
  <2>4. \A s : s = scope[pos] \/ Visited(s) => Visited(s)'
    BY <2>2, <2>3 DEF Visited
  <2>5. \A b \in hist.unvoiced : Visited(SpreadOf[b])'
    <3>1. \A b \in hist.unvoiced : box[b] = "failed" => SpreadOf[b] = scope[pos]
      BY <2>1 DEF Tasks, InSpread, Types
    <3> QED BY <2>1, <2>4, <3>1 DEF Voicings, Loaded, InSpread
  <2> QED BY <2>1, <2>2, <2>5 DEF Voicings, Loaded, InSpread
<1>6. CASE Persist
  <2>1. phase = "work" /\ phase' \in {"settle", "unsaved"} /\ mem' = mem /\ db' \in {mem, db}
        /\ UNCHANGED <<scope, pos, box, hist>>
    BY <1>6 DEF Persist
  <2>2. \A s : Visited(s)' <=> Visited(s)
    BY <2>1 DEF Visited
  <2> QED BY <2>1, <2>2 DEF Voicings, Loaded, InSpread
<1>7. CASE Finish
  BY <1>3, <1>7 DEF Finish, End
<1>8. CASE Rests
  BY <1>3, <1>8 DEF Rests
<1>9. ASSUME NEW b \in Boxes, NEW i \in Places(b), Edit(b, i) PROVE Voicings'
  <2>1. UNCHANGED <<mem, phase, scope, pos, box>> /\ hist'.unvoiced = hist.unvoiced
    BY <1>9 DEF Edit, Types
  <2>2. \A s : Visited(s)' <=> Visited(s)
    BY <2>1 DEF Visited
  <2>3. hist.unvoiced \subseteq Boxes
    BY DEF Types
  <2> QED BY <1>9, <2>1, <2>2, <2>3, EditNeedsMore DEF Voicings
<1>10. ASSUME NEW s \in Spreads, RemoveSpread(s) PROVE Voicings'
  <2>1. UNCHANGED <<db, mem, phase, scope, pos, box>> /\ hist'.unvoiced = hist.unvoiced
    BY <1>10 DEF RemoveSpread, Types
  <2> QED BY <1>3, <2>1
<1>11. ASSUME NEW b \in Boxes, NEW i \in Places(b), NEW state \in {"talking", "said", "lost"},
              PartMoves(b, i, state)
       PROVE  Voicings'
  BY <1>3, <1>11 DEF PartMoves
<1> QED BY <1>1, <1>2, <1>4, <1>5, <1>6, <1>7, <1>8, <1>9, <1>10, <1>11, VoicingsOfBox, StepKinds

-----------------------------------------------------------------------------
(* A spread told as done has nothing left                                  *)

\* No two entries of remix_config.voices are for the same reader.
OneEntryPerReader == \A m, n \in DOMAIN Voices : Voices[m].key = Voices[n].key => m = n

LEMMA VoicesShape ==
  \A n \in DOMAIN Voices : Voices[n].key \in STRING /\ Voices[n].voice \in Voiced
<1> DEFINE E == [key : STRING, voice : Voiced, enabled : BOOLEAN]
<1>1. Voices \in Seq(E)
  BY ShapeAssumption
<1>2. \A n \in DOMAIN Voices : Voices[n] \in E
  <2> HIDE DEF E
  <2> QED BY <1>1
<1> QED BY <1>2

ReaderOf(c) == IF c.reader # None THEN c.reader
               ELSE IF VoiceToReader(c.voice) # None THEN VoiceToReader(c.voice) ELSE "narrator"
EntriesOf(reader) == {n \in DOMAIN Voices : Voices[n].key = reader /\ Voices[n].enabled}

LEMMA ResolveIs ==
  ASSUME NEW c
  PROVE  ResolveVoice(c) = IF EntriesOf(ReaderOf(c)) = {} THEN None
                           ELSE Voices[First(EntriesOf(ReaderOf(c)))].voice
BY DEF ResolveVoice, EntriesOf, ReaderOf

LEMMA FirstEntry ==
  ASSUME NEW reader, EntriesOf(reader) # {}
  PROVE  First(EntriesOf(reader)) \in DOMAIN Voices /\ Voices[First(EntriesOf(reader))].key = reader
<1>1. EntriesOf(reader) \in SUBSET (DOMAIN Voices)
  BY DEF EntriesOf
<1>2. First(EntriesOf(reader)) \in EntriesOf(reader)
  BY <1>1, FirstIsHit
<1> QED BY <1>2 DEF EntriesOf

\* With one entry for each reader, the voice a chunk was narrated in is the one it resolves to.
LEMMA VoiceIsStable ==
  ASSUME OneEntryPerReader, NEW c, NEW d, d.reader = c.reader, d.voice = VoiceFor(c)
  PROVE  ResolveVoice(d) = None \/ ResolveVoice(d) = d.voice
<1>1. CASE ResolveVoice(c) = None \/ c.reader # None
  <2>1. CASE c.reader # None
    <3>1. ReaderOf(d) = ReaderOf(c)
      BY <2>1 DEF ReaderOf
    <3>2. ResolveVoice(d) = ResolveVoice(c)
      BY <3>1, ResolveIs
    <3> QED BY <3>2 DEF VoiceFor
  <2>2. CASE ResolveVoice(c) = None
    <3>1. d.voice = c.voice
      BY <2>2 DEF VoiceFor
    <3>2. ReaderOf(d) = ReaderOf(c)
      BY <3>1 DEF ReaderOf
    <3> QED BY <2>2, <3>2, ResolveIs
  <2> QED BY <1>1, <2>1, <2>2
<1>2. CASE ResolveVoice(c) # None /\ c.reader = None
  <2> DEFINE v == ResolveVoice(c)
             owners == {n \in DOMAIN Voices : Voices[n].voice = v}
             o == First(owners)
  <2>1. d.voice = v
    BY <1>2 DEF VoiceFor
  <2>2. owners # {}
    <3>1. EntriesOf(ReaderOf(c)) # {} /\ v = Voices[First(EntriesOf(ReaderOf(c)))].voice
      BY <1>2, ResolveIs
    <3>2. First(EntriesOf(ReaderOf(c))) \in DOMAIN Voices
      BY <3>1, FirstEntry
    <3> HIDE DEF v
    <3> QED BY <3>1, <3>2
  <2>3. o \in DOMAIN Voices /\ Voices[o].voice = v
    <3>1. owners \in SUBSET (DOMAIN Voices)
      OBVIOUS
    <3>2. o \in owners
      <4> HIDE DEF owners
      <4> QED BY <2>2, <3>1, FirstIsHit
    <3> HIDE DEF o
    <3> QED BY <3>2
  <2>4. VoiceToReader(v) = Voices[o].key
    <3>1. v # None
      BY <1>2
    <3> HIDE DEF v
    <3> QED BY <2>2, <3>1 DEF VoiceToReader
  <2> HIDE DEF o, owners, v
  <2>5. VoiceToReader(v) # None
    BY <2>3, <2>4, VoicesShape, ShapeAssumption
  <2>6. ReaderOf(d) = Voices[o].key
    BY <1>2, <2>1, <2>4, <2>5 DEF ReaderOf
  <2>7. CASE EntriesOf(ReaderOf(d)) = {}
    BY <2>7, ResolveIs
  <2>8. CASE EntriesOf(ReaderOf(d)) # {}
    <3>1. First(EntriesOf(ReaderOf(d))) = o
      BY <2>3, <2>6, <2>8, FirstEntry DEF OneEntryPerReader
    <3> QED BY <2>1, <2>3, <2>8, <3>1, ResolveIs
  <2> QED BY <2>7, <2>8
<1> QED BY <1>1, <1>2

LEMMA RenewedNeedsNothing ==
  ASSUME OneEntryPerReader, Types, Tasks, NEW b \in Boxes, AllIn(b), NEW store,
         store[b] = Renewed(b) \/ store[b] = Combined(Renewed(b))
  PROVE  DirtyChunks(b, store) = {}
<1>1. mem[b] \in AudioOf(b)
  BY DEF Types, IsStore
<1>2. store[b].chunks = Renarrated(b)
  BY <1>1 DEF Renewed, Combined, AudioOf
<1>3. DOMAIN mem[b].chunks = Places(b) /\ \A i \in Places(b) : mem[b].chunks[i] \in ChunkNow
  BY <1>1 DEF AudioOf
<1>4. ASSUME NEW i \in Places(b) PROVE ~NeedsRegen(Renarrated(b)[i])
  <2> DEFINE c == mem[b].chunks[i]
  <2>1. CASE part[b][i] = "none"
    <3>1. Renarrated(b)[i] = c
      BY <1>3, <2>1 DEF Renarrated
    <3>2. i \notin DirtyChunks(b, mem)
      BY <2>1 DEF Tasks, AllIn
    <3> QED BY <1>3, <3>1, <3>2 DEF DirtyChunks
  <2>2. CASE part[b][i] # "none"
    <3> DEFINE d == [c EXCEPT !.voice = VoiceFor(c), !.synced = TRUE, !.sel = job.count]
    <3>1. Renarrated(b)[i] = d
      BY <1>3, <2>2 DEF Renarrated
    <3>2. d.reader = c.reader /\ d.voice = VoiceFor(c) /\ d.synced
      BY <1>3 DEF ChunkNow
    <3> HIDE DEF c, d
    <3> QED BY <3>1, <3>2, VoiceIsStable DEF NeedsRegen
  <2> QED BY <2>1, <2>2
<1>5. DOMAIN Renarrated(b) = Places(b)
  BY <1>3 DEF Renarrated
<1> QED BY <1>2, <1>4, <1>5 DEF DirtyChunks

\* A box that is over, or past its narrations, needs nothing in the copy; the boxes of a spread
\* told as done neither; a box the job has not come to is in the copy as it is stored.
Outcome ==
  /\ \A b \in Boxes :
       box[b] \in {"skipped", "fetching", "combining", "combined"} => DirtyChunks(b, mem) = {}
  /\ phase \in Loaded =>
       /\ \A b \in Named : told[SpreadOf[b]] = "done" => DirtyChunks(b, mem) = {}
       /\ \A b \in Boxes \ hist.touched :
            ~Visited(SpreadOf[b]) /\ box[b] \in {"out", "waiting", "skipped", "narrating"} =>
              db[b] = mem[b]
  /\ phase = "settle" =>
       \A b \in Boxes \ hist.touched : box[b] \in {"skipped", "combined"} => DirtyChunks(b, db) = {}
  /\ DoneIsStored

LEMMA OutcomeInit == Init => Outcome
BY ShapeAssumption DEF Init, Outcome, Idle, Loaded, InSpread, DoneIsStored

LEMMA OutcomeOfBox ==
  ASSUME OneEntryPerReader, Types, Course, Tasks, Outcome, NEW b \in Boxes, BoxMoves(b)
  PROVE  Outcome'
<1>1. PICK state \in {"skipped", "narrating", "fetching", "combining", "combined", "failed"} : OneBox(b, state)
  BY DEF BoxMoves, Skips, Narrates, CombinesNow, Fetches, Mute, HasFetched, Combines, Gives, Loses
<1>2. db' = db /\ phase = "work" /\ phase' = "work" /\ scope' = scope /\ pos' = pos /\ told' = told
  BY <1>1 DEF OneBox
<1>3. /\ box'[b] = state
      /\ \A d \in Boxes \ {b} : /\ box'[d] = box[d] /\ mem'[d] = mem[d]
                                /\ DirtyChunks(d, mem') = DirtyChunks(d, mem)
      /\ \A s : Visited(s)' <=> Visited(s)
  BY <1>1, OneBoxRest
<1>4. mem[b] \in AudioOf(b)
  BY DEF Types, IsStore
<1>5. ~Visited(SpreadOf[b])
  <2>1. box[b] # "out"
    BY DEF BoxMoves, Skips, Narrates, CombinesNow, Fetches, Mute, HasFetched, Combines, Gives, Loses,
           AllIn
  <2>2. SpreadOf[b] = scope[pos] /\ pos <= Len(scope)
    BY <1>2, <2>1 DEF Tasks, Course, InSpread
  <2> QED BY <2>2, NotVisitedYet
<1>6. hist'.touched = hist.touched
  BY DEF BoxMoves, Skips, Narrates, CombinesNow, Fetches, Mute, HasFetched, Combines, Gives, Loses,
         Types
<1>7. state \in {"skipped", "fetching", "combining", "combined"} => DirtyChunks(b, mem') = {}
  <2>1. CASE CombinesNow(b) \/ Fetches(b)
    BY <2>1, RenewedNeedsNothing DEF CombinesNow, Fetches
  <2>2. CASE Combines(b)
    <3>1. mem'[b] = Combined(mem[b]) /\ DirtyChunks(b, mem) = {}
      BY <2>2 DEF Combines, Outcome
    <3> QED BY <1>4, <3>1, CombinedNeedsTheSame
  <2>3. CASE Skips(b) \/ HasFetched(b)
    BY <2>3 DEF Skips, HasFetched, Outcome
  <2>4. CASE Narrates(b) \/ Mute(b) \/ Gives(b) \/ Loses(b)
    BY <1>3, <2>4, OneBoxRest DEF Narrates, Mute, Gives, Loses
  <2> QED BY <2>1, <2>2, <2>3, <2>4 DEF BoxMoves
<1>8. state \in {"out", "waiting", "skipped", "narrating"} =>
        mem'[b] = mem[b] /\ box[b] = "waiting"
  BY <1>3, OneBoxRest
     DEF BoxMoves, Skips, Narrates, CombinesNow, Fetches, Mute, HasFetched, Combines, Gives, Loses
<1>9. SpreadOf[b] \in Spreads /\ told[SpreadOf[b]] # "done"
  BY <1>5, ShapeAssumption DEF Course
<1>10. \A d \in Boxes : box'[d] \in {"skipped", "fetching", "combining", "combined"} =>
                          DirtyChunks(d, mem') = {}
  BY <1>3, <1>7 DEF Outcome
<1>11. \A d \in Named : told'[SpreadOf[d]] = "done" => DirtyChunks(d, mem') = {}
  BY <1>2, <1>3, <1>9, ShapeAssumption DEF Outcome, Loaded, InSpread
<1>12. \A d \in Boxes \ hist'.touched :
         ~Visited(SpreadOf[d])' /\ box'[d] \in {"out", "waiting", "skipped", "narrating"} =>
           db'[d] = mem'[d]
  BY <1>2, <1>3, <1>6, <1>8 DEF Outcome, Loaded, InSpread
<1>13. DoneIsStored'
  BY <1>2, <1>6 DEF Outcome, DoneIsStored
<1> QED BY <1>2, <1>10, <1>11, <1>12, <1>13 DEF Outcome

LEMMA OutcomeOfClose ==
  ASSUME Types, Course, Tasks, Outcome, phase \in {"missing", "unsaved", "settle"},
         NEW mark, Close(mark), mark = "done" => phase = "settle" /\ spread.failed = {}
  PROVE  Outcome'
<1>1. /\ UNCHANGED <<db, mem, scope, box, hist>> /\ pos' = pos + 1 /\ phase' \in {"next", "idle"}
      /\ told' = told \/ told' = [told EXCEPT ![scope[pos]] = mark]
  <2>1. Report([told EXCEPT ![scope[pos]] = mark], "next")
    BY DEF Close
  <2>2. told' = told \/ told' = [told EXCEPT ![scope[pos]] = mark]
    BY <2>1 DEF Report
  <2>3. phase' \in {"next", "idle"}
    BY <2>1 DEF Report, End
  <2> QED BY <2>2, <2>3 DEF Close
<1>2. pos \in Nat \ {0} /\ pos <= Len(scope) /\ scope[pos] \in Spreads
  BY NotVisitedYet DEF Types, Course, InSpread
<1>3. \A s : Visited(s) => Visited(s)'
  BY <1>1, <1>2 DEF Visited
<1>4. \A s : s = scope[pos] => Visited(s)'
  BY <1>1, <1>2 DEF Visited
<1>5. ASSUME NEW b \in Named, told'[SpreadOf[b]] = "done"
      PROVE  \/ told[SpreadOf[b]] = "done"
             \/ phase = "settle" /\ box[b] \in {"skipped", "combined"}
  <2>1. b \in Boxes /\ SpreadOf[b] \in Spreads
    BY ShapeAssumption
  <2>2. CASE told[SpreadOf[b]] # "done"
    <3>1. SpreadOf[b] = scope[pos] /\ mark = "done"
      BY <1>1, <1>2, <1>5, <2>1, <2>2 DEF Types
    <3>2. box[b] # "out" /\ box[b] # "failed" /\ BoxesOver /\ phase = "settle"
      BY <2>1, <3>1 DEF Tasks, InSpread
    <3> QED BY <2>1, <3>2 DEF BoxesOver
  <2> QED BY <2>2
<1>6. \A b \in Named : told'[SpreadOf[b]] = "done" => DirtyChunks(b, mem) = {}
  BY <1>5, ShapeAssumption DEF Outcome, Loaded, InSpread
<1>7. \A b \in Named \ hist.touched : told'[SpreadOf[b]] = "done" => DirtyChunks(b, db) = {}
  BY <1>5, ShapeAssumption DEF Outcome, DoneIsStored
<1>8. DoneIsStored'
  BY <1>1, <1>7 DEF DoneIsStored
<1>9. \A b \in Boxes \ hist'.touched :
        ~Visited(SpreadOf[b])' /\ box'[b] \in {"out", "waiting", "skipped", "narrating"} =>
          db'[b] = mem'[b]
  BY <1>1, <1>3 DEF Outcome, Loaded, InSpread
<1> QED BY <1>1, <1>6, <1>8, <1>9 DEF Outcome

LEMMA OutcomeStep ==
  ASSUME OneEntryPerReader, Types, Course, Tasks, Outcome, [Next]_vars
  PROVE  Outcome'
<1> USE DEF work
<1>1. CASE Enqueue
  <2>1. UNCHANGED <<db, mem>> /\ box' = Idle /\ phase' = "queued"
        /\ \A s \in Spreads : told'[s] # "done"
    BY <1>1 DEF Enqueue
  <2>2. DoneIsStored'
    BY <2>1, ShapeAssumption DEF DoneIsStored
  <2> QED BY <2>1, <2>2 DEF Outcome, Idle, Loaded, InSpread
<1>2. CASE Load
  <2>1. phase = "queued" /\ phase' \in {"next", "idle"} /\ UNCHANGED <<db, told, box>>
    BY <1>2 DEF Load, End
  <2>2. \A b \in Boxes : box[b] = "out" /\ told[SpreadOf[b]] # "done"
    <3>1. \A s \in Spreads : told[s] # "done"
      BY <2>1 DEF Course, Visited
    <3> QED BY <2>1, <3>1, ShapeAssumption DEF Course, Idle
  <2>3. phase' = "next" => mem' = db
    BY <1>2 DEF Load, End
  <2>4. DoneIsStored'
    BY <2>1, <2>2, ShapeAssumption DEF DoneIsStored
  <2> QED BY <2>1, <2>2, <2>3, <2>4, ShapeAssumption DEF Outcome, Loaded, InSpread
<1>3. ASSUME UNCHANGED <<db, mem, told, box, hist>>,
             \/ phase' = "idle"
             \/ UNCHANGED <<phase, scope, pos>>
      PROVE  Outcome'
  <2>1. phase' # "idle" => \A s : Visited(s)' <=> Visited(s)
    BY <1>3 DEF Visited
  <2>2. DoneIsStored' <=> DoneIsStored
    BY <1>3 DEF DoneIsStored
  <2> QED BY <1>3, <2>1, <2>2 DEF Outcome, Loaded, InSpread
<1>4. CASE NextSpread
  <2>1. CASE job.cancel
    BY <1>3, <1>4, <2>1 DEF NextSpread, End
  <2>2. CASE ~job.cancel
    <3>1. /\ UNCHANGED <<db, mem, scope, pos, hist>> /\ phase = "next" /\ pos <= Len(scope)
          /\ box' = [b \in Boxes |-> IF b \in BoxesOf(scope[pos]) THEN "waiting" ELSE "out"]
          /\ Report([told EXCEPT ![scope[pos]] = "running"],
                    IF scope[pos] \in memSpreads THEN "work" ELSE "missing")
      BY <1>4, <2>2 DEF NextSpread
    <3>2. \A s : Visited(s)' <=> Visited(s)
      BY <3>1 DEF Visited
    <3>3. phase' \in {"idle", "work", "missing"}
      BY <3>1 DEF Report, End
    <3>4. told' = told \/ told' = [told EXCEPT ![scope[pos]] = "running"]
      BY <3>1 DEF Report
    <3>5. \A s \in Spreads : told'[s] = "done" => told[s] = "done"
      BY <3>4 DEF Types
    <3>6. \A b \in Boxes : SpreadOf[b] \in Spreads /\ box'[b] \in {"waiting", "out"}
      BY <3>1, ShapeAssumption
    <3>7. \A b \in Boxes \ hist.touched : ~Visited(SpreadOf[b]) => db[b] = mem[b]
      BY <3>1 DEF Outcome, Loaded, Tasks
    <3>8. \A b \in Named : told'[SpreadOf[b]] = "done" => DirtyChunks(b, mem') = {}
      BY <3>1, <3>5, <3>6, ShapeAssumption DEF Outcome, Loaded
    <3>9. DoneIsStored'
      BY <3>1, <3>5, <3>6, ShapeAssumption DEF Outcome, DoneIsStored
    <3> QED BY <3>1, <3>2, <3>3, <3>6, <3>7, <3>8, <3>9 DEF Outcome
  <2> QED BY <2>1, <2>2
<1>5. CASE SpreadMissing
  BY <1>5, OutcomeOfClose DEF SpreadMissing
<1>6. CASE Unsaved
  BY <1>6, OutcomeOfClose DEF Unsaved
<1>7. CASE Settle
  <2>1. phase = "settle" /\ Close(IF spread.failed # {} THEN "failed" ELSE "done")
    BY <1>7 DEF Settle
  <2> QED BY <2>1, OutcomeOfClose
<1>8. CASE Persist
  <2>1. /\ phase = "work" /\ BoxesOver /\ UNCHANGED <<mem, scope, pos, told, box, spread, hist>>
        /\ \/ spread.dirty /\ db' = mem /\ phase' = "settle"
           \/ db' = db /\ phase' = "unsaved"
           \/ db' = db /\ phase' = "settle" /\ ~spread.dirty
    BY <1>8 DEF Persist
  <2>2. \A s : Visited(s)' <=> Visited(s)
    BY <2>1 DEF Visited
  <2>3. \A b \in Boxes : box[b] = "skipped" => ~Visited(SpreadOf[b])
    BY <2>1, NotVisitedYet DEF Course, Tasks, InSpread
  <2>4. ASSUME phase' = "settle"
        PROVE  \A b \in Boxes \ hist.touched :
                 box[b] \in {"skipped", "combined"} => DirtyChunks(b, db') = {}
    <3>1. CASE db' = mem
      BY <3>1 DEF Outcome
    <3>2. CASE db' = db /\ ~spread.dirty
      <4>1. \A b \in Boxes : box[b] # "combined"
        BY <3>2 DEF Tasks
      <4>2. \A b \in Boxes \ hist.touched : box[b] = "skipped" => db[b] = mem[b]
        BY <2>1, <2>3 DEF Outcome, Loaded, InSpread
      <4> QED BY <3>2, <4>1, <4>2, DirtyIsLocal DEF Outcome
    <3> QED BY <2>1, <2>4, <3>1, <3>2
  <2>5. DoneIsStored'
    BY <2>1, ShapeAssumption DEF Outcome, DoneIsStored, Loaded, InSpread
  <2>6. \A b \in Boxes \ hist.touched :
          ~Visited(SpreadOf[b]) /\ box[b] \in {"out", "waiting", "skipped", "narrating"} =>
            db'[b] = mem[b]
    BY <2>1 DEF Outcome, Loaded, InSpread
  <2> QED BY <2>1, <2>2, <2>4, <2>5, <2>6 DEF Outcome, Loaded, InSpread
<1>9. CASE Finish
  BY <1>3, <1>9 DEF Finish, End
<1>10. CASE Rests
  BY <1>3, <1>10 DEF Rests
<1>11. ASSUME NEW b \in Boxes, NEW i \in Places(b), Edit(b, i) PROVE Outcome'
  <2>1. UNCHANGED <<mem, phase, scope, pos, told, box>> /\ hist'.touched = hist.touched \cup {b}
    BY <1>11 DEF Edit, Types
  <2>2. \A s : Visited(s)' <=> Visited(s)
    BY <2>1 DEF Visited
  <2>3. \A d \in Boxes \ {b} : db'[d] = db[d] /\ DirtyChunks(d, db') = DirtyChunks(d, db)
    BY <1>11, DirtyIsLocal DEF Edit, Types, IsStore
  <2>4. DoneIsStored'
    BY <2>1, <2>3, ShapeAssumption DEF Outcome, DoneIsStored
  <2> QED BY <2>1, <2>2, <2>3, <2>4 DEF Outcome
<1>12. ASSUME NEW s \in Spreads, RemoveSpread(s) PROVE Outcome'
  <2>1. UNCHANGED <<db, mem, phase, scope, pos, told, box>> /\ hist.touched \subseteq hist'.touched
    BY <1>12 DEF RemoveSpread, Types
  <2>2. \A t : Visited(t)' <=> Visited(t)
    BY <2>1 DEF Visited
  <2>3. DoneIsStored'
    BY <2>1 DEF Outcome, DoneIsStored
  <2> QED BY <2>1, <2>2, <2>3 DEF Outcome
<1>13. ASSUME NEW b \in Boxes, NEW i \in Places(b), NEW state \in {"talking", "said", "lost"},
              PartMoves(b, i, state)
       PROVE  Outcome'
  BY <1>3, <1>13 DEF PartMoves
<1> QED BY <1>1, <1>2, <1>4, <1>5, <1>6, <1>7, <1>8, <1>9, <1>10, <1>11, <1>12, <1>13, OutcomeOfBox,
           StepKinds

-----------------------------------------------------------------------------
(* The theorems                                                            *)

Safe == Types /\ Course /\ Tasks /\ Slots /\ InSync /\ Voicings

LEMMA SafeStep == ASSUME Safe, [Next]_vars PROVE Safe'
<1>1. Types'
  BY TypesStep DEF Safe, Course
<1>2. Course' /\ Tasks' /\ InSync' /\ Voicings'
  BY CourseStep, TasksStep, InSyncStep, VoicingsStep DEF Safe
<1>3. Slots'
  BY <1>1, SlotsStep DEF Safe
<1> QED BY <1>1, <1>2, <1>3 DEF Safe

\* The inductive invariant of the job: each of its parts is kept with the help of the others.
THEOREM SafeInvariant == Spec => []Safe
<1>1. Init => Safe
  BY TypesInit, CourseInit, TasksInit, SlotsInit, InSyncInit, VoicingsInit DEF Safe
<1>2. Safe /\ [Next]_vars => Safe'
  BY SafeStep
<1> QED BY <1>1, <1>2, PTL DEF Spec

\* Types, slots and tallies are right for every book, caps, number of jobs and interleaving: no more
\* textboxes or narrations are in work than their semaphores admit, and updated and failed add up to
\* the spreads behind the position (remix_audio_swap.py's loop and its semaphores).
THEOREM TypeCorrect == Spec => []TypeOK
<1>1. Safe => TypeOK
  <2> SUFFICES ASSUME Safe PROVE TypeOK
    OBVIOUS
  <2>1. \A b \in Boxes : IsAudio(b, db[b]) /\ IsAudio(b, mem[b])
    <3>1. ASSUME NEW b \in Boxes, NEW a \in AudioOf(b) PROVE IsAudio(b, a)
      BY <3>1 DEF IsAudio, AudioOf, ChunkNow, Places
    <3> QED BY <3>1 DEF Safe, Types, IsStore
  <2>2. phase = "next" => /\ tally.updated = Cardinality({s \in Spreads : told[s] = "done"})
                          /\ tally.updated + tally.failed = pos - 1
    BY DEF Safe, Course
  <2> QED BY <2>1, <2>2 DEF Safe, Types, Slots, TypeOK
<1> QED BY <1>1, SafeInvariant, PTL

\* A stored audio is stale only where a combine failed or the book came so, whatever the order of
\* narrations, combines, partial writes, cancels, edits and further jobs.
THEOREM StaleNeedsFailure == Spec => []StaleOnlyAfterFailure
<1>1. Safe => StaleOnlyAfterFailure
  BY DEF Safe, InSync, StaleOnlyAfterFailure
<1> QED BY <1>1, SafeInvariant, PTL

\* A textbox one of whose narrations failed stays in need of regeneration as stored, through every
\* later write of the column, until the next job starts.
THEOREM LostNarrationStaysNeeded == Spec => []FailedNarrationIsRetried
<1>1. Safe => FailedNarrationIsRetried
  BY DEF Safe, Voicings, FailedNarrationIsRetried
<1> QED BY <1>1, SafeInvariant, PTL

\* If no two entries of remix_config.voices are for the same reader, a spread told as done has
\* nothing left to regenerate as stored, but for what the editor touched and the boxes without id.
\* (With two entries for a reader, a narrated chunk may resolve to another voice at once.)
THEOREM DoneSpreadIsStored == ASSUME OneEntryPerReader PROVE Spec => []DoneIsStored
<1>1. Init => Safe /\ Outcome
  BY TypesInit, CourseInit, TasksInit, SlotsInit, InSyncInit, VoicingsInit, OutcomeInit DEF Safe
<1>2. Safe /\ Outcome /\ [Next]_vars => Safe' /\ Outcome'
  BY SafeStep, OutcomeStep DEF Safe
<1>3. Outcome => DoneIsStored
  BY DEF Outcome
<1> QED BY <1>1, <1>2, <1>3, PTL DEF Spec

-----------------------------------------------------------------------------
(* The word timings: numbers                                               *)

LEMMA MinOfIs ==
  ASSUME NEW S \in SUBSET Int, IsFiniteSet(S), S # {}
  PROVE  MinOf(S) \in S /\ \A m \in S : MinOf(S) <= m
<1>1. \E n \in S : \A m \in S : n <= m
  BY LeastExists
<1> QED BY <1>1 DEF MinOf

LEMMA MaxOfIs ==
  ASSUME NEW S \in SUBSET Int, IsFiniteSet(S), S # {}
  PROVE  MaxOf(S) \in S /\ \A m \in S : m <= MaxOf(S)
<1>1. \E n \in S : \A m \in S : m <= n
  BY GreatestExists
<1> QED BY <1>1 DEF MaxOf

LEMMA PartOfInterval ==
  ASSUME NEW m \in Int, NEW n \in Int, NEW S \in SUBSET (m .. n)
  PROVE  S \in SUBSET Int /\ IsFiniteSet(S)
<1>1. IsFiniteSet(m .. n)
  BY FS_Interval
<1>2. IsFiniteSet(S)
  BY <1>1, FS_Subset
<1>3. S \in SUBSET Int
  OBVIOUS
<1> QED BY <1>2, <1>3

-----------------------------------------------------------------------------
(* Words in order                                                          *)

Word == [start : Nat, end : Nat]
\* Tokens of a text: first and last position.
TokenList == {ts \in Seq(Nat \X Nat) : \A n \in DOMAIN ts : ts[n][1] <= ts[n][2]}

\* What the words of one narration are like: in the audio, none before its own start.
Within(words, total) ==
  /\ words \in Seq(Word)
  /\ \A n \in DOMAIN words : words[n].start <= words[n].end /\ words[n].start <= total

-----------------------------------------------------------------------------
(* The linear fallback                                                     *)

LEMMA Shares ==
  ASSUME NEW a \in Nat, NEW c \in Nat \ {0}
  PROVE  a \div c \in Nat /\ (a \div c) * c <= a
OBVIOUS

LEMMA ProductType ==
  ASSUME NEW a \in Int, NEW b \in Int
  PROVE  a * b \in Int
OBVIOUS

LEMMA Distributes ==
  ASSUME NEW a \in Int, NEW b \in Int, NEW c \in Int
  PROVE  (a + b) * c = a * c + b * c /\ c * (a + b) = c * a + c * b
OBVIOUS

LEMMA Cancels ==
  ASSUME NEW a \in Int, NEW b \in Int, NEW c \in Nat \ {0}, a * c <= b * c
  PROVE  a <= b
OBVIOUS

LEMMA TimesGrows ==
  ASSUME NEW a \in Nat, NEW b \in Int, NEW c \in Int, b <= c
  PROVE  a * b <= a * c
OBVIOUS

TokenSize(ts, n) == ts[n][2] - ts[n][1] + 1

LEMMA TokenSizes ==
  ASSUME NEW ts \in TokenList
  PROVE  /\ DOMAIN ts = 1 .. Len(ts) /\ Len(ts) \in Nat
         /\ \A n \in 1 .. Len(ts) : TokenSize(ts, n) \in Nat \ {0}
<1>1. ts \in Seq(Nat \X Nat)
  BY DEF TokenList
<1>2. DOMAIN ts = 1 .. Len(ts) /\ Len(ts) \in Nat
  BY <1>1, LenProperties
<1>3. ASSUME NEW n \in 1 .. Len(ts) PROVE TokenSize(ts, n) \in Nat \ {0}
  <2>1. ts[n] \in Nat \X Nat
    BY <1>1, ElementOfSeq
  <2>2. ts[n][1] <= ts[n][2]
    BY <1>2 DEF TokenList
  <2>3. ts[n][1] \in Nat /\ ts[n][2] \in Nat
    BY <2>1
  <2> QED BY <2>2, <2>3 DEF TokenSize
<1> QED BY <1>2, <1>3

\* What the fallback adds up: sizes of tokens, and the shares of the words before.
Linear(ts, total, chars, from, share) ==
  /\ Accumulates(chars, Len(ts), [n \in 1 .. Len(ts) |-> TokenSize(ts, n)])
  /\ chars[Len(ts)] \in Nat \ {0}
  /\ share = [n \in 1 .. Len(ts) |-> (total * TokenSize(ts, n)) \div chars[Len(ts)]]
  /\ share \in [1 .. Len(ts) -> Nat]
  /\ Precedes(from, Len(ts), share)
  /\ LinearFallback(ts, total) =
       [n \in 1 .. Len(ts) |-> [start |-> from[n], end |-> from[n] + share[n]]]

LEMMA LinearUnfolds ==
  ASSUME NEW ts \in TokenList, NEW total \in Nat, Len(ts) > 0
  PROVE  \E chars, from, share : Linear(ts, total, chars, from, share)
<1> DEFINE N == Len(ts)
           u == [n \in 1 .. N |-> TokenSize(ts, n)]
           IsChars(f) == f = [n \in 0 .. N |-> IF n = 0 THEN 0 ELSE f[n - 1] + (ts[n][2] - ts[n][1] + 1)]
           chars == CHOOSE f : IsChars(f)
           size(n) == ts[n][2] - ts[n][1] + 1
           portion(n) == (total * size(n)) \div chars[N]
           share == [n \in 1 .. N |-> portion(n)]
           IsFrom(f) == f = [n \in 1 .. N |-> IF n = 1 THEN 0 ELSE f[n - 1] + portion(n - 1)]
           from == CHOOSE f : IsFrom(f)
<1>1. N \in Nat \ {0} /\ u \in [1 .. N -> Nat] /\ \A n \in 1 .. N : u[n] = size(n) /\ u[n] > 0
  BY TokenSizes DEF TokenSize
<1>2. Accumulates(chars, N, u)
  <2>1. \A f : Accumulates(f, N, u) <=> IsChars(f)
    <3>1. \A n \in 0 .. N : n # 0 => u[n] = ts[n][2] - ts[n][1] + 1
      BY <1>1
    <3> HIDE DEF u, N
    <3> QED BY <3>1 DEF Accumulates
  <2>2. \E f : IsChars(f)
    <3> HIDE DEF u, IsChars
    <3> QED BY <1>1, <2>1, AccumulateExists
  <2>3. IsChars(chars)
    <3> HIDE DEF IsChars
    <3> QED BY <2>2
  <2> HIDE DEF IsChars, chars, u, N
  <2> QED BY <2>1, <2>3
<1>3. chars[N] \in Nat \ {0}
  <2> HIDE DEF chars, u, N, size
  <2>1. N \in 1 .. N /\ N - 1 \in 0 .. N
    BY <1>1
  <2>2. chars \in [0 .. N -> Nat] /\ \A n \in 1 .. N : chars[n] = chars[n - 1] + u[n]
    BY <1>1, <1>2, AccumulateType
  <2>3. u[N] > 0 /\ u[N] \in Nat
    BY <1>1, <2>1
  <2> QED BY <2>1, <2>2, <2>3
<1>4. share \in [1 .. N -> Nat]
  <2>1. ASSUME NEW n \in 1 .. N PROVE portion(n) \in Nat
    <3>1. size(n) \in Nat
      BY <1>1
    <3>2. total * size(n) \in Nat
      <4> HIDE DEF size
      <4> QED BY <3>1
    <3> HIDE DEF size, chars, N
    <3> QED BY <1>3, <3>2, Shares
  <2> HIDE DEF portion, N
  <2> QED BY <2>1
<1>5. Precedes(from, N, share)
  <2>1. \A f : Precedes(f, N, share) <=> IsFrom(f)
    <3>1. \A n \in 1 .. N : n # 1 => share[n - 1] = portion(n - 1)
      <4>1. \A n \in 1 .. N : n # 1 => n - 1 \in 1 .. N
        BY <1>1
      <4> HIDE DEF portion, N
      <4> QED BY <4>1
    <3> HIDE DEF share, portion, N
    <3> QED BY <3>1 DEF Precedes
  <2>2. \E f : IsFrom(f)
    <3> HIDE DEF share, IsFrom, N
    <3> QED BY <1>1, <1>4, <2>1, PrecedeExists
  <2>3. IsFrom(from)
    <3> HIDE DEF IsFrom
    <3> QED BY <2>2
  <2> HIDE DEF IsFrom, from, share, N
  <2> QED BY <2>1, <2>3
<1>6. LinearFallback(ts, total) = [n \in 1 .. N |-> [start |-> from[n], end |-> from[n] + portion(n)]]
  BY DEF LinearFallback
<1>7. LinearFallback(ts, total) = [n \in 1 .. N |-> [start |-> from[n], end |-> from[n] + share[n]]]
  <2> HIDE DEF from, portion
  <2> QED BY <1>6
<1>8. share = [n \in 1 .. N |-> (total * TokenSize(ts, n)) \div chars[N]]
  BY DEF TokenSize
<1>9. Linear(ts, total, chars, from, share)
  <2> HIDE DEF from, share, chars
  <2> QED BY <1>2, <1>3, <1>4, <1>5, <1>7, <1>8 DEF Linear
<1> HIDE DEF from, share, chars
<1> QED BY <1>9

\* The fallback lays one word after the other and never past the audio.
LEMMA LinearRight ==
  ASSUME NEW ts \in TokenList, NEW total \in Nat, Len(ts) > 0
  PROVE  /\ Within(LinearFallback(ts, total), total) /\ Len(LinearFallback(ts, total)) = Len(ts)
         /\ \A missed : InOrder(LinearFallback(ts, total), missed)
<1> DEFINE N == Len(ts)
           w == LinearFallback(ts, total)
<1>1. PICK chars, from, share : Linear(ts, total, chars, from, share)
  BY LinearUnfolds
<1> DEFINE u == [n \in 1 .. N |-> TokenSize(ts, n)]
           C == chars[N]
<1>2. /\ N \in Nat \ {0} /\ u \in [1 .. N -> Nat] /\ C \in Nat \ {0}
      /\ Accumulates(chars, N, u) /\ Precedes(from, N, share) /\ share \in [1 .. N -> Nat]
      /\ w = [n \in 1 .. N |-> [start |-> from[n], end |-> from[n] + share[n]]]
  BY <1>1, TokenSizes DEF Linear
<1>3. \A n \in 1 .. N : share[n] = (total * u[n]) \div C
  BY <1>1 DEF Linear
<1>0. C = chars[N]
  OBVIOUS
<1> HIDE DEF N, w, u, C
<1>4. chars \in [0 .. N -> Nat] /\ chars[0] = 0 /\ \A n \in 1 .. N : chars[n] = chars[n - 1] + u[n]
  BY <1>2, AccumulateType
<1>5. from \in [1 .. N -> Nat] /\ from[1] = 0 /\ \A n \in 1 .. N - 1 : from[n + 1] = from[n] + share[n]
  <2>1. N \in Nat /\ N > 0
    BY <1>2
  <2>2. from \in [1 .. N -> Nat]
    BY <1>2, <2>1, PrecedeType
  <2>3. N > 0 => from[1] = 0
    BY <1>2, <2>1, PrecedeType
  <2>4. ASSUME NEW n \in 1 .. N - 1 PROVE from[n + 1] = from[n] + share[n]
    <3>1. n + 1 \in 1 .. N /\ n + 1 # 1 /\ (n + 1) - 1 = n
      BY <2>1
    <3> QED BY <1>2, <3>1 DEF Precedes
  <2> QED BY <2>1, <2>2, <2>3, <2>4
<1>6. ASSUME NEW n \in 1 .. N PROVE share[n] * C <= total * u[n]
  <2>1. total * u[n] \in Nat
    <3>1. u[n] \in Nat
      BY <1>2
    <3> QED BY <3>1
  <2> QED BY <1>2, <1>3, <2>1, Shares
<1>7. ASSUME NEW n \in 1 .. N PROVE (from[n] + share[n]) * C <= total * chars[n]
  <2> DEFINE S == {k \in 0 .. N : k # 0 => (from[k] + share[k]) * C <= total * chars[k]}
  <2>1. 0 \in S
    BY <1>2
  <2>2. ASSUME NEW k \in 0 .. N - 1, k \in S PROVE k + 1 \in S
    <3>1. k + 1 \in 1 .. N /\ (k + 1) - 1 = k
      BY <1>2
    <3>2. share[k + 1] \in Nat /\ from[k + 1] \in Nat /\ u[k + 1] \in Nat /\ chars[k] \in Nat
      BY <1>2, <1>4, <1>5, <3>1
    <3>3. chars[k + 1] = chars[k] + u[k + 1]
      BY <1>4, <3>1
    <3>4. (from[k + 1] + share[k + 1]) * C = from[k + 1] * C + share[k + 1] * C
      BY <1>2, <3>2, Distributes
    <3>5. total * (chars[k] + u[k + 1]) = total * chars[k] + total * u[k + 1]
      BY <3>2, Distributes
    <3>6. from[k + 1] * C <= total * chars[k]
      <4>1. CASE k = 0
        <5>1. from[k + 1] * C = 0 /\ total * chars[k] = 0
          BY <1>2, <1>4, <1>5, <4>1
        <5> QED BY <5>1
      <4>2. CASE k # 0
        <5>1. k \in 1 .. N - 1
          BY <4>2
        <5>2. from[k + 1] = from[k] + share[k]
          BY <1>5, <5>1
        <5> QED BY <2>2, <4>2, <5>2
      <4> QED BY <4>1, <4>2
    <3>7. share[k + 1] * C <= total * u[k + 1]
      BY <1>6, <3>1
    <3>8. /\ from[k + 1] * C \in Int /\ share[k + 1] * C \in Int
          /\ total * chars[k] \in Int /\ total * u[k + 1] \in Int
      <4>1. /\ total \in Int /\ C \in Int /\ from[k + 1] \in Int /\ share[k + 1] \in Int
            /\ chars[k] \in Int /\ u[k + 1] \in Int
        BY <1>2, <3>2
      <4> QED BY <4>1, ProductType
    <3>9. (from[k + 1] + share[k + 1]) * C <= total * chars[k + 1]
      BY <3>3, <3>4, <3>5, <3>6, <3>7, <3>8
    <3> QED BY <3>1, <3>9
  <2>3. 0 .. N \subseteq S
    <3> HIDE DEF S
    <3> QED BY <1>2, <2>1, <2>2, UpTo
  <2> QED BY <2>3
<1>8. ASSUME NEW n \in 1 .. N PROVE from[n] + share[n] <= total
  <2>1. chars[n] <= C /\ chars[n] \in Nat
    <3>1. \A i \in 0 .. N : chars[i] \in Int
      BY <1>4
    <3>2. ASSUME NEW i \in 0 .. N - 1 PROVE chars[i] <= chars[i + 1]
      <4>1. i + 1 \in 1 .. N /\ (i + 1) - 1 = i /\ i \in 0 .. N
        BY <1>2
      <4>2. chars[i + 1] = chars[i] + u[i + 1] /\ u[i + 1] \in Nat /\ chars[i] \in Nat
        BY <1>2, <1>4, <4>1
      <4> QED BY <4>2
    <3>3. n \in 0 .. N /\ N \in 0 .. N /\ n <= N
      BY <1>2
    <3>4. chars[n] <= chars[N]
      BY <1>2, <3>1, <3>2, <3>3, StepwiseGrows
    <3> QED BY <1>0, <1>4, <3>3, <3>4
  <2>2. total * chars[n] <= total * C
    <3>1. total \in Nat /\ chars[n] \in Int /\ C \in Int /\ chars[n] <= C
      BY <1>2, <2>1
    <3> QED BY <3>1, TimesGrows
  <2>3. from[n] + share[n] \in Int
    BY <1>2, <1>5
  <2>4. (from[n] + share[n]) * C <= total * C
    <3>1. total * chars[n] \in Int /\ total * C \in Int /\ (from[n] + share[n]) * C \in Int
      <4>1. total \in Int /\ C \in Int /\ chars[n] \in Int
        BY <1>2, <2>1
      <4> QED BY <2>3, <4>1, ProductType
    <3> QED BY <1>7, <2>2, <3>1
  <2> QED BY <1>2, <2>3, <2>4, Cancels
<1>9. \A n \in 1 .. N : from[n] \in Nat /\ share[n] \in Nat
  BY <1>2, <1>5
<1>10. w \in [1 .. N -> Word] /\ \A n \in 1 .. N : w[n].start = from[n] /\ w[n].end = from[n] + share[n]
  BY <1>2, <1>9 DEF Word
<1>11. w \in Seq(Word) /\ Len(w) = N /\ DOMAIN w = 1 .. N
  BY <1>2, <1>10, FunctionIsSeq
<1>12. Within(w, total)
  <2>1. ASSUME NEW n \in 1 .. N PROVE w[n].start <= w[n].end /\ w[n].start <= total
    BY <1>8, <1>9, <1>10
  <2> QED BY <1>11, <2>1 DEF Within
<1>13. ASSUME NEW m \in 1 .. N, NEW n \in 1 .. N, m < n PROVE w[m].end <= w[n].start
  <2>1. \A i \in 1 .. N : from[i] \in Int
    BY <1>9
  <2>2. ASSUME NEW i \in 1 .. N - 1 PROVE from[i] <= from[i + 1]
    <3>1. i \in 1 .. N /\ from[i + 1] = from[i] + share[i]
      BY <1>2, <1>5
    <3>2. from[i] \in Nat /\ share[i] \in Nat
      BY <1>9, <3>1
    <3> QED BY <3>1, <3>2
  <2>3. m + 1 \in 1 .. N /\ m \in 1 .. N - 1 /\ m + 1 <= n
    BY <1>2, <1>13
  <2>4. from[m + 1] <= from[n]
    BY <1>2, <2>1, <2>2, <2>3, StepwiseGrows
  <2>5. from[m + 1] = from[m] + share[m]
    BY <1>5, <2>3
  <2> QED BY <1>10, <2>4, <2>5
<1>14. ASSUME NEW missed PROVE InOrder(w, missed)
  BY <1>11, <1>13 DEF InOrder
<1> QED BY <1>11, <1>12, <1>14 DEF w, N

-----------------------------------------------------------------------------
(* The matches                                                             *)

Match == [from : Int, to : Int, cursor : Int]
NoMatch == [from |-> -1, to |-> -1, cursor |-> 1]

\* The match of token n after the match prev.
NextMatch(text, ts, align, n, prev) ==
  LET hits == {i \in prev.cursor .. Len(align.chars) : align.chars[i] = text[ts[n][1]]}
      to == MinOf(hits) + ts[n][2] - ts[n][1]
  IN IF hits # {} /\ to <= Len(align.chars)
     THEN [from |-> MinOf(hits), to |-> to, cursor |-> to + 1]
     ELSE [Unmatched EXCEPT !.cursor = prev.cursor]

LEMMA NextMatchIs ==
  ASSUME NEW text, NEW ts \in TokenList, NEW align, Len(align.chars) \in Nat,
         NEW n \in 1 .. Len(ts), NEW prev \in Match, NEW r, r = NextMatch(text, ts, align, n, prev)
  PROVE  /\ r \in Match
         /\ \/ /\ prev.cursor <= r.from /\ r.from <= r.to /\ r.to <= Len(align.chars)
               /\ r.cursor = r.to + 1
            \/ r.from = -1 /\ r.cursor = prev.cursor
<1> DEFINE hits == {i \in prev.cursor .. Len(align.chars) : align.chars[i] = text[ts[n][1]]}
           to == MinOf(hits) + ts[n][2] - ts[n][1]
<1>1. ts[n][1] \in Nat /\ ts[n][2] \in Nat /\ ts[n][1] <= ts[n][2]
  <2>1. ts \in Seq(Nat \X Nat)
    BY DEF TokenList
  <2>2. ts[n] \in Nat \X Nat /\ n \in DOMAIN ts
    BY <2>1, ElementOfSeq, LenProperties
  <2> QED BY <2>2 DEF TokenList
<1>2. prev.cursor \in Int /\ hits \in SUBSET (prev.cursor .. Len(align.chars))
  BY DEF Match
<1>3. CASE hits # {} /\ to <= Len(align.chars)
  <2>1. MinOf(hits) \in hits
    <3> HIDE DEF hits
    <3>1. hits \in SUBSET Int /\ IsFiniteSet(hits)
      <4>1. Len(align.chars) \in Int /\ prev.cursor \in Int
        BY <1>2
      <4> QED BY <1>2, <4>1, PartOfInterval
    <3> QED BY <1>3, <3>1, MinOfIs
  <2>2. MinOf(hits) \in Int /\ prev.cursor <= MinOf(hits)
    BY <1>2, <2>1
  <2>3. r = [from |-> MinOf(hits), to |-> to, cursor |-> to + 1]
    BY <1>3 DEF NextMatch
  <2> HIDE DEF hits
  <2>4. to \in Int /\ MinOf(hits) <= to
    BY <1>1, <2>2
  <2> HIDE DEF to
  <2> QED BY <1>3, <2>2, <2>3, <2>4 DEF Match
<1>4. CASE ~(hits # {} /\ to <= Len(align.chars))
  <2>1. r = [Unmatched EXCEPT !.cursor = prev.cursor]
    BY <1>4 DEF NextMatch
  <2> QED BY <1>2, <2>1 DEF Unmatched, Match
<1> QED BY <1>3, <1>4

Found(f, text, ts, align) ==
  /\ f \in [0 .. Len(ts) -> Match] /\ f[0] = NoMatch
  /\ \A n \in 1 .. Len(ts) : f[n] = NextMatch(text, ts, align, n, f[n - 1])
  /\ Matches(text, ts, align) = [n \in 1 .. Len(ts) |-> f[n]]

LEMMA MatchesUnfold ==
  ASSUME NEW text, NEW ts \in TokenList, NEW align, Len(align.chars) \in Nat
  PROVE  \E f : Found(f, text, ts, align)
<1> DEFINE N == Len(ts)
           h == [x \in (1 .. N) \X Match |-> NextMatch(text, ts, align, x[1], x[2])]
           Is(f) == f = [n \in 0 .. N |->
                          IF n = 0 THEN [from |-> -1, to |-> -1, cursor |-> 1]
                          ELSE LET cursor == f[n - 1].cursor
                                   hits == {i \in cursor .. Len(align.chars) :
                                              align.chars[i] = text[ts[n][1]]}
                                   to == MinOf(hits) + ts[n][2] - ts[n][1]
                               IN IF hits # {} /\ to <= Len(align.chars)
                                  THEN [from |-> MinOf(hits), to |-> to, cursor |-> to + 1]
                                  ELSE [Unmatched EXCEPT !.cursor = cursor]]
           found == CHOOSE f : Is(f)
<1>1. N \in Nat /\ NoMatch \in Match
  BY TokenSizes DEF NoMatch, Match
<1>2. h \in [(1 .. N) \X Match -> Match]
  BY NextMatchIs
<1>3. PICK g \in [0 .. N -> Match] : Unfolds(g, N, NoMatch, h)
  <2> HIDE DEF h, N
  <2> QED BY <1>1, <1>2, Recursion
<1>4. \A f : Is(f) <=> f = [n \in 0 .. N |->
                            IF n = 0 THEN NoMatch ELSE NextMatch(text, ts, align, n, f[n - 1])]
  BY DEF NoMatch, NextMatch
<1>5. Is(g)
  <2>1. ASSUME NEW n \in 0 .. N
        PROVE  g[n] = IF n = 0 THEN NoMatch ELSE NextMatch(text, ts, align, n, g[n - 1])
    <3>1. g[n] = IF n = 0 THEN NoMatch ELSE h[<<n, g[n - 1]>>]
      <4> HIDE DEF h, N
      <4> QED BY <1>3 DEF Unfolds
    <3>2. n # 0 => n \in 1 .. N /\ g[n - 1] \in Match
      <4>1. n # 0 => n \in 1 .. N /\ n - 1 \in 0 .. N
        BY <1>1
      <4> HIDE DEF N
      <4> QED BY <4>1
    <3>3. n # 0 => h[<<n, g[n - 1]>>] = NextMatch(text, ts, align, n, g[n - 1])
      <4> HIDE DEF N
      <4> QED BY <3>2
    <3> HIDE DEF h
    <3> QED BY <3>1, <3>3
  <2>2. g = [n \in 0 .. N |-> g[n]]
    <3> HIDE DEF N
    <3> QED BY <1>3
  <2> HIDE DEF Is, N
  <2> QED BY <1>4, <2>1, <2>2
<1>6. Is(found)
  <2> HIDE DEF Is
  <2> QED BY <1>5
<1>7. found = [n \in 0 .. N |->
                 IF n = 0 THEN NoMatch ELSE NextMatch(text, ts, align, n, found[n - 1])]
  <2> HIDE DEF Is, found
  <2> QED BY <1>4, <1>6
<1>8. Matches(text, ts, align) = [n \in 1 .. N |-> found[n]]
  BY DEF Matches
<1> HIDE DEF found, N
<1>9. found[0] = NoMatch /\ \A n \in 1 .. N : found[n] = NextMatch(text, ts, align, n, found[n - 1])
  <2>1. 0 \in 0 .. N /\ \A n \in 1 .. N : n \in 0 .. N /\ n # 0
    BY <1>1
  <2>2. \A n \in 0 .. N :
          found[n] = IF n = 0 THEN NoMatch ELSE NextMatch(text, ts, align, n, found[n - 1])
    BY <1>7
  <2> QED BY <2>1, <2>2
<1>10. found \in [0 .. N -> Match]
  <2> DEFINE S == {k \in 0 .. N : found[k] \in Match}
  <2>1. 0 \in S
    BY <1>1, <1>9
  <2>2. ASSUME NEW k \in 0 .. N - 1, k \in S PROVE k + 1 \in S
    <3>1. k + 1 \in 1 .. N /\ (k + 1) - 1 = k
      BY <1>1
    <3>2. found[k + 1] = NextMatch(text, ts, align, k + 1, found[k])
      BY <1>9, <3>1
    <3>3. found[k + 1] \in Match
      BY <2>2, <3>1, <3>2, NextMatchIs DEF N
    <3> QED BY <3>1, <3>3
  <2>3. 0 .. N \subseteq S
    <3> HIDE DEF S
    <3> QED BY <1>1, <2>1, <2>2, UpTo
  <2>4. found = [n \in 0 .. N |-> found[n]]
    BY <1>7
  <2> QED BY <2>3, <2>4
<1>11. Found(found, text, ts, align)
  BY <1>8, <1>9, <1>10 DEF Found, N
<1> QED BY <1>11

\* The tokens that are matched are matched in order, each after the one before.
LEMMA MatchesRight ==
  ASSUME NEW text, NEW ts \in TokenList, NEW align, Len(align.chars) \in Nat
  PROVE  LET M == Matches(text, ts, align) IN
         /\ M \in [1 .. Len(ts) -> Match] /\ Missed(M) \subseteq 1 .. Len(ts)
         /\ \A n \in 1 .. Len(ts) \ Missed(M) :
              1 <= M[n].from /\ M[n].from <= M[n].to /\ M[n].to <= Len(align.chars)
         /\ \A m, n \in 1 .. Len(ts) \ Missed(M) : m < n => M[m].to < M[n].from
<1> DEFINE N == Len(ts)
           M == Matches(text, ts, align)
<1>1. PICK f : Found(f, text, ts, align)
  BY MatchesUnfold
<1>2. f \in [0 .. N -> Match] /\ f[0] = NoMatch /\ M = [n \in 1 .. N |-> f[n]] /\ N \in Nat
  BY <1>1, TokenSizes DEF Found
<1>3. \A n \in 1 .. N : f[n] = NextMatch(text, ts, align, n, f[n - 1])
  BY <1>1 DEF Found
<1> DEFINE c == [i \in 0 .. N |-> f[i].cursor]
<1>4. ASSUME NEW n \in 1 .. N
      PROVE  \/ /\ f[n - 1].cursor <= f[n].from /\ f[n].from <= f[n].to
                /\ f[n].to <= Len(align.chars) /\ f[n].cursor = f[n].to + 1
             \/ f[n].from = -1 /\ f[n].cursor = f[n - 1].cursor
  <2>1. n - 1 \in 0 .. N
    BY <1>2
  <2>2. f[n - 1] \in Match /\ f[n] = NextMatch(text, ts, align, n, f[n - 1])
    <3> HIDE DEF N
    <3> QED BY <1>2, <1>3, <2>1
  <2> QED BY <2>2, NextMatchIs
<1> HIDE DEF M, N
<1>5. \A i \in 0 .. N : c[i] \in Int /\ f[i] \in Match /\ c[i] = f[i].cursor
  BY <1>2 DEF Match
<1>6. ASSUME NEW i \in 0 .. N - 1 PROVE c[i] <= c[i + 1]
  <2>1. i + 1 \in 1 .. N /\ (i + 1) - 1 = i /\ i \in 0 .. N /\ i + 1 \in 0 .. N
    BY <1>2
  <2>2. \/ f[i].cursor <= f[i + 1].from /\ f[i + 1].from <= f[i + 1].to
           /\ f[i + 1].cursor = f[i + 1].to + 1
        \/ f[i + 1].cursor = f[i].cursor
    BY <1>4, <2>1
  <2>3. /\ f[i].cursor \in Int /\ f[i + 1].cursor \in Int /\ f[i + 1].from \in Int
        /\ f[i + 1].to \in Int
    BY <1>5, <2>1 DEF Match
  <2> HIDE DEF c
  <2> QED BY <1>5, <2>1, <2>2, <2>3
<1>7. ASSUME NEW i \in 0 .. N, NEW j \in 0 .. N, i <= j PROVE f[i].cursor <= f[j].cursor
  <2> HIDE DEF c
  <2>1. c[i] <= c[j]
    BY <1>2, <1>5, <1>6, <1>7, StepwiseGrows
  <2> QED BY <1>5, <2>1
<1>8. DOMAIN M = 1 .. N /\ \A n \in 1 .. N : M[n] = f[n] /\ M[n] \in Match
  BY <1>2
<1>9. ASSUME NEW n \in 1 .. N, n \notin Missed(M)
      PROVE  /\ f[n - 1].cursor <= f[n].from /\ f[n].from <= f[n].to
             /\ f[n].to <= Len(align.chars) /\ f[n].cursor = f[n].to + 1 /\ 1 <= f[n].from
  <2>1. f[n].from # -1
    BY <1>8, <1>9 DEF Missed
  <2>2. f[0].cursor <= f[n - 1].cursor
    <3>1. 0 \in 0 .. N /\ n - 1 \in 0 .. N /\ 0 <= n - 1
      BY <1>2
    <3> QED BY <1>7, <3>1
  <2>3. f[0].cursor = 1 /\ f[n - 1].cursor \in Int /\ f[n].from \in Int
    <3>1. 0 \in 0 .. N /\ n - 1 \in 0 .. N /\ n \in 0 .. N
      BY <1>2
    <3> QED BY <1>2, <1>5, <3>1 DEF NoMatch, Match
  <2> QED BY <1>4, <2>1, <2>2, <2>3
<1>10. ASSUME NEW m \in 1 .. N, NEW n \in 1 .. N, m < n, m \notin Missed(M), n \notin Missed(M)
       PROVE  M[m].to < M[n].from
  <2>1. m \in 0 .. N /\ n - 1 \in 0 .. N /\ n \in 0 .. N /\ m <= n - 1
    BY <1>2, <1>10
  <2>2. f[m].cursor <= f[n - 1].cursor
    BY <1>7, <2>1
  <2>3. f[m].cursor = f[m].to + 1 /\ f[n - 1].cursor <= f[n].from
    BY <1>9, <1>10
  <2>4. f[m].cursor \in Int /\ f[m].to \in Int /\ f[n - 1].cursor \in Int /\ f[n].from \in Int
    BY <1>5, <2>1 DEF Match
  <2>5. f[m].to < f[n].from
    BY <2>2, <2>3, <2>4
  <2> QED BY <1>8, <2>5
<1>11. M \in [1 .. N -> Match] /\ Missed(M) \subseteq 1 .. N
  BY <1>2, <1>8 DEF Missed
<1>12. \A n \in 1 .. N \ Missed(M) :
         1 <= M[n].from /\ M[n].from <= M[n].to /\ M[n].to <= Len(align.chars)
  BY <1>8, <1>9
<1> QED BY <1>10, <1>11, <1>12 DEF M, N

-----------------------------------------------------------------------------
(* The gaps                                                                *)

\* The matched words of a narration: in the audio, one after the other.
Spanned(missed, s, total) ==
  /\ missed \subseteq 1 .. Len(s) /\ s \in Seq(Word) /\ total \in Nat
  /\ \A n \in 1 .. Len(s) \ missed : s[n].start <= s[n].end /\ s[n].end <= total
  /\ \A m, n \in 1 .. Len(s) \ missed : m < n => s[m].end <= s[n].start

\* The times a missed word lies between.
GapStart(missed, n, s) ==
  LET before == {m \in 1 .. n - 1 : m \notin missed}
  IN IF before = {} THEN 0 ELSE s[MaxOf(before)].end
GapEnd(missed, n, s, total) ==
  LET after == {m \in n + 1 .. Len(s) : m \notin missed}
  IN IF after = {} THEN total ELSE s[MinOf(after)].start

LEMMA SpannedTypes ==
  ASSUME NEW missed, NEW s, NEW total, Spanned(missed, s, total)
  PROVE  /\ Len(s) \in Nat /\ DOMAIN s = 1 .. Len(s) /\ total \in Nat
         /\ \A n \in 1 .. Len(s) : s[n] \in Word /\ s[n].start \in Nat /\ s[n].end \in Nat
<1>1. s \in Seq(Word) /\ total \in Nat
  BY DEF Spanned
<1>2. Len(s) \in Nat /\ DOMAIN s = 1 .. Len(s)
  BY <1>1, LenProperties
<1>3. \A n \in 1 .. Len(s) : s[n] \in Word
  BY <1>1, ElementOfSeq
<1> QED BY <1>1, <1>2, <1>3 DEF Word

\* No match before a missed word ends after the time its gap starts with.
LEMMA PrevIs ==
  ASSUME NEW missed, NEW s, NEW total, Spanned(missed, s, total), NEW n \in 1 .. Len(s)
  PROVE  /\ GapStart(missed, n, s) \in 0 .. total
         /\ \A m \in 1 .. n - 1 : m \notin missed => s[m].end <= GapStart(missed, n, s)
         /\ \/ GapStart(missed, n, s) = 0
            \/ \E m \in 1 .. n - 1 : m \notin missed /\ GapStart(missed, n, s) = s[m].end
<1> DEFINE before == {m \in 1 .. n - 1 : m \notin missed}
<1>1. Len(s) \in Nat /\ n \in Int /\ total \in Nat
  BY SpannedTypes
<1>2. \A m \in before : m \in 1 .. Len(s) \ missed /\ m \in Int
  BY <1>1
<1>3. \A m \in 1 .. n - 1 : m \notin missed => m \in before
  OBVIOUS
<1>4. CASE before = {}
  <2>1. GapStart(missed, n, s) = 0
    BY <1>4 DEF GapStart
  <2> QED BY <1>1, <1>3, <1>4, <2>1
<1>5. CASE before # {}
  <2>1. GapStart(missed, n, s) = s[MaxOf(before)].end
    BY <1>5 DEF GapStart
  <2>2. before \in SUBSET (1 .. n - 1)
    OBVIOUS
  <2> HIDE DEF before
  <2>3. before \in SUBSET Int /\ IsFiniteSet(before)
    <3>1. 1 \in Int /\ n - 1 \in Int
      BY <1>1
    <3> QED BY <2>2, <3>1, PartOfInterval
  <2>4. MaxOf(before) \in before /\ \A m \in before : m <= MaxOf(before)
    BY <1>5, <2>3, MaxOfIs
  <2>5. PICK p \in before : p = MaxOf(before)
    BY <2>4
  <2>6. p \in 1 .. Len(s) \ missed /\ GapStart(missed, n, s) = s[p].end
    BY <1>2, <2>1, <2>5
  <2>7. s[p].end \in Nat /\ s[p].end <= total /\ s[p].start \in Nat /\ s[p].start <= s[p].end
    BY <2>6, SpannedTypes DEF Spanned
  <2>8. ASSUME NEW m \in before PROVE s[m].end <= s[p].end
    <3>1. CASE m = p
      BY <2>7, <3>1
    <3>2. CASE m # p
      <4>1. m < p /\ m \in 1 .. Len(s) \ missed
        BY <1>2, <2>4, <2>5, <3>2
      <4>2. s[m].end <= s[p].start /\ s[m].end \in Nat
        BY <2>6, <4>1, SpannedTypes DEF Spanned
      <4> QED BY <2>7, <4>2
    <3> QED BY <3>1, <3>2
  <2> QED BY <1>1, <1>3, <2>2, <2>6, <2>7, <2>8
<1> QED BY <1>4, <1>5

\* And none after it starts before the time its gap ends with.
LEMMA NextIs ==
  ASSUME NEW missed, NEW s, NEW total, Spanned(missed, s, total), NEW n \in 1 .. Len(s)
  PROVE  /\ GapEnd(missed, n, s, total) \in 0 .. total
         /\ \A m \in n + 1 .. Len(s) : m \notin missed => GapEnd(missed, n, s, total) <= s[m].start
         /\ \/ GapEnd(missed, n, s, total) = total
            \/ \E m \in n + 1 .. Len(s) : m \notin missed /\ GapEnd(missed, n, s, total) = s[m].start
<1> DEFINE after == {m \in n + 1 .. Len(s) : m \notin missed}
<1>1. Len(s) \in Nat /\ n \in Int /\ total \in Nat
  BY SpannedTypes
<1>2. \A m \in after : m \in 1 .. Len(s) \ missed /\ m \in Int
  BY <1>1
<1>3. \A m \in n + 1 .. Len(s) : m \notin missed => m \in after
  OBVIOUS
<1>4. CASE after = {}
  <2>1. GapEnd(missed, n, s, total) = total
    BY <1>4 DEF GapEnd
  <2> QED BY <1>1, <1>3, <1>4, <2>1
<1>5. CASE after # {}
  <2>1. GapEnd(missed, n, s, total) = s[MinOf(after)].start
    BY <1>5 DEF GapEnd
  <2>2. after \in SUBSET (n + 1 .. Len(s))
    OBVIOUS
  <2> HIDE DEF after
  <2>3. after \in SUBSET Int /\ IsFiniteSet(after)
    <3>1. n + 1 \in Int /\ Len(s) \in Int
      BY <1>1
    <3> QED BY <2>2, <3>1, PartOfInterval
  <2>4. MinOf(after) \in after /\ \A m \in after : MinOf(after) <= m
    BY <1>5, <2>3, MinOfIs
  <2>5. PICK p \in after : p = MinOf(after)
    BY <2>4
  <2>6. p \in 1 .. Len(s) \ missed /\ GapEnd(missed, n, s, total) = s[p].start
    BY <1>2, <2>1, <2>5
  <2>7. s[p].end \in Nat /\ s[p].end <= total /\ s[p].start \in Nat /\ s[p].start <= s[p].end
    BY <2>6, SpannedTypes DEF Spanned
  <2>8. ASSUME NEW m \in after PROVE s[p].start <= s[m].start
    <3>1. CASE m = p
      BY <2>7, <3>1
    <3>2. CASE m # p
      <4>1. p < m /\ m \in 1 .. Len(s) \ missed
        BY <1>2, <2>4, <2>5, <3>2
      <4>2. s[p].end <= s[m].start /\ s[m].start \in Nat
        BY <2>6, <4>1, SpannedTypes DEF Spanned
      <4> QED BY <2>7, <4>2
    <3> QED BY <3>1, <3>2
  <2> QED BY <1>1, <1>3, <2>2, <2>6, <2>7, <2>8
<1> QED BY <1>4, <1>5

LEMMA PrevBeforeNext ==
  ASSUME NEW missed, NEW s, NEW total, Spanned(missed, s, total), NEW n \in 1 .. Len(s)
  PROVE  GapStart(missed, n, s) <= GapEnd(missed, n, s, total)
<1>1. GapStart(missed, n, s) \in 0 .. total /\ GapEnd(missed, n, s, total) \in 0 .. total
  BY PrevIs, NextIs
<1>2. CASE GapStart(missed, n, s) = 0
  BY <1>1, <1>2
<1>3. CASE GapEnd(missed, n, s, total) = total
  BY <1>1, <1>3
<1>4. CASE GapStart(missed, n, s) # 0 /\ GapEnd(missed, n, s, total) # total
  <2>1. PICK p \in 1 .. n - 1 : p \notin missed /\ GapStart(missed, n, s) = s[p].end
    BY <1>4, PrevIs
  <2>2. PICK q \in n + 1 .. Len(s) : q \notin missed /\ GapEnd(missed, n, s, total) = s[q].start
    BY <1>4, NextIs
  <2>3. Len(s) \in Nat
    BY SpannedTypes
  <2>4. p \in 1 .. Len(s) \ missed /\ q \in 1 .. Len(s) \ missed /\ p < q
    BY <2>1, <2>2, <2>3
  <2> QED BY <2>1, <2>2, <2>4 DEF Spanned
<1> QED BY <1>2, <1>3, <1>4

LEMMA Parts ==
  ASSUME NEW a \in Nat, NEW c \in Nat \ {0}
  PROVE  a \div c \in 0 .. a
OBVIOUS

\* A missed word starts with its gap and does not outlast it.
LEMMA GapIs ==
  ASSUME NEW missed, NEW s, NEW total, Spanned(missed, s, total), NEW n \in missed
  PROVE  /\ FillGap(missed, n, s, total) \in Word
         /\ FillGap(missed, n, s, total).start = GapStart(missed, n, s)
         /\ FillGap(missed, n, s, total).start <= FillGap(missed, n, s, total).end
         /\ FillGap(missed, n, s, total).end <= GapEnd(missed, n, s, total)
<1> DEFINE p == GapStart(missed, n, s)
           q == GapEnd(missed, n, s, total)
           G == Gap(missed, n, Len(s))
           share == (q - p) \div Cardinality(G)
<1>1. n \in 1 .. Len(s) /\ Len(s) \in Nat
  BY SpannedTypes DEF Spanned
<1>2. FillGap(missed, n, s, total) = [start |-> p, end |-> p + MaxOf({0, share})]
  BY DEF FillGap, GapStart, GapEnd
<1>3. p \in Nat /\ q \in Nat /\ p <= q
  <2>1. p \in 0 .. total /\ q \in 0 .. total /\ total \in Nat
    BY <1>1, PrevIs, NextIs, SpannedTypes
  <2> QED BY <1>1, <2>1, PrevBeforeNext
<1>4. n \in G
  <2>1. MinOf({n, n}) = n /\ MaxOf({n, n}) = n
    <3>1. {n, n} \in SUBSET Int /\ IsFiniteSet({n, n}) /\ {n, n} # {}
      <4>1. {n, n} = {n} /\ IsFiniteSet({n})
        BY FS_Singleton
      <4> QED BY <1>1, <4>1
    <3> QED BY <3>1, MinOfIs, MaxOfIs
  <2>2. \A k \in n .. n : k \in missed
    BY <1>1
  <2> QED BY <1>1, <2>1, <2>2 DEF Gap
<1>5. Cardinality(G) \in Nat \ {0}
  <2>1. G \in SUBSET (1 .. Len(s))
    BY DEF Gap
  <2>2. IsFiniteSet(G)
    <3> HIDE DEF G
    <3>1. 1 \in Int /\ Len(s) \in Int
      BY <1>1
    <3> QED BY <2>1, <3>1, PartOfInterval
  <2> HIDE DEF G
  <2> QED BY <1>4, <2>2, FS_CardinalityType, FS_EmptySet
<1> HIDE DEF p, q, G
<1>6. share \in 0 .. q - p
  <2>1. q - p \in Nat
    BY <1>3
  <2> QED BY <1>5, <2>1, Parts
<1> HIDE DEF share
<1>7. MaxOf({0, share}) \in 0 .. q - p
  <2>1. {0, share} \in SUBSET Int /\ {0, share} # {}
    BY <1>3, <1>6
  <2>2. IsFiniteSet({0, share})
    BY <1>3, <1>6, PartOfInterval
  <2>3. MaxOf({0, share}) \in {0, share}
    BY <2>1, <2>2, MaxOfIs
  <2> QED BY <1>3, <1>6, <2>3
<1>8. /\ FillGap(missed, n, s, total) \in Word
      /\ FillGap(missed, n, s, total).start = p
      /\ FillGap(missed, n, s, total).start <= FillGap(missed, n, s, total).end
      /\ FillGap(missed, n, s, total).end <= q
  BY <1>2, <1>3, <1>7 DEF Word
<1> QED BY <1>8 DEF p, q

\* The words of a narration with gaps: in order, those of one gap with a start in common.
LEMMA GapsRight ==
  ASSUME NEW missed, NEW s, NEW total, Spanned(missed, s, total)
  PROVE  /\ Within(FillGaps(missed, s, total), total)
         /\ Len(FillGaps(missed, s, total)) = Len(s)
         /\ InOrder(FillGaps(missed, s, total), missed)
<1> DEFINE w == FillGaps(missed, s, total)
           N == Len(s)
<1>1. /\ N \in Nat /\ DOMAIN s = 1 .. N /\ total \in Nat /\ missed \subseteq 1 .. N
      /\ \A n \in 1 .. N : s[n] \in Word /\ s[n].start \in Nat /\ s[n].end \in Nat
  BY SpannedTypes DEF Spanned
<1>2. w = [n \in 1 .. N |-> IF n \in missed THEN FillGap(missed, n, s, total) ELSE s[n]]
  BY <1>1 DEF FillGaps
<1> HIDE DEF w
<1>3. \A n \in 1 .. N \ missed : w[n] = s[n]
  BY <1>2
<1>4. \A n \in missed : w[n] = FillGap(missed, n, s, total)
  BY <1>1, <1>2
<1>5. \A n \in 1 .. N : w[n] \in Word
  <2>1. \A n \in missed : w[n] \in Word
    BY <1>4, GapIs
  <2> QED BY <1>1, <1>3, <2>1
<1>6. w \in [1 .. N -> Word]
  BY <1>2, <1>5
<1>7. w \in Seq(Word) /\ Len(w) = N /\ DOMAIN w = 1 .. N
  BY <1>1, <1>6, FunctionIsSeq
<1>8. \A n \in 1 .. N : w[n].start \in Nat /\ w[n].end \in Nat
  BY <1>5 DEF Word
<1>9. ASSUME NEW n \in missed
      PROVE  /\ w[n].start = GapStart(missed, n, s) /\ w[n].start <= w[n].end
             /\ w[n].end <= GapEnd(missed, n, s, total)
  BY <1>4, GapIs
<1>10. ASSUME NEW n \in 1 .. N PROVE w[n].start <= w[n].end /\ w[n].start <= total
  <2>1. CASE n \in missed
    <3>1. GapStart(missed, n, s) <= total
      <4>1. GapStart(missed, n, s) \in 0 .. total
        BY PrevIs
      <4> QED BY <1>1, <4>1
    <3> QED BY <1>9, <2>1, <3>1
  <2>2. CASE n \notin missed
    <3>1. w[n].start <= w[n].end /\ w[n].end <= total
      BY <1>3, <2>2 DEF Spanned
    <3> QED BY <1>1, <1>8, <3>1
  <2> QED BY <2>1, <2>2
<1>11. Within(w, total)
  BY <1>7, <1>10 DEF Within
<1>12. ASSUME NEW m \in 1 .. N, NEW n \in 1 .. N, m < n, m \notin missed
       PROVE  w[m].end <= w[n].start
  <2>1. w[m] = s[m]
    BY <1>3, <1>12
  <2>2. CASE n \in missed
    <3>1. m \in 1 .. n - 1
      BY <1>12
    <3> QED BY <1>9, <1>12, <2>1, <2>2, <3>1, PrevIs
  <2>3. CASE n \notin missed
    BY <1>3, <1>12, <2>1, <2>3 DEF Spanned
  <2> QED BY <2>2, <2>3
<1>13. ASSUME NEW m \in 1 .. N, NEW n \in 1 .. N, m < n, n \notin missed
       PROVE  w[m].end <= w[n].start
  <2>1. CASE m \notin missed
    BY <1>12, <1>13, <2>1
  <2>2. CASE m \in missed
    <3>1. n \in m + 1 .. Len(s)
      BY <1>1, <1>13
    <3>2. GapEnd(missed, m, s, total) <= s[n].start
      BY <1>13, <3>1, NextIs
    <3>3. GapEnd(missed, m, s, total) \in Int /\ w[n] = s[n]
      <4>1. GapEnd(missed, m, s, total) \in 0 .. total
        BY NextIs
      <4> QED BY <1>1, <1>3, <1>13, <4>1
    <3> QED BY <1>8, <1>9, <2>2, <3>2, <3>3
  <2> QED BY <2>1, <2>2
<1>14. ASSUME NEW m \in 1 .. N, NEW n \in 1 .. N, m < n
       PROVE  \/ w[m].end <= w[n].start
              \/ SameGap(missed, m, n) /\ w[m].start = w[n].start
  <2>1. CASE m .. n \subseteq missed
    <3>1. m \in missed /\ n \in missed
      BY <1>14, <2>1
    <3>2. {k \in 1 .. m - 1 : k \notin missed} = {k \in 1 .. n - 1 : k \notin missed}
      <4>1. ASSUME NEW k \in 1 .. n - 1, k \notin missed PROVE k \in 1 .. m - 1
        <5>1. k \notin m .. n
          BY <2>1, <4>1
        <5> QED BY <5>1
      <4>2. ASSUME NEW k \in 1 .. m - 1 PROVE k \in 1 .. n - 1
        BY <1>14
      <4> QED BY <4>1, <4>2
    <3>3. GapStart(missed, m, s) = GapStart(missed, n, s)
      BY <3>2 DEF GapStart
    <3> QED BY <1>9, <2>1, <3>1, <3>3 DEF SameGap
  <2>2. CASE ~(m .. n \subseteq missed)
    <3>1. PICK k \in m .. n : k \notin missed
      BY <2>2
    <3>2. k \in 1 .. N
      BY <1>1
    <3>3. CASE k = m
      BY <1>12, <1>14, <3>1, <3>3
    <3>4. CASE k = n
      BY <1>13, <1>14, <3>1, <3>4
    <3>5. CASE k # m /\ k # n
      <4>1. m < k /\ k < n
        BY <3>5
      <4>2. w[m].end <= w[k].start /\ w[k].end <= w[n].start
        BY <1>12, <1>13, <3>1, <3>2, <4>1
      <4>3. w[k].start <= w[k].end
        BY <1>10, <3>2
      <4> QED BY <1>8, <3>2, <4>2, <4>3
    <3> QED BY <3>3, <3>4, <3>5
  <2> QED BY <2>1, <2>2
<1>15. InOrder(w, missed)
  BY <1>7, <1>14 DEF InOrder
<1> QED BY <1>7, <1>11, <1>15 DEF w, N

-----------------------------------------------------------------------------
(* One narration                                                           *)

LEMMA TotalType ==
  ASSUME NEW align, Timely(align)
  PROVE  Total(align) \in Nat /\ Len(align.chars) \in Nat
<1>1. align.chars \in Seq(STRING) /\ align.ends \in Seq(Nat)
  BY DEF Timely
<1>2. CASE align.ends = << >>
  BY <1>1, <1>2, LenProperties DEF Total
<1>3. CASE align.ends # << >>
  <2>1. Len(align.ends) \in 1 .. Len(align.ends)
    BY <1>1, <1>3, LenProperties, EmptySeq
  <2>2. align.ends[Len(align.ends)] \in Nat
    BY <1>1, <2>1, ElementOfSeq
  <2> QED BY <1>1, <1>3, <2>2, LenProperties DEF Total
<1> QED BY <1>2, <1>3

\* The audio of the characters matched: the one before has ended when the next one starts.
LEMMA SpansRight ==
  ASSUME NEW text, NEW ts \in TokenList, NEW align, Timely(align), Usable(align),
         NEW M, M = Matches(text, ts, align)
  PROVE  Len(Spans(M, align)) = Len(ts) /\ Spanned(Missed(M), Spans(M, align), Total(align))
<1> DEFINE N == Len(ts)
           L == Len(align.chars)
           s == Spans(M, align)
           span(n) == IF M[n].from = -1 THEN [start |-> 0, end |-> 0]
                      ELSE [start |-> align.starts[M[n].from], end |-> align.ends[M[n].to]]
<1>1. /\ M \in [1 .. N -> Match] /\ Missed(M) \subseteq 1 .. N
      /\ \A n \in 1 .. N \ Missed(M) : 1 <= M[n].from /\ M[n].from <= M[n].to /\ M[n].to <= L
      /\ \A m, n \in 1 .. N \ Missed(M) : m < n => M[m].to < M[n].from
  BY TotalType, MatchesRight
<1>2. /\ L \in Nat \ {0} /\ L = Len(align.starts) /\ L = Len(align.ends)
      /\ DOMAIN align.chars = 1 .. L
      /\ align.starts \in Seq(Nat) /\ align.ends \in Seq(Nat)
  <2>1. align.chars \in Seq(STRING)
    BY DEF Timely
  <2>2. L \in Nat /\ DOMAIN align.chars = 1 .. L
    BY <2>1, LenProperties
  <2> QED BY <2>2 DEF Usable, Timely
<1>3. \A i \in 1 .. L : align.starts[i] \in Nat /\ align.ends[i] \in Nat
  BY <1>2, ElementOfSeq
<1>4. \A i \in 1 .. L : align.starts[i] <= align.ends[i]
  BY <1>2 DEF Timely
<1>5. \A i, j \in 1 .. L : i < j => align.ends[i] <= align.starts[j]
  BY <1>2 DEF Timely
<1>6. Total(align) = align.ends[L]
  <2>1. align.ends # << >>
    BY <1>2, EmptySeq
  <2> QED BY <1>2, <2>1 DEF Total
<1>7. N \in Nat
  BY TokenSizes
<1>8. \A n \in 1 .. N : /\ M[n] \in Match /\ M[n].from \in Int /\ M[n].to \in Int
                        /\ n \in Missed(M) <=> M[n].from = -1
  BY <1>1 DEF Match, Missed
<1>9. \A n \in 1 .. N \ Missed(M) : M[n].from \in 1 .. L /\ M[n].to \in 1 .. L
  BY <1>1, <1>2, <1>8
<1> HIDE DEF N, L
<1>10. s = [n \in 1 .. N |-> span(n)]
  BY <1>1 DEF Spans
<1>11. \A n \in 1 .. N \ Missed(M) :
         span(n) = [start |-> align.starts[M[n].from], end |-> align.ends[M[n].to]]
  BY <1>8
<1>12. \A n \in 1 .. N : span(n) \in Word
  <2>1. \A n \in Missed(M) : span(n) = [start |-> 0, end |-> 0]
    BY <1>1, <1>8
  <2>2. \A n \in Missed(M) : span(n) \in Word
    <3>1. [start |-> 0, end |-> 0] \in Word
      BY DEF Word
    <3> HIDE DEF span
    <3> QED BY <2>1, <3>1
  <2>3. \A n \in 1 .. N \ Missed(M) : span(n) \in Word
    BY <1>3, <1>9, <1>11 DEF Word
  <2> QED BY <2>2, <2>3
<1> HIDE DEF s, span
<1>13. s \in Seq(Word) /\ Len(s) = N /\ DOMAIN s = 1 .. N
  <2>1. s \in [1 .. N -> Word]
    BY <1>10, <1>12
  <2> QED BY <1>7, <2>1, FunctionIsSeq
<1>14. \A n \in 1 .. N \ Missed(M) :
         s[n].start = align.starts[M[n].from] /\ s[n].end = align.ends[M[n].to]
  BY <1>10, <1>11
<1>15. \A i, j \in 1 .. L : i <= j => align.starts[i] <= align.ends[j] /\ align.ends[i] <= align.ends[j]
  <2> SUFFICES ASSUME NEW i \in 1 .. L, NEW j \in 1 .. L, i <= j
               PROVE  align.starts[i] <= align.ends[j] /\ align.ends[i] <= align.ends[j]
    OBVIOUS
  <2>1. /\ align.starts[i] \in Nat /\ align.ends[i] \in Nat /\ align.starts[j] \in Nat
        /\ align.ends[j] \in Nat
    BY <1>3
  <2>2. align.starts[i] <= align.ends[i] /\ align.starts[j] <= align.ends[j]
    BY <1>4
  <2>3. CASE i = j
    BY <2>1, <2>2, <2>3
  <2>4. CASE i < j
    <3>1. align.ends[i] <= align.starts[j]
      BY <1>5, <2>4
    <3> QED BY <2>1, <2>2, <3>1
  <2> QED BY <1>2, <2>3, <2>4
<1>16. ASSUME NEW n \in 1 .. N, n \notin Missed(M)
       PROVE  s[n].start <= s[n].end /\ s[n].end <= Total(align)
  <2>1. M[n].from \in 1 .. L /\ M[n].to \in 1 .. L /\ M[n].from <= M[n].to
    BY <1>1, <1>9, <1>16
  <2>2. L \in 1 .. L /\ M[n].to <= L
    BY <1>2, <2>1
  <2> QED BY <1>6, <1>14, <1>15, <1>16, <2>1, <2>2
<1>17. ASSUME NEW m \in 1 .. N, NEW n \in 1 .. N, m \notin Missed(M), n \notin Missed(M), m < n
       PROVE  s[m].end <= s[n].start
  <2>1. M[m].to < M[n].from /\ M[m].to \in 1 .. L /\ M[n].from \in 1 .. L
    BY <1>1, <1>9, <1>17
  <2> QED BY <1>5, <1>14, <1>17, <2>1
<1>18. Total(align) \in Nat
  BY TotalType
<1> QED BY <1>1, <1>13, <1>16, <1>17, <1>18 DEF Spanned, N, s

\* What holds of words within some time holds of them within more.
LEMMA WithinMore ==
  ASSUME NEW w, NEW m \in Nat, NEW n \in Nat, m <= n, Within(w, m)
  PROVE  Within(w, n)
<1>1. w \in Seq(Word)
  BY DEF Within
<1>2. ASSUME NEW k \in DOMAIN w PROVE w[k].start <= w[k].end /\ w[k].start <= n
  <2>1. w[k] \in Word
    BY <1>1, ElementOfSeq, LenProperties
  <2>2. w[k].start \in Nat
    BY <2>1 DEF Word
  <2>3. w[k].start <= w[k].end /\ w[k].start <= m
    BY DEF Within
  <2> QED BY <2>2, <2>3
<1> QED BY <1>1, <1>2 DEF Within

\* The words of one narration, whatever its text and its alignment.
LEMMA AggregateRight ==
  ASSUME NEW text, NEW ts \in TokenList, NEW align, Timely(align)
  PROVE  /\ Within(Aggregate(text, ts, align), Total(align))
         /\ Len(Aggregate(text, ts, align)) = Len(ts)
         /\ InOrder(Aggregate(text, ts, align), Missed(Matches(text, ts, align)))
<1> DEFINE M == Matches(text, ts, align)
           w == Aggregate(text, ts, align)
           T == Total(align)
<1>0. ts \in Seq(Nat \X Nat)
  BY DEF TokenList
<1>1. w = Timed(ts, M, align) /\ T \in Nat
  BY TotalType DEF Aggregate
<1> HIDE DEF w, M, T
<1>2. CASE ts = << >>
  <2>1. w = << >>
    BY <1>1, <1>2 DEF Timed
  <2>2. w \in Seq(Word) /\ Len(w) = 0 /\ DOMAIN w = {} /\ Len(ts) = 0
    BY <1>2, <2>1
  <2> QED BY <2>2 DEF Within, InOrder, w, T, M
<1>3. CASE ts # << >>
  <2>1. Len(ts) > 0
    BY <1>0, <1>3, EmptySeq, LenProperties
  <2>2. CASE ~Usable(align)
    <3>1. w = LinearFallback(ts, 0)
      BY <1>1, <1>3, <2>2 DEF Timed
    <3>2. Within(w, 0) /\ Len(w) = Len(ts) /\ \A missed : InOrder(w, missed)
      BY <2>1, <3>1, LinearRight
    <3>3. Within(w, T)
      <4>1. 0 \in Nat /\ 0 <= T
        BY <1>1
      <4> QED BY <1>1, <3>2, <4>1, WithinMore
    <3> QED BY <3>2, <3>3 DEF w, T
  <2>3. CASE Usable(align) /\ 10 * Cardinality(Missed(M)) > 3 * Len(ts)
    <3>1. w = LinearFallback(ts, T)
      BY <1>1, <1>3, <2>3 DEF Timed, T
    <3>2. Within(w, T) /\ Len(w) = Len(ts) /\ \A missed : InOrder(w, missed)
      BY <1>1, <2>1, <3>1, LinearRight
    <3> QED BY <3>2 DEF w, T
  <2>4. CASE Usable(align) /\ ~(10 * Cardinality(Missed(M)) > 3 * Len(ts))
    <3>1. w = FillGaps(Missed(M), Spans(M, align), T)
      BY <1>1, <1>3, <2>4 DEF Timed, T
    <3>2. Len(Spans(M, align)) = Len(ts) /\ Spanned(Missed(M), Spans(M, align), T)
      BY <2>4, SpansRight DEF M, T
    <3>3. Within(w, T) /\ Len(w) = Len(ts) /\ InOrder(w, Missed(M))
      BY <3>1, <3>2, GapsRight
    <3> QED BY <3>3 DEF w, T, M
  <2> QED BY <2>2, <2>3, <2>4
<1> QED BY <1>2, <1>3

-----------------------------------------------------------------------------
(* The tokens of a text                                                    *)

LEMMA MinOfTells ==
  ASSUME NEW S \in SUBSET Int, IsFiniteSet(S), NEW n \in S, \A m \in S : n <= m
  PROVE  MinOf(S) = n
<1>1. MinOf(S) \in S /\ MinOf(S) <= n
  BY MinOfIs
<1>2. n <= MinOf(S) /\ n \in Int /\ MinOf(S) \in Int
  BY <1>1
<1> QED BY <1>1, <1>2

\* f lists S in ascending order.
Lists(f, S) ==
  /\ f \in [1 .. Cardinality(S) -> S]
  /\ \A i, j \in 1 .. Cardinality(S) : i < j => f[i] < f[j]

\* The least of what follows the last one is the next.
LEMMA ListIs ==
  ASSUME NEW S \in SUBSET Int, IsFiniteSet(S), NEW f, Lists(f, S), NEW n \in 1 .. Cardinality(S)
  PROVE  f[n] = IF n = 1 THEN MinOf(S) ELSE MinOf({i \in S : f[n - 1] < i})
<1> DEFINE C == Cardinality(S)
           T == {i \in S : f[n - 1] < i}
<1>1. C \in Nat /\ f \in [1 .. C -> S] /\ \A i, j \in 1 .. C : i < j => f[i] < f[j]
  BY FS_CardinalityType DEF Lists
<1> HIDE DEF C
<1>2. \A i \in 1 .. C : f[i] \in S /\ f[i] \in Int
  BY <1>1
<1>3. f \in Injection(1 .. C, S)
  <2>1. ASSUME NEW i \in 1 .. C, NEW j \in 1 .. C, f[i] = f[j] PROVE i = j
    <3>1. ~(i < j) /\ ~(j < i)
      BY <1>1, <1>2, <2>1
    <3> QED BY <3>1
  <2> QED BY <1>1, <2>1 DEF Injection, IsInjective
<1>4. Cardinality(1 .. C) = C
  BY <1>1, FS_Interval
<1>5. \A x \in S : \E i \in 1 .. C : f[i] = x
  <2>1. f \in Surjection(1 .. C, S)
    BY <1>3, <1>4, FS_Injection DEF C
  <2> QED BY <2>1 DEF Surjection
<1>6. ASSUME NEW i \in 1 .. C, NEW j \in 1 .. C, i <= j PROVE f[i] <= f[j]
  BY <1>1, <1>2, <1>6
<1>7. n \in 1 .. C
  BY DEF C
<1>8. CASE n = 1
  <2>1. ASSUME NEW m \in S PROVE f[1] <= m
    BY <1>5, <1>6, <1>7, <1>8
  <2>2. f[1] \in S
    BY <1>2, <1>7, <1>8
  <2>3. MinOf(S) = f[1]
    BY <2>1, <2>2, MinOfTells
  <2> QED BY <1>8, <2>3
<1>9. CASE n # 1
  <2>1. n - 1 \in 1 .. C /\ n - 1 < n
    BY <1>1, <1>7, <1>9
  <2>2. T \in SUBSET S
    OBVIOUS
  <2>3. T \in SUBSET Int /\ IsFiniteSet(T)
    BY <2>2, FS_Subset
  <2>4. f[n] \in T
    BY <1>1, <1>2, <1>7, <2>1
  <2>5. ASSUME NEW m \in T PROVE f[n] <= m
    <3>1. PICK i \in 1 .. C : f[i] = m
      BY <1>5
    <3>2. f[n - 1] < f[i]
      BY <3>1
    <3>3. ~(i <= n - 1)
      <4> SUFFICES ASSUME i <= n - 1 PROVE FALSE
        OBVIOUS
      <4>1. f[i] <= f[n - 1]
        BY <1>6, <2>1
      <4> QED BY <1>2, <2>1, <3>2, <4>1
    <3>4. n <= i
      BY <1>7, <3>3
    <3> QED BY <1>6, <1>7, <3>1, <3>4
  <2>6. MinOf(T) = f[n]
    <3> HIDE DEF T
    <3> QED BY <2>3, <2>4, <2>5, MinOfTells
  <2> QED BY <1>9, <2>6
<1> QED BY <1>8, <1>9

LEMMA StartsType ==
  ASSUME NEW text \in Seq(STRING)
  PROVE  /\ Starts(text) \in SUBSET (1 .. Len(text)) /\ Len(text) \in Nat
         /\ Starts(text) \in SUBSET Int /\ IsFiniteSet(Starts(text))
<1>1. Len(text) \in Nat /\ DOMAIN text = 1 .. Len(text)
  BY LenProperties
<1>2. Starts(text) \in SUBSET (1 .. Len(text))
  BY <1>1 DEF Starts
<1>3. 1 \in Int /\ Len(text) \in Int
  BY <1>1
<1> QED BY <1>1, <1>2, <1>3, PartOfInterval

LEMMA LastIs ==
  ASSUME NEW text \in Seq(STRING), NEW i \in Starts(text)
  PROVE  i \in Nat /\ LastOf(text, i) \in Nat /\ i <= LastOf(text, i)
<1> DEFINE S == {j \in i .. Len(text) : \A k \in i .. j : Letter(text[k])}
<1>1. i \in 1 .. Len(text) /\ Len(text) \in Nat
  BY StartsType
<1>2. CASE Wide(text[i])
  BY <1>1, <1>2 DEF LastOf
<1>3. CASE ~Wide(text[i])
  <2>1. Letter(text[i])
    BY <1>3 DEF Starts
  <2>2. i \in S
    BY <1>1, <2>1
  <2>3. S \in SUBSET (i .. Len(text))
    OBVIOUS
  <2> HIDE DEF S
  <2>4. S \in SUBSET Int /\ IsFiniteSet(S)
    <3>1. i \in Int /\ Len(text) \in Int
      BY <1>1
    <3> QED BY <2>3, <3>1, PartOfInterval
  <2>5. MaxOf(S) \in S /\ i <= MaxOf(S)
    BY <2>2, <2>4, MaxOfIs
  <2>6. LastOf(text, i) = MaxOf(S)
    BY <1>3 DEF LastOf, S
  <2>7. MaxOf(S) \in i .. Len(text)
    BY <2>3, <2>5
  <2> QED BY <1>1, <2>6, <2>7
<1> QED BY <1>2, <1>3

\* The tokens of a text take its starts one after the other.
LEMMA TokensUnfold ==
  ASSUME NEW text \in Seq(STRING)
  PROVE  \E f : /\ Lists(f, Starts(text))
                /\ Tokens(text) = [n \in 1 .. Cardinality(Starts(text)) |->
                                     <<f[n], LastOf(text, f[n])>>]
<1> DEFINE S == Starts(text)
           C == Cardinality(S)
           Is(f) == f = [n \in 1 .. C |-> IF n = 1 THEN MinOf(S)
                                         ELSE LET last == f[n - 1] IN MinOf({i \in S : last < i})]
           nth == CHOOSE f : Is(f)
<1>1. S \in SUBSET Int /\ IsFiniteSet(S) /\ C \in Nat
  BY StartsType, FS_CardinalityType
<1>2. PICK f : Lists(f, S)
  <2> HIDE DEF S
  <2> QED BY <1>1, Ascends DEF Lists
<1>3. Tokens(text) = [n \in 1 .. C |-> <<nth[n], LastOf(text, nth[n])>>]
  BY DEF Tokens
<1> HIDE DEF S
<1>4. f = [n \in 1 .. C |-> f[n]]
  BY <1>2 DEF Lists
<1>5. \A n \in 1 .. C : f[n] = IF n = 1 THEN MinOf(S) ELSE MinOf({i \in S : f[n - 1] < i})
  BY <1>1, <1>2, ListIs
<1> HIDE DEF C
<1>6. Is(f)
  BY <1>4, <1>5
<1>7. Is(nth)
  <2> HIDE DEF Is
  <2> QED BY <1>6
<1>8. \A n \in 1 .. C : nth[n] = IF n = 1 THEN MinOf(S) ELSE MinOf({i \in S : nth[n - 1] < i})
  <2> HIDE DEF nth
  <2> QED BY <1>7
<1> HIDE DEF nth, Is
<1>9. \A n \in 1 .. C : nth[n] = f[n]
  <2> DEFINE P == {k \in 0 .. C : k # 0 => nth[k] = f[k]}
  <2>1. 0 \in P
    BY <1>1
  <2>2. ASSUME NEW k \in 0 .. C - 1, k \in P PROVE k + 1 \in P
    <3>1. k + 1 \in 1 .. C /\ (k + 1) - 1 = k /\ (k + 1 # 1 => k # 0)
      BY <1>1
    <3>2. nth[k + 1] = IF k + 1 = 1 THEN MinOf(S) ELSE MinOf({i \in S : nth[k] < i})
      BY <1>8, <3>1
    <3>3. f[k + 1] = IF k + 1 = 1 THEN MinOf(S) ELSE MinOf({i \in S : f[k] < i})
      BY <1>5, <3>1
    <3>4. k + 1 # 1 => nth[k] = f[k]
      BY <2>2, <3>1
    <3>5. nth[k + 1] = f[k + 1]
      BY <3>2, <3>3, <3>4
    <3> QED BY <3>1, <3>5
  <2>3. 0 .. C \subseteq P
    <3> HIDE DEF P
    <3> QED BY <1>1, <2>1, <2>2, UpTo
  <2> QED BY <1>1, <2>3
<1>10. Tokens(text) = [n \in 1 .. C |-> <<f[n], LastOf(text, f[n])>>]
  BY <1>3, <1>9
<1> QED BY <1>2, <1>10 DEF S, C

LEMMA TokensRight ==
  ASSUME NEW text \in Seq(STRING)
  PROVE  Tokens(text) \in TokenList
<1> DEFINE S == Starts(text)
           C == Cardinality(S)
           ts == Tokens(text)
<1>1. PICK f : Lists(f, S) /\ ts = [n \in 1 .. C |-> <<f[n], LastOf(text, f[n])>>]
  BY TokensUnfold
<1>2. C \in Nat
  BY StartsType, FS_CardinalityType
<1> HIDE DEF ts
<1>3. \A n \in 1 .. C : f[n] \in S
  BY <1>1 DEF Lists
<1> HIDE DEF C
<1>4. ASSUME NEW n \in 1 .. C
      PROVE  /\ f[n] \in Nat /\ LastOf(text, f[n]) \in Nat /\ f[n] <= LastOf(text, f[n])
  BY <1>3, LastIs
<1>5. ts \in [1 .. C -> Nat \X Nat]
  BY <1>1, <1>4
<1>6. ts \in Seq(Nat \X Nat) /\ DOMAIN ts = 1 .. C
  BY <1>2, <1>5, FunctionIsSeq
<1>7. \A n \in 1 .. C : ts[n][1] <= ts[n][2]
  BY <1>1, <1>4
<1> QED BY <1>6, <1>7 DEF TokenList, ts

-----------------------------------------------------------------------------
(* The combined audio                                                      *)

Grows(w) == \A n \in 1 .. Len(w) - 1 : w[n].start <= w[n + 1].start

\* f joins the first n of the sequences s.
Joins(f, n, s) == f = [i \in 0 .. n |-> IF i = 0 THEN << >> ELSE f[i - 1] \o s[i]]

LEMMA JoinExists ==
  ASSUME NEW V, NEW n \in Nat, NEW s \in [1 .. n -> Seq(V)]
  PROVE  \E f : Joins(f, n, s)
<1> DEFINE W == Seq(V)
           h == [x \in (1 .. n) \X W |-> x[2] \o s[x[1]]]
<1>1. h \in [(1 .. n) \X W -> W] /\ << >> \in W
  <2>1. ASSUME NEW i \in 1 .. n, NEW w \in W PROVE w \o s[i] \in W
    BY ConcatProperties
  <2> QED BY <2>1, EmptySeq
<1>2. PICK g \in [0 .. n -> W] : Unfolds(g, n, << >>, h)
  <2> HIDE DEF h, W
  <2> QED BY <1>1, Recursion
<1>3. ASSUME NEW i \in 0 .. n PROVE g[i] = IF i = 0 THEN << >> ELSE g[i - 1] \o s[i]
  <2>1. g[i] = IF i = 0 THEN << >> ELSE h[<<i, g[i - 1]>>]
    <3> HIDE DEF h, W
    <3> QED BY <1>2 DEF Unfolds
  <2>2. i # 0 => i \in 1 .. n /\ g[i - 1] \in W
    <3>1. i # 0 => i \in 1 .. n /\ i - 1 \in 0 .. n
      OBVIOUS
    <3> HIDE DEF W
    <3> QED BY <3>1
  <2>3. i # 0 => h[<<i, g[i - 1]>>] = g[i - 1] \o s[i]
    <3> HIDE DEF W
    <3> QED BY <2>2
  <2> HIDE DEF h
  <2> QED BY <2>1, <2>3
<1>4. g = [i \in 0 .. n |-> g[i]]
  <2> HIDE DEF W
  <2> QED OBVIOUS
<1>5. Joins(g, n, s)
  <2> HIDE DEF W
  <2> QED BY <1>3, <1>4 DEF Joins
<1> QED BY <1>5

LEMMA JoinIs ==
  ASSUME NEW n \in Nat, NEW s, NEW f, Joins(f, n, s)
  PROVE  f[0] = << >> /\ \A i \in 1 .. n : f[i] = f[i - 1] \o s[i]
<1>1. 0 \in 0 .. n /\ \A i \in 1 .. n : i \in 0 .. n /\ i # 0
  OBVIOUS
<1>2. \A i \in 0 .. n : f[i] = IF i = 0 THEN << >> ELSE f[i - 1] \o s[i]
  BY DEF Joins
<1> QED BY <1>1, <1>2

\* Words of a combined audio of length whole, none starting before first or after last.
Between(w, first, last, whole) ==
  /\ w \in Seq(Word) /\ Grows(w)
  /\ \A n \in 1 .. Len(w) :
       w[n].end <= whole /\ first <= w[n].start /\ w[n].start <= last

\* A part that starts where the other one is over can follow it.
LEMMA JoinGrows ==
  ASSUME NEW a, NEW b, NEW x \in Nat, NEW y \in Nat, NEW whole, x <= y,
         Between(a, 0, x, whole), Between(b, x, y, whole)
  PROVE  Between(a \o b, 0, y, whole)
<1> DEFINE c == a \o b
           A == Len(a)
           B == Len(b)
<1>1. a \in Seq(Word) /\ b \in Seq(Word) /\ A \in Nat /\ B \in Nat
  BY LenProperties DEF Between
<1>2. /\ c \in Seq(Word) /\ Len(c) = A + B
      /\ \A i \in 1 .. A + B : c[i] = IF i <= A THEN a[i] ELSE b[i - A]
  BY <1>1, ConcatProperties
<1>3. /\ \A i \in 1 .. A : a[i].start \in Nat /\ a[i].end <= whole /\ a[i].start <= x
      /\ \A i \in 1 .. B : b[i].start \in Nat /\ b[i].end <= whole /\ x <= b[i].start
                           /\ b[i].start <= y
  <2>1. \A i \in 1 .. A : a[i] \in Word
    BY <1>1, ElementOfSeq
  <2>2. \A i \in 1 .. B : b[i] \in Word
    BY <1>1, ElementOfSeq
  <2> QED BY <2>1, <2>2 DEF Between, Word
<1>4. /\ \A i \in 1 .. A - 1 : a[i].start <= a[i + 1].start
      /\ \A i \in 1 .. B - 1 : b[i].start <= b[i + 1].start
  BY DEF Between, Grows
<1> HIDE DEF c, A, B
<1>5. \A i \in 1 .. A : c[i] = a[i]
  BY <1>1, <1>2
<1>6. \A i \in A + 1 .. A + B : i - A \in 1 .. B /\ c[i] = b[i - A]
  BY <1>1, <1>2
<1>7. ASSUME NEW i \in 1 .. A + B
      PROVE  c[i].end <= whole /\ 0 <= c[i].start /\ c[i].start <= y
  <2>1. CASE i <= A
    <3>1. i \in 1 .. A
      BY <1>1, <2>1
    <3> QED BY <1>3, <1>5, <3>1
  <2>2. CASE ~(i <= A)
    <3>1. i \in A + 1 .. A + B
      BY <1>1, <2>2
    <3> QED BY <1>3, <1>6, <3>1
  <2> QED BY <2>1, <2>2
<1>8. ASSUME NEW i \in 1 .. A + B - 1 PROVE c[i].start <= c[i + 1].start
  <2>1. CASE i < A
    <3>1. i \in 1 .. A - 1 /\ i \in 1 .. A /\ i + 1 \in 1 .. A
      BY <1>1, <2>1
    <3> QED BY <1>4, <1>5, <3>1
  <2>2. CASE i = A
    <3>1. i \in 1 .. A /\ i + 1 \in A + 1 .. A + B
      BY <1>1, <2>2
    <3>2. c[i].start \in Nat /\ c[i].start <= x
      BY <1>3, <1>5, <3>1
    <3>3. c[i + 1].start \in Nat /\ x <= c[i + 1].start
      BY <1>3, <1>6, <3>1
    <3> QED BY <3>2, <3>3
  <2>3. CASE i > A
    <3>1. i \in A + 1 .. A + B /\ i + 1 \in A + 1 .. A + B
      BY <1>1, <2>3
    <3>2. i - A \in 1 .. B - 1 /\ (i + 1) - A = (i - A) + 1
      BY <1>1, <2>3
    <3>3. c[i] = b[i - A] /\ c[i + 1] = b[(i - A) + 1]
      BY <1>6, <3>1, <3>2
    <3> QED BY <1>4, <3>2, <3>3
  <2> QED BY <1>1, <2>1, <2>2, <2>3
<1>9. Grows(c)
  <2> SUFFICES ASSUME NEW n \in 1 .. Len(c) - 1 PROVE c[n].start <= c[n + 1].start
    BY DEF Grows
  <2>1. n \in 1 .. A + B - 1
    <3>1. Len(c) = A + B
      BY <1>2
    <3> QED BY <1>1, <3>1
  <2> QED BY <1>8, <2>1
<1>10. \A i \in 1 .. Len(c) : c[i].end <= whole /\ 0 <= c[i].start /\ c[i].start <= y
  BY <1>2, <1>7
<1>11. Between(c, 0, y, whole)
  BY <1>2, <1>9, <1>10 DEF Between
<1> QED BY <1>11 DEF c

\* What Rebase computes: where each chunk starts, its words moved there, the words joined.
Rebased(chunks, durations, offset, shifted, joined) ==
  LET n == Len(chunks)
      whole == offset[n] + durations[n]
  IN /\ Precedes(offset, n, durations)
     /\ shifted = [c \in 1 .. n |->
                     [i \in DOMAIN chunks[c] |->
                        [start |-> chunks[c][i].start + offset[c],
                         end |-> MinOf({whole, chunks[c][i].end + offset[c]})]]]
     /\ Joins(joined, n, shifted)
     /\ Rebase(chunks, durations) = joined[n]

\* Chunks to combine, each with its words in order and within its own audio.
Combinable(chunks, durations) ==
  /\ chunks \in Seq(Seq(Word)) /\ durations \in Seq(Nat)
  /\ Len(chunks) = Len(durations) /\ Len(chunks) > 0
  /\ \A c \in 1 .. Len(chunks) : Within(chunks[c], durations[c]) /\ Grows(chunks[c])

\* There is one way to do so.
LEMMA PrecedesOnce ==
  ASSUME NEW n \in Nat, NEW u \in [1 .. n -> Nat], NEW f, Precedes(f, n, u),
         NEW g, Precedes(g, n, u)
  PROVE  f = g
<1>1. \A i \in 1 .. n : f[i] = IF i = 1 THEN 0 ELSE f[i - 1] + u[i - 1]
  BY DEF Precedes
<1>2. \A i \in 1 .. n : g[i] = IF i = 1 THEN 0 ELSE g[i - 1] + u[i - 1]
  BY DEF Precedes
<1> DEFINE S == {k \in 0 .. n : k # 0 => f[k] = g[k]}
<1>3. 0 \in S
  OBVIOUS
<1>4. ASSUME NEW k \in 0 .. n - 1, k \in S PROVE k + 1 \in S
  <2>1. k + 1 \in 1 .. n /\ (k + 1) - 1 = k /\ (k + 1 # 1 => k # 0)
    OBVIOUS
  <2>2. f[k + 1] = IF k + 1 = 1 THEN 0 ELSE f[k] + u[k]
    BY <1>1, <2>1
  <2>3. g[k + 1] = IF k + 1 = 1 THEN 0 ELSE g[k] + u[k]
    BY <1>2, <2>1
  <2>4. f[k + 1] = g[k + 1]
    BY <1>4, <2>1, <2>2, <2>3
  <2> QED BY <2>1, <2>4
<1>5. 0 .. n \subseteq S
  <2> HIDE DEF S
  <2> QED BY <1>3, <1>4, UpTo
<1>6. \A i \in 1 .. n : f[i] = g[i]
  BY <1>5
<1>7. f = [i \in 1 .. n |-> f[i]] /\ g = [i \in 1 .. n |-> g[i]]
  BY DEF Precedes
<1> QED BY <1>6, <1>7

LEMMA OffsetsAre ==
  ASSUME NEW durations \in Seq(Nat)
  PROVE  Precedes(Offsets(durations), Len(durations), durations)
<1> DEFINE n == Len(durations)
           Is(f) == f = [i \in 1 .. n |-> IF i = 1 THEN 0 ELSE f[i - 1] + durations[i - 1]]
           offset == CHOOSE f : Is(f)
<1>1. n \in Nat /\ durations \in [1 .. n -> Nat]
  BY LenProperties
<1>2. \A f : Is(f) <=> Precedes(f, n, durations)
  BY DEF Precedes
<1>3. Offsets(durations) = offset
  BY DEF Offsets
<1> HIDE DEF n, Is
<1>4. \E f : Is(f)
  BY <1>1, <1>2, PrecedeExists
<1>5. Is(offset)
  BY <1>4
<1> QED BY <1>2, <1>3, <1>5 DEF n

LEMMA ShiftedWord ==
  ASSUME NEW w \in Word, NEW o \in Nat, NEW whole \in Nat
  PROVE  LET r == [start |-> w.start + o, end |-> MinOf({whole, w.end + o})]
         IN r \in Word /\ r.start = w.start + o /\ r.end <= whole
<1> DEFINE S == {whole, w.end + o}
<1>1. w.start \in Nat /\ w.end \in Nat
  BY DEF Word
<1>2. S \in SUBSET Nat /\ S # {} /\ whole \in S
  BY <1>1
<1>3. IsFiniteSet(S)
  <2>1. IsFiniteSet({whole})
    BY FS_Singleton
  <2>2. IsFiniteSet({whole} \cup {w.end + o})
    BY <2>1, FS_AddElement
  <2>3. S = {whole} \cup {w.end + o}
    OBVIOUS
  <2> QED BY <2>2, <2>3
<1> HIDE DEF S
<1>4. S \in SUBSET Int
  BY <1>2
<1>5. MinOf(S) \in S /\ MinOf(S) <= whole
  BY <1>2, <1>3, <1>4, MinOfIs
<1>6. MinOf(S) \in Nat
  BY <1>2, <1>5
<1>7. [start |-> w.start + o, end |-> MinOf(S)] \in Word
  BY <1>1, <1>6 DEF Word
<1> QED BY <1>5, <1>7 DEF S

LEMMA RebaseUnfolds ==
  ASSUME NEW chunks, NEW durations, Combinable(chunks, durations)
  PROVE  \E offset, shifted, joined :
           /\ Rebased(chunks, durations, offset, shifted, joined)
           /\ offset \in [1 .. Len(chunks) -> Nat]
           /\ \A c \in 1 .. Len(chunks) : Len(shifted[c]) = Len(chunks[c])
           /\ \A c \in 1 .. Len(chunks) :
                Between(shifted[c], offset[c], offset[c] + durations[c],
                        offset[Len(chunks)] + durations[Len(chunks)])
<1> DEFINE N == Len(chunks)
           offset == Offsets(durations)
           whole == offset[N] + durations[N]
           word(c, w) == [start |-> w.start + offset[c], end |-> MinOf({whole, w.end + offset[c]})]
           shifted == [c \in 1 .. N |-> [i \in DOMAIN chunks[c] |-> word(c, chunks[c][i])]]
           Is(f) == f = [c \in 0 .. N |-> IF c = 0 THEN << >> ELSE f[c - 1] \o shifted[c]]
           joined == CHOOSE f : Is(f)
<1>1. /\ N \in Nat \ {0} /\ Len(durations) = N /\ durations \in [1 .. N -> Nat]
      /\ chunks \in Seq(Seq(Word)) /\ durations \in Seq(Nat)
  <2>1. /\ chunks \in Seq(Seq(Word)) /\ durations \in Seq(Nat)
        /\ Len(chunks) = Len(durations) /\ Len(chunks) > 0
    BY DEF Combinable
  <2> QED BY <2>1, LenProperties
<1>2. Precedes(offset, N, durations) /\ offset \in [1 .. N -> Nat]
  <2>1. Precedes(offset, N, durations)
    BY <1>1, OffsetsAre
  <2> HIDE DEF offset, N
  <2> QED BY <1>1, <2>1, PrecedeType
<1>3. Rebase(chunks, durations) = joined[N]
  BY DEF Rebase
<1>4. whole \in Nat
  <2> HIDE DEF offset, N
  <2> QED BY <1>1, <1>2
<1>5. ASSUME NEW c \in 1 .. N
      PROVE  /\ shifted[c] = [i \in 1 .. Len(chunks[c]) |-> word(c, chunks[c][i])]
             /\ chunks[c] \in Seq(Word) /\ Len(chunks[c]) \in Nat
             /\ \A i \in 1 .. Len(chunks[c]) : chunks[c][i] \in Word
  <2>1. chunks[c] \in Seq(Word)
    BY <1>1, ElementOfSeq
  <2>2. DOMAIN chunks[c] = 1 .. Len(chunks[c]) /\ Len(chunks[c]) \in Nat
    BY <2>1, LenProperties
  <2>3. \A i \in 1 .. Len(chunks[c]) : chunks[c][i] \in Word
    BY <2>1, ElementOfSeq
  <2> HIDE DEF word, N
  <2> QED BY <2>1, <2>2, <2>3
<1>6. ASSUME NEW c \in 1 .. N, NEW i \in 1 .. Len(chunks[c])
      PROVE  /\ word(c, chunks[c][i]) \in Word /\ word(c, chunks[c][i]).end <= whole
             /\ word(c, chunks[c][i]).start = chunks[c][i].start + offset[c]
  <2>1. chunks[c][i] \in Word /\ offset[c] \in Nat
    <3> HIDE DEF word, offset, N
    <3> QED BY <1>2, <1>5
  <2> HIDE DEF whole, offset
  <2> QED BY <1>4, <2>1, ShiftedWord
<1> HIDE DEF word
<1>7. ASSUME NEW c \in 1 .. N
      PROVE  /\ shifted[c] \in Seq(Word) /\ Len(shifted[c]) = Len(chunks[c])
             /\ Between(shifted[c], offset[c], offset[c] + durations[c], whole)
  <2> HIDE DEF offset, whole, N
  <2> DEFINE v == chunks[c]
             s == shifted[c]
             n == Len(v)
  <2>1. s = [i \in 1 .. n |-> word(c, v[i])] /\ n \in Nat
    BY <1>5
  <2>2. s \in [1 .. n -> Word]
    BY <1>6, <2>1
  <2> HIDE DEF s
  <2>3. s \in Seq(Word) /\ Len(s) = n
    BY <2>1, <2>2, FunctionIsSeq
  <2>4. ASSUME NEW i \in 1 .. n
        PROVE  /\ s[i].start = v[i].start + offset[c] /\ s[i].end <= whole
               /\ v[i].start \in Nat
    <3>1. v[i] \in Word
      BY <1>5
    <3> QED BY <1>6, <2>1, <3>1 DEF Word
  <2>5. offset[c] \in Nat /\ durations[c] \in Nat
    BY <1>1, <1>2
  <2>6. /\ \A i \in 1 .. n : v[i].start <= durations[c]
        /\ \A i \in 1 .. n - 1 : v[i].start <= v[i + 1].start
    <3>1. Within(v, durations[c]) /\ Grows(v)
      BY DEF Combinable, N
    <3>2. DOMAIN v = 1 .. n
      BY <1>5, LenProperties
    <3> QED BY <3>1, <3>2 DEF Within, Grows
  <2>7. ASSUME NEW i \in 1 .. n - 1 PROVE s[i].start <= s[i + 1].start
    <3>1. i \in 1 .. n /\ i + 1 \in 1 .. n
      BY <2>1
    <3>2. /\ s[i].start = v[i].start + offset[c] /\ v[i].start \in Nat
          /\ s[i + 1].start = v[i + 1].start + offset[c] /\ v[i + 1].start \in Nat
      BY <2>4, <3>1
    <3> HIDE DEF n, v
    <3> QED BY <2>5, <2>6, <3>2
  <2>8. ASSUME NEW i \in 1 .. n
        PROVE  offset[c] <= s[i].start /\ s[i].start <= offset[c] + durations[c]
    <3> HIDE DEF n, v
    <3> QED BY <2>4, <2>5, <2>6
  <2> HIDE DEF n, v
  <2>9. Between(s, offset[c], offset[c] + durations[c], whole)
    <3>1. Grows(s)
      BY <2>3, <2>7 DEF Grows
    <3> QED BY <2>3, <2>4, <2>8, <3>1 DEF Between
  <2> QED BY <2>3, <2>9 DEF s, n, v
<1>8. shifted \in [1 .. N -> Seq(Word)]
  <2>1. shifted = [c \in 1 .. N |-> shifted[c]]
    OBVIOUS
  <2> HIDE DEF shifted, offset, whole, N
  <2> QED BY <1>7, <2>1
<1>9. Joins(joined, N, shifted)
  <2>1. \A f : Is(f) <=> Joins(f, N, shifted)
    <3> HIDE DEF shifted, N
    <3> QED BY DEF Joins
  <2>2. \E f : Is(f)
    <3> HIDE DEF shifted, N, Is
    <3> QED BY <1>1, <1>8, <2>1, JoinExists
  <2> HIDE DEF Is, shifted, N
  <2> QED BY <2>1, <2>2
<1>10. Rebased(chunks, durations, offset, shifted, joined)
  <2>1. shifted = [c \in 1 .. N |->
                     [i \in DOMAIN chunks[c] |->
                        [start |-> chunks[c][i].start + offset[c],
                         end |-> MinOf({whole, chunks[c][i].end + offset[c]})]]]
    BY DEF word
  <2> HIDE DEF shifted, joined, offset
  <2> QED BY <1>2, <1>3, <1>9, <2>1 DEF Rebased
<1> HIDE DEF shifted, joined, offset
<1> QED BY <1>2, <1>7, <1>10

\* Shifted to where its chunk starts, each word of a combined audio stays in order and ends
\* with the whole, for any number of chunks of any durations whose words are in order.
THEOREM ChunksStayInOrder ==
  ASSUME NEW chunks, NEW durations, Combinable(chunks, durations)
  PROVE  StaysInOrder(Rebase(chunks, durations),
                      Offsets(durations)[Len(chunks)] + durations[Len(chunks)])
<1> DEFINE N == Len(chunks)
<1>1. PICK offset, shifted, joined :
        /\ Rebased(chunks, durations, offset, shifted, joined)
        /\ offset \in [1 .. N -> Nat]
        /\ \A c \in 1 .. N : Len(shifted[c]) = Len(chunks[c])
        /\ \A c \in 1 .. N :
             Between(shifted[c], offset[c], offset[c] + durations[c], offset[N] + durations[N])
  BY RebaseUnfolds
<1> DEFINE whole == offset[N] + durations[N]
           last(c) == IF c = 0 THEN 0 ELSE offset[c] + durations[c]
<1>2. /\ N \in Nat \ {0} /\ Len(durations) = N /\ durations \in [1 .. N -> Nat]
      /\ durations \in Seq(Nat)
  <2>1. /\ chunks \in Seq(Seq(Word)) /\ durations \in Seq(Nat)
        /\ Len(chunks) = Len(durations) /\ Len(chunks) > 0
    BY DEF Combinable
  <2> QED BY <2>1, LenProperties
<1>3. Precedes(offset, N, durations) /\ Joins(joined, N, shifted)
      /\ Rebase(chunks, durations) = joined[N]
  BY <1>1 DEF Rebased
<1>4. Offsets(durations) = offset
  <2>1. Precedes(Offsets(durations), N, durations)
    BY <1>2, OffsetsAre
  <2> HIDE DEF N
  <2> QED BY <1>2, <1>3, <2>1, PrecedesOnce
<1> HIDE DEF N
<1>5. offset[1] = 0 /\ \A c \in 1 .. N - 1 : offset[c + 1] = offset[c] + durations[c]
  <2>1. N \in Nat /\ N > 0
    BY <1>2
  <2>2. N > 0 => offset[1] = 0
    BY <1>2, <1>3, <2>1, PrecedeType
  <2>3. \A c \in 1 .. N - 1 : offset[c + 1] = offset[c] + durations[c]
    BY <1>2, <1>3, <2>1, PrecedeType
  <2> QED BY <2>1, <2>2, <2>3
<1>6. joined[0] = << >> /\ \A c \in 1 .. N : joined[c] = joined[c - 1] \o shifted[c]
  <2>1. N \in Nat
    BY <1>2
  <2> QED BY <1>3, <2>1, JoinIs
<1>7. \A c \in 1 .. N : offset[c] \in Nat /\ durations[c] \in Nat
  BY <1>1, <1>2
<1> DEFINE S == {c \in 0 .. N : Between(joined[c], 0, last(c), whole)}
<1>8. 0 \in S
  <2>1. << >> \in Seq(Word) /\ Len(<< >>) = 0
    OBVIOUS
  <2>2. Between(<< >>, 0, 0, whole)
    <3> HIDE DEF whole
    <3> QED BY <2>1 DEF Between, Grows
  <2> HIDE DEF whole
  <2> QED BY <1>2, <1>6, <2>2
<1>9. ASSUME NEW c \in 0 .. N - 1, c \in S PROVE c + 1 \in S
  <2>1. c + 1 \in 1 .. N /\ (c + 1) - 1 = c /\ c + 1 # 0
    BY <1>2
  <2>2. joined[c + 1] = joined[c] \o shifted[c + 1]
    BY <1>6, <2>1
  <2>3. last(c) = offset[c + 1]
    <3>1. CASE c = 0
      BY <1>5, <3>1
    <3>2. CASE c # 0
      <4>1. c \in 1 .. N - 1
        BY <3>2
      <4> QED BY <1>5, <3>2, <4>1
    <3> QED BY <3>1, <3>2
  <2>4. last(c + 1) = offset[c + 1] + durations[c + 1]
    BY <2>1
  <2>5. last(c) \in Nat /\ last(c + 1) \in Nat /\ last(c) <= last(c + 1)
    <3> HIDE DEF last
    <3> QED BY <1>7, <2>1, <2>3, <2>4
  <2>6. Between(shifted[c + 1], last(c), last(c + 1), whole)
    <3> HIDE DEF last
    <3> QED BY <1>1, <2>1, <2>3, <2>4
  <2> HIDE DEF whole, last
  <2>7. Between(joined[c + 1], 0, last(c + 1), whole)
    BY <1>9, <2>2, <2>5, <2>6, JoinGrows
  <2> QED BY <2>1, <2>7
<1>10. N \in S
  <2> HIDE DEF S
  <2>1. 0 .. N \subseteq S
    BY <1>2, <1>8, <1>9, UpTo
  <2> QED BY <1>2, <2>1
<1>11. Between(joined[N], 0, last(N), whole)
  BY <1>10
<1> HIDE DEF last, whole
<1>12. StaysInOrder(joined[N], whole)
  <2>1. joined[N] \in Seq(Word)
    BY <1>11 DEF Between
  <2>2. DOMAIN joined[N] = 1 .. Len(joined[N])
    BY <2>1, LenProperties
  <2> QED BY <1>11, <2>2 DEF Between, Grows, StaysInOrder
<1> QED BY <1>3, <1>4, <1>12 DEF N, whole

\* Words in order do not start before the one before them.
LEMMA InOrderGrows ==
  ASSUME NEW w, NEW total, NEW missed, Within(w, total), InOrder(w, missed)
  PROVE  Grows(w)
<1>1. w \in Seq(Word)
  BY DEF Within
<1>2. Len(w) \in Nat /\ DOMAIN w = 1 .. Len(w) /\ \A n \in 1 .. Len(w) : w[n] \in Word
  BY <1>1, LenProperties, ElementOfSeq
<1>3. ASSUME NEW n \in 1 .. Len(w) - 1 PROVE w[n].start <= w[n + 1].start
  <2>1. n \in 1 .. Len(w) /\ n + 1 \in 1 .. Len(w) /\ n < n + 1
    BY <1>2
  <2>2. w[n].start \in Nat /\ w[n].end \in Nat /\ w[n + 1].start \in Nat
    BY <1>2, <2>1 DEF Word
  <2>3. w[n].start <= w[n].end
    BY <1>2, <2>1 DEF Within
  <2>4. w[n].end <= w[n + 1].start \/ w[n].start = w[n + 1].start
    BY <1>2, <2>1 DEF InOrder
  <2> QED BY <2>2, <2>3, <2>4
<1> QED BY <1>3 DEF Grows

\* The words of every text against every alignment that ElevenLabs can answer with: one for
\* each token, in order and without overlap but within a gap; and the same for two such
\* narrations combined.
THEOREM WordsStayInOrder ==
  ASSUME NEW text \in Seq(STRING), NEW align, Timely(align)
  PROVE  WordsRight(Tokens(text), Aggregate(text, Tokens(text), align),
                    Missed(Matches(text, Tokens(text), align)), Total(align))
<1> DEFINE ts == Tokens(text)
           w == Aggregate(text, ts, align)
           missed == Missed(Matches(text, ts, align))
           T == Total(align)
<1>1. ts \in TokenList /\ T \in Nat
  BY TokensRight, TotalType
<1>2. Within(w, T) /\ Len(w) = Len(ts) /\ InOrder(w, missed)
  BY <1>1, AggregateRight
<1> HIDE DEF w, missed, T
<1>3. Grows(w)
  BY <1>2, InOrderGrows
<1>4. \A n \in DOMAIN w : 0 <= w[n].start /\ w[n].start <= w[n].end
  <2>1. w \in Seq(Word)
    BY <1>2 DEF Within
  <2>2. \A n \in DOMAIN w : w[n] \in Word
    BY <2>1, LenProperties, ElementOfSeq
  <2>3. \A n \in DOMAIN w : w[n].start \in Nat
    BY <2>2 DEF Word
  <2> QED BY <1>2, <2>3 DEF Within
<1>5. StaysInOrder(Rebase(<<w, w>>, <<T, T>>), 2 * T)
  <2> DEFINE chunks == <<w, w>>
             durations == <<T, T>>
  <2>1. /\ chunks \in Seq(Seq(Word)) /\ durations \in Seq(Nat)
        /\ Len(chunks) = 2 /\ Len(durations) = 2
    <3>1. w \in Seq(Word)
      BY <1>2 DEF Within
    <3> QED BY <1>1, <3>1
  <2>2. \A c \in 1 .. 2 : chunks[c] = w /\ durations[c] = T
    OBVIOUS
  <2> HIDE DEF chunks, durations
  <2>3. Combinable(chunks, durations)
    BY <1>2, <1>3, <2>1, <2>2 DEF Combinable
  <2>4. StaysInOrder(Rebase(chunks, durations), Offsets(durations)[2] + durations[2])
    BY <2>1, <2>3, ChunksStayInOrder
  <2>5. Offsets(durations)[2] = T
    <3>1. Precedes(Offsets(durations), 2, durations)
      BY <2>1, OffsetsAre
    <3>2. durations \in [1 .. 2 -> Nat]
      BY <2>1, LenProperties
    <3>3. /\ 2 > 0 => Offsets(durations)[1] = 0
          /\ \A c \in 1 .. 2 - 1 :
               Offsets(durations)[c + 1] = Offsets(durations)[c] + durations[c]
      BY <3>1, <3>2, PrecedeType
    <3>4. Offsets(durations)[1] = 0
      BY <3>3
    <3>5. Offsets(durations)[1 + 1] = Offsets(durations)[1] + durations[1]
      <4>1. 1 \in 1 .. 2 - 1
        OBVIOUS
      <4> QED BY <3>3, <4>1
    <3> QED BY <1>1, <2>2, <3>4, <3>5
  <2>6. Offsets(durations)[2] + durations[2] = 2 * T
    BY <1>1, <2>2, <2>5
  <2> QED BY <2>4, <2>6 DEF chunks, durations
<1> QED BY <1>2, <1>4, <1>5 DEF WordsRight, w, missed, T

LEMMA TimingsStayInOrder == WordsInOrder
<1> SUFFICES ASSUME NEW text \in Texts, NEW align \in Alignments
             PROVE  WordsRight(Tokens(text), Aggregate(text, Tokens(text), align),
                               Missed(Matches(text, Tokens(text), align)), Total(align))
  BY DEF WordsInOrder
<1>1. text \in Seq(STRING) /\ Timely(align)
  BY TimesAssumption
<1> QED BY <1>1, WordsStayInOrder

\* The words of every narration come in the order of its text (WordsInOrder), for any texts and
\* any alignments whose characters follow one another in the audio.
THEOREM TimingsAreInOrder == Spec => []TimingsInOrder
<1>1. TimingsInOrder
  BY TimingsStayInOrder DEF TimingsInOrder
<1> QED BY <1>1, PTL
=============================================================================
