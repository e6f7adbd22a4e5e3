------------------------------ MODULE AudioSwap ------------------------------
(***************************************************************************)
(* The remix_audio_swap job: for each spread that needs it, narrate the    *)
(* chunks whose script or voice changed, combine the chunks of each        *)
(* textbox and language into one audio, and write the illustration column  *)
(* back, while the editor goes on writing the same column.                 *)
(*                                                                         *)
(* A "box" is a textbox in one language. The voice resolution and the      *)
(* regeneration rule are the code's own; an audio is the number of the job *)
(* that recorded it, and a combined audio the list of the chunk audios it  *)
(* was made of.                                                            *)
(***************************************************************************)
EXTENDS Integers, Sequences, FiniteSets

CONSTANTS Spreads,    \* the spreads of the remix, 1 .. n in their order
          Boxes,      \* the boxes, 1 .. n in the order the tasks are built
          SpreadOf,   \* the spread of each box
          Named,      \* the boxes whose textbox has an id
          Book,       \* the stored boxes a behaviour may start from
          Voices,     \* remix_config.voices, [key, voice, enabled] in order
          None,       \* an absent value
          TextboxCap, \* MAX_CONCURRENT_TEXTBOXES_PER_SPREAD
          ChunkCap,   \* max_concurrent_chunks_per_textbox
          MaxJobs,    \* bound: jobs enqueued
          MaxEdits,   \* bound: writes of the editor
          Edited      \* bound: the boxes whose scripts the editor changes

NoResult == -1   \* the chunk has no selected result
Voiced == STRING \cup {None}
Chunks == [reader : Voiced, voice : Voiced, synced : BOOLEAN, tuned : BOOLEAN, sel : {NoResult, 0}]

ASSUME ShapeAssumption ==
  /\ Spreads \subseteq Nat \ {0} /\ IsFiniteSet(Spreads)
  /\ Boxes \subseteq Nat \ {0} /\ IsFiniteSet(Boxes) /\ Edited \subseteq Boxes
  /\ SpreadOf \in [Boxes -> Spreads] /\ Named \subseteq Boxes
  /\ Voices \in Seq([key : STRING, voice : Voiced, enabled : BOOLEAN])
  /\ None \notin STRING
ASSUME BookAssumption ==
  Book \in [Boxes -> [chunks : Seq(Chunks), combined : Seq(Nat), isSync : BOOLEAN]]
ASSUME CapsAssumption ==
  {TextboxCap, ChunkCap} \subseteq Nat \ {0} /\ {MaxJobs, MaxEdits} \subseteq Nat

VARIABLES
  db, dbSpreads,    \* illustration as stored: its boxes and its spreads
  mem, memSpreads,  \* the copy the job loaded and works on
  phase,            \* where the job stands
  scope, pos,       \* step_details.spreads in order, and the spread in work
  told,             \* the state of each spread as last reported
  box,              \* the task of each box of the spread in work
  part,             \* the narrations of each box's chunks
  spread,           \* the locals of the spread in work
  tally,            \* updated, failed and chunks_done of the job
  job,              \* the jobs so far, whether to cancel, the last verdict
  edits,            \* writes of the editor so far
  hist              \* history: what happened to the boxes

work == <<scope, pos, told, box, part, spread, tally>>
vars == <<db, dbSpreads, mem, memSpreads, phase, work, job, edits, hist>>

-----------------------------------------------------------------------------
(* Voices                                                                  *)

First(hits) == CHOOSE n \in hits : \A m \in hits : n <= m

VoiceToReader(v) ==
  LET owners == {n \in DOMAIN Voices : Voices[n].voice = v}
  IN IF v = None \/ owners = {} THEN None ELSE Voices[First(owners)].key

\* reader_key, else the reader whose voice the chunk has, else the narrator.
ResolveVoice(c) ==
  LET reader == IF c.reader # None THEN c.reader
                ELSE IF VoiceToReader(c.voice) # None THEN VoiceToReader(c.voice) ELSE "narrator"
      entries == {n \in DOMAIN Voices : Voices[n].key = reader /\ Voices[n].enabled}
  IN IF entries = {} THEN None ELSE Voices[First(entries)].voice

NeedsRegen(c) == \/ ~c.synced
                 \/ ResolveVoice(c) # None /\ ResolveVoice(c) # c.voice

VoiceFor(c) == IF ResolveVoice(c) # None THEN ResolveVoice(c) ELSE c.voice

-----------------------------------------------------------------------------
DirtyChunks(b, store) == {i \in DOMAIN store[b].chunks : NeedsRegen(store[b].chunks[i])}
BoxesOf(s) == {b \in Boxes : SpreadOf[b] = s}

Ascending(S) == CHOOSE f \in [1 .. Cardinality(S) -> S] :
                  \A i, j \in 1 .. Cardinality(S) : i < j => f[i] < f[j]

\* The precheck of the endpoint, and the handler's own rebuild of a lost scope.
NeedyScope(store, spreads) ==
  Ascending({s \in spreads : \E b \in BoxesOf(s) : DirtyChunks(b, store) # {}})

Selected(a) == [i \in DOMAIN a.chunks |-> a.chunks[i].sel]

\* A box that needs nothing, or counts as in sync, with an audio of other recordings than its
\* chunks select.
Stale(b, store) ==
  (DirtyChunks(b, store) = {} \/ store[b].isSync) /\ store[b].combined # Selected(store[b])

Idle == [b \in Boxes |-> "out"]
Silent == [b \in Boxes |-> [i \in DOMAIN Book[b].chunks |-> "none"]]
Fresh == [dirty |-> FALSE, failed |-> {}]

Init ==
  /\ db = Book /\ dbSpreads = Spreads
  /\ mem = Book /\ memSpreads = Spreads
  /\ phase = "idle"
  /\ scope = << >> /\ pos = 1
  /\ told = [s \in Spreads |-> "none"]
  /\ box = Idle /\ part = Silent /\ spread = Fresh
  /\ tally = [updated |-> 0, failed |-> 0, chunks |-> 0]
  /\ job = [count |-> 0, cancel |-> FALSE, verdict |-> "none"]
  /\ edits = 0
  /\ hist = [harmed |-> {b \in Boxes : Stale(b, Book)}, unvoiced |-> {}, touched |-> {}]

\* POST /remix/{id}/audio-swap. A request during an active job is answered with that
\* job and one with nothing to regenerate is skipped; neither changes any state. The
\* UPDATE that initialises step_details may fail, and the scope is then not stored.
Enqueue ==
  /\ phase = "idle" /\ job.count < MaxJobs
  /\ NeedyScope(db, dbSpreads) # << >>
  /\ phase' = "queued"
  /\ job' = [count |-> job.count + 1, cancel |-> FALSE, verdict |-> "none"]
  /\ \E stored \in BOOLEAN :
       /\ scope' = IF stored THEN NeedyScope(db, dbSpreads) ELSE << >>
       /\ told' = [s \in Spreads |-> IF stored /\ \E n \in DOMAIN scope' : scope'[n] = s
                                     THEN "pending" ELSE "none"]
  /\ pos' = 1 /\ box' = Idle /\ part' = Silent /\ spread' = Fresh
  /\ tally' = [updated |-> 0, failed |-> 0, chunks |-> 0]
  /\ hist' = [hist EXCEPT !.unvoiced = {}, !.touched = {}]
  /\ UNCHANGED <<db, dbSpreads, mem, memSpreads, edits>>

End(verdict) == phase' = "idle" /\ job' = [job EXCEPT !.verdict = verdict]

\* The load of the remix, which may fail, and of its scope.
Load ==
  /\ phase = "queued"
  /\ \/ /\ mem' = db /\ memSpreads' = dbSpreads
        /\ scope' = IF scope = << >> THEN NeedyScope(db, dbSpreads) ELSE scope
        /\ IF scope' = << >> THEN End("completed") ELSE phase' = "next" /\ UNCHANGED job
        /\ hist' = [hist EXCEPT !.touched = {}]
        /\ UNCHANGED <<pos, told, box, part, spread, tally>>
     \/ End("failed") /\ UNCHANGED <<mem, memSpreads, work, hist>>
  /\ UNCHANGED <<db, dbSpreads, edits>>

\* A report raises outside any try and the runner then fails the job; or it is stored.
Report(marks, next) ==
  \/ told' = marks /\ phase' = next /\ UNCHANGED job
  \/ told' = told /\ End("failed")

\* The head of the loop: the poll, the report, and the tasks of the spread's boxes.
NextSpread ==
  /\ phase = "next" /\ pos <= Len(scope)
  /\ LET s == scope[pos] IN
     IF job.cancel THEN End("cancelled") /\ UNCHANGED work
     ELSE /\ Report([told EXCEPT ![s] = "running"], IF s \in memSpreads THEN "work" ELSE "missing")
          /\ box' = [b \in Boxes |-> IF b \in BoxesOf(s) THEN "waiting" ELSE "out"]
          /\ part' = Silent /\ spread' = Fresh
          /\ UNCHANGED <<scope, pos, tally>>
  /\ UNCHANGED <<db, dbSpreads, mem, memSpreads, edits, hist>>

\* Closing a spread: mark it, count it and report.
Close(mark) ==
  /\ tally' = IF mark = "done" THEN [tally EXCEPT !.updated = @ + 1]
                               ELSE [tally EXCEPT !.failed = @ + 1]
  /\ pos' = pos + 1
  /\ Report([told EXCEPT ![scope[pos]] = mark], "next")
  /\ UNCHANGED <<db, dbSpreads, mem, memSpreads, scope, box, part, spread, edits, hist>>

SpreadMissing == phase = "missing" /\ Close("failed")

Active == {b \in Boxes : box[b] \in {"narrating", "fetching", "combining"}}
Talking == {p \in UNION {{b} \X DOMAIN part[b] : b \in Boxes} : part[p[1]][p[2]] = "talking"}

\* Mutant: the textbox slots are not asked for.
TakeFreely(b) ==
  /\ phase = "work" /\ box[b] = "waiting" /\ DirtyChunks(b, mem) # {}
  /\ box' = [box EXCEPT ![b] = "narrating"]
  /\ part' = [part EXCEPT ![b] = [i \in DOMAIN @ |-> IF i \in DirtyChunks(b, mem) THEN "queued" ELSE "none"]]
  /\ UNCHANGED <<db, dbSpreads, mem, memSpreads, phase, scope, pos, told, spread, tally, job, edits, hist>>

\* A box gets one of the textbox slots, first come first served.
Take(b) ==
  /\ phase = "work" /\ box[b] = "waiting" /\ \A d \in Boxes : box[d] = "waiting" => b <= d
  /\ Cardinality(Active) < TextboxCap
  /\ LET dirty == DirtyChunks(b, mem) IN
       /\ box' = [box EXCEPT ![b] = IF dirty = {} THEN "skipped" ELSE "narrating"]
       /\ part' = [part EXCEPT ![b] = [i \in DOMAIN @ |-> IF i \in dirty THEN "queued" ELSE "none"]]
  /\ UNCHANGED <<db, dbSpreads, mem, memSpreads, phase, scope, pos, told, spread, tally, job, edits, hist>>

\* A narration gets one of the spread's chunk slots; a box that has failed does not
\* take back those that wait.
Speak(b, i) ==
  /\ part[b][i] = "queued" /\ Cardinality(Talking) < ChunkCap
  /\ part' = [part EXCEPT ![b][i] = "talking"]
  /\ UNCHANGED <<db, dbSpreads, mem, memSpreads, phase, scope, pos, told, box, spread, tally, job, edits, hist>>

\* The chunks of a box once all its narrations are in.
Renarrated(b) ==
  [i \in DOMAIN mem[b].chunks |->
     LET c == mem[b].chunks[i]
     IN IF part[b][i] = "none" THEN c
        ELSE [c EXCEPT !.voice = VoiceFor(c), !.synced = TRUE, !.sel = job.count]]

\* Mutant: only the new recordings are combined.
CombinedRenewed(a) ==
  [a EXCEPT !.combined = SelectSeq(Selected(a), LAMBDA n : n = job.count), !.isSync = TRUE]

\* The box's audio after its chunks were combined.
Combined(a) ==
  [a EXCEPT !.combined = Selected(a),
            !.isSync = \A i \in DOMAIN a.chunks : a.chunks[i].synced /\ a.chunks[i].tuned]

Failing(b, s) == [s EXCEPT !.failed = IF b \in Named THEN @ \cup {b} ELSE @]

\* One of several narrations is in; or the last, which gathers them, applies them to the
\* loaded copy and goes on to combine, a box of one chunk without a wait.
Narrated(b, i) ==
  LET said == [part EXCEPT ![b][i] = "said"]
      renewed == [mem[b] EXCEPT !.chunks = Renarrated(b)]
      gathered == box[b] = "narrating" /\ \A k \in DOMAIN said[b] : said[b][k] \in {"none", "said"}
      mute == \E k \in DOMAIN renewed.chunks : renewed.chunks[k].sel = NoResult
  IN
  /\ part[b][i] = "talking" /\ VoiceFor(mem[b].chunks[i]) # None
  /\ part' = said
  /\ IF ~gathered THEN UNCHANGED <<mem, box, spread, tally, hist>>
     ELSE /\ tally' = [tally EXCEPT !.chunks = @ + Cardinality({k \in DOMAIN said[b] : said[b][k] = "said"})]
          /\ IF Len(renewed.chunks) = 1
             THEN /\ mem' = [mem EXCEPT ![b] = Combined(renewed)]
                  /\ box' = [box EXCEPT ![b] = "combined"]
                  /\ spread' = [spread EXCEPT !.dirty = TRUE]
                  /\ hist' = hist
             ELSE /\ mem' = [mem EXCEPT ![b] = renewed]
                  /\ box' = [box EXCEPT ![b] = IF mute THEN "failed" ELSE "fetching"]
                  /\ spread' = IF mute THEN Failing(b, spread) ELSE spread
                  /\ hist' = IF mute THEN [hist EXCEPT !.harmed = @ \cup {b}] ELSE hist
  /\ UNCHANGED <<db, dbSpreads, memSpreads, phase, scope, pos, told, job, edits>>

\* Mutant: a failed narration leaves the others of its box applied.
NarrationFailsPartly(b, i) ==
  /\ part[b][i] = "talking" /\ box[b] = "narrating"
  /\ part' = [part EXCEPT ![b][i] = "lost"]
  /\ box' = [box EXCEPT ![b] = "failed"]
  /\ spread' = [Failing(b, spread) EXCEPT !.dirty = TRUE]
  /\ hist' = [hist EXCEPT !.unvoiced = @ \cup {b}]
  /\ mem' = [mem EXCEPT ![b].chunks = Renarrated(b)]
  /\ UNCHANGED <<db, dbSpreads, memSpreads, phase, scope, pos, told, tally, job, edits>>

\* A narration fails: no voice, none in the catalogue, or an error of ElevenLabs or of the
\* upload. The first failure ends the box; the other narrations of it run on unheard.
NarrationFails(b, i) ==
  /\ part[b][i] = "talking"
  /\ part' = [part EXCEPT ![b][i] = "lost"]
  /\ IF box[b] = "narrating"
     THEN /\ box' = [box EXCEPT ![b] = "failed"]
          /\ spread' = Failing(b, spread)
          /\ hist' = [hist EXCEPT !.unvoiced = @ \cup {b}]
     ELSE UNCHANGED <<box, spread, hist>>
  /\ UNCHANGED <<db, dbSpreads, mem, memSpreads, phase, scope, pos, told, tally, job, edits>>

\* The combine of a box of several chunks: every recording is fetched,
FetchChunks(b) ==
  /\ box[b] = "fetching"
  /\ box' = [box EXCEPT ![b] = "combining"]
  /\ UNCHANGED <<db, dbSpreads, mem, memSpreads, phase, scope, pos, told, part, spread, tally, job, edits, hist>>

\* then they are probed, concatenated and uploaded. The textbox is synced and the spread will be
\* written.
Combine(b) ==
  /\ box[b] = "combining"
  /\ mem' = [mem EXCEPT ![b] = Combined(mem[b])]
  /\ box' = [box EXCEPT ![b] = "combined"]
  /\ spread' = [spread EXCEPT !.dirty = TRUE]
  /\ UNCHANGED <<db, dbSpreads, memSpreads, phase, scope, pos, told, part, tally, job, edits, hist>>

\* A failed combine does not undo what the narrations wrote into the copy.
Uncombined(b) ==
  /\ box' = [box EXCEPT ![b] = "failed"]
  /\ spread' = Failing(b, spread)
  /\ hist' = [hist EXCEPT !.harmed = @ \cup {b}]
  /\ UNCHANGED <<db, dbSpreads, mem, memSpreads, phase, scope, pos, told, part, tally, job, edits>>

\* A recording cannot be had: refused, redirected, too large, late.
FetchFails(b) == box[b] = "fetching" /\ Uncombined(b)
\* One does not decode, or ffmpeg fails.
CombineFails(b) == box[b] = "combining" /\ Uncombined(b)

BoxesOver == \A b \in Boxes : box[b] \in {"out", "skipped", "combined", "failed"}

\* The whole column is written, with whatever the copy holds by now; a failed write
\* leaves the copy as it is.
Persist ==
  /\ phase = "work" /\ BoxesOver
  /\ \/ /\ spread.dirty
        /\ db' = mem /\ dbSpreads' = memSpreads /\ phase' = "settle"
     \/ /\ spread.dirty
        /\ phase' = "unsaved" /\ UNCHANGED <<db, dbSpreads>>
     \/ /\ ~spread.dirty
        /\ phase' = "settle" /\ UNCHANGED <<db, dbSpreads>>
  /\ UNCHANGED <<mem, memSpreads, work, job, edits, hist>>

Unsaved == phase = "unsaved" /\ Close("failed")

\* Mutant: only the spread's combined textboxes decide, whatever failed beside them.
SettleAnyDone ==
  /\ phase = "settle"
  /\ Close(IF spread.failed # {} /\ ~spread.dirty THEN "failed" ELSE "done")

Settle ==
  /\ phase = "settle"
  /\ Close(IF spread.failed # {} THEN "failed" ELSE "done")

\* The last poll, which may raise, decides between cancelled and completed.
Finish ==
  /\ phase = "next" /\ pos > Len(scope)
  /\ End(IF job.cancel THEN "cancelled" ELSE "completed") \/ End("failed")
  /\ UNCHANGED <<db, dbSpreads, mem, memSpreads, work, edits, hist>>

RequestCancel ==
  /\ phase # "idle" /\ ~job.cancel
  /\ job' = [job EXCEPT !.cancel = TRUE]
  /\ UNCHANGED <<db, dbSpreads, mem, memSpreads, phase, work, edits, hist>>

\* The editor writes the column at any time: a new script for a chunk, or a spread less.
Edit(b, i) ==
  /\ edits < MaxEdits /\ b \in Edited /\ SpreadOf[b] \in dbSpreads
  /\ db' = [db EXCEPT ![b].chunks[i].synced = FALSE]
  /\ edits' = edits + 1
  /\ hist' = [hist EXCEPT !.touched = @ \cup {b}]
  /\ UNCHANGED <<dbSpreads, mem, memSpreads, phase, work, job>>

RemoveSpread(s) ==
  /\ edits < MaxEdits /\ s \in dbSpreads
  /\ dbSpreads' = dbSpreads \ {s}
  /\ edits' = edits + 1
  /\ hist' = [hist EXCEPT !.touched = @ \cup BoxesOf(s)]
  /\ UNCHANGED <<db, mem, memSpreads, phase, work, job>>

Next ==
  \/ Enqueue \/ Load \/ NextSpread \/ SpreadMissing
  \/ \E b \in Boxes : Take(b) \/ FetchChunks(b) \/ FetchFails(b) \/ Combine(b) \/ CombineFails(b)
  \/ \E b \in Boxes : \E i \in DOMAIN part[b] :
       Speak(b, i) \/ Narrated(b, i) \/ NarrationFails(b, i) \/ Edit(b, i)
  \/ Persist \/ Unsaved \/ Settle \/ Finish \/ RequestCancel
  \/ \E s \in Spreads : RemoveSpread(s)

Spec == Init /\ [][Next]_vars

-----------------------------------------------------------------------------
Phases == {"idle", "queued", "next", "work", "missing", "unsaved", "settle"}
Marks == {"none", "pending", "running", "done", "failed"}
BoxStates == {"out", "waiting", "skipped", "narrating", "fetching", "combining", "combined", "failed"}

\* An audio of a textbox as stored: its chunks and what they were combined into.
IsAudio(b, a) ==
  /\ DOMAIN a.chunks = DOMAIN Book[b].chunks
  /\ \A i \in DOMAIN a.chunks : a.chunks[i].synced \in BOOLEAN /\ a.chunks[i].sel \in NoResult .. MaxJobs
  /\ a.isSync \in BOOLEAN

\* Type correctness, with the accounts of the job: the tallies are those of the states
\* reported, no more narrations or textboxes are in work than their semaphores admit.
TypeOK ==
  /\ \A b \in Boxes : IsAudio(b, db[b]) /\ IsAudio(b, mem[b])
  /\ dbSpreads \subseteq Spreads /\ memSpreads \subseteq Spreads
  /\ phase \in Phases /\ pos \in 1 .. Len(scope) + 1
  /\ told \in [Spreads -> Marks] /\ box \in [Boxes -> BoxStates]
  /\ Cardinality(Active) <= TextboxCap /\ Cardinality(Talking) <= ChunkCap
  /\ phase = "next" => /\ tally.updated = Cardinality({s \in Spreads : told[s] = "done"})
                       /\ tally.updated + tally.failed = pos - 1
  /\ spread.failed \subseteq Named /\ job.count \in 0 .. MaxJobs /\ edits \in 0 .. MaxEdits

\* A textbox stored as needing nothing, or as in sync, has a combined audio made of exactly
\* the recordings its chunks select, unless a combine of that textbox failed or it came stale with
\* the book: no interleaving of narrations, failures, partial writes, cancels, edits and further
\* jobs leaves it with a stale audio otherwise.
StaleOnlyAfterFailure == \A b \in Boxes \ hist.harmed : ~Stale(b, db)

\* A textbox one of whose narrations failed stays in need of regeneration as stored, so
\* that the next request takes it up again: none of its other narrations was kept.
FailedNarrationIsRetried ==
  \A b \in hist.unvoiced : DirtyChunks(b, db) # {}

\* A spread reported as done has nothing left to regenerate as stored, whatever failed
\* before or after it, but for the textboxes the editor changed during the job and those
\* without an id, whose failures the job does not remember.
DoneIsStored ==
  \A b \in Named \ hist.touched :
    told[SpreadOf[b]] = "done" => DirtyChunks(b, db) = {}
=============================================================================
