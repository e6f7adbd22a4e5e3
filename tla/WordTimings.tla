----------------------------- MODULE WordTimings -----------------------------
(***************************************************************************)
(* Word timings of a narration: the tokens of its text are matched, one    *)
(* after the other, against the characters that ElevenLabs aligned with    *)
(* the audio; tokens without a match get the time between their            *)
(* neighbours; and the words of a textbox's chunks are shifted to where    *)
(* each chunk starts in the combined audio. Times are in milliseconds, a   *)
(* character is any value, and "wide" characters are words of their own.   *)
(***************************************************************************)
EXTENDS Integers, Sequences, FiniteSets

CONSTANTS Texts,      \* the texts tried
          Alignments  \* the alignments tried

Space == "space"
Wide(ch) == ch \in {"wide1", "wide2"}
Letter(ch) == ch # Space /\ ~Wide(ch)

MaxOf(S) == CHOOSE n \in S : \A m \in S : m <= n
MinOf(S) == CHOOSE n \in S : \A m \in S : n <= m

-----------------------------------------------------------------------------
(* Tokens, as <<first, last>> positions of the text                        *)

Starts(text) ==
  {i \in DOMAIN text : \/ Wide(text[i])
                       \/ Letter(text[i]) /\ (i = 1 \/ ~Letter(text[i - 1]))}

LastOf(text, i) ==
  IF Wide(text[i]) THEN i ELSE MaxOf({j \in i .. Len(text) : \A k \in i .. j : Letter(text[k])})

Tokens(text) ==
  LET nth[n \in 1 .. Cardinality(Starts(text))] ==
        IF n = 1 THEN MinOf(Starts(text))
        ELSE LET last == nth[n - 1] IN MinOf({i \in Starts(text) : last < i})
  IN [n \in 1 .. Cardinality(Starts(text)) |-> <<nth[n], LastOf(text, nth[n])>>]

-----------------------------------------------------------------------------
(* An alignment: characters with the time each starts and ends             *)

Total(align) == IF align.ends = << >> THEN 0 ELSE align.ends[Len(align.ends)]
Usable(align) == /\ Len(align.chars) > 0
                 /\ Len(align.chars) = Len(align.starts) /\ Len(align.chars) = Len(align.ends)

\* External, what ElevenLabs answers: no character starts before the one before it has ended.
Timely(align) ==
  /\ align.chars \in Seq(STRING) /\ align.starts \in Seq(Nat) /\ align.ends \in Seq(Nat)
  /\ Usable(align) =>
       \A i, j \in DOMAIN align.chars :
         /\ align.starts[i] <= align.ends[i]
         /\ i < j => align.ends[i] <= align.starts[j]

ASSUME TimesAssumption == Texts \subseteq Seq(STRING) /\ \A align \in Alignments : Timely(align)

Unmatched == [from |-> -1, to |-> -1, cursor |-> -1]

\* For each token the aligned characters it takes, sought by its first character from
\* where the last match ended; a token that would run past the end takes none.
Matches(text, tokens, align) ==
  LET found[n \in 0 .. Len(tokens)] ==
        IF n = 0 THEN [from |-> -1, to |-> -1, cursor |-> 1]
        ELSE LET cursor == found[n - 1].cursor
                 hits == {i \in cursor .. Len(align.chars) : align.chars[i] = text[tokens[n][1]]}
                 to == MinOf(hits) + tokens[n][2] - tokens[n][1]
             IN IF hits # {} /\ to <= Len(align.chars)
                THEN [from |-> MinOf(hits), to |-> to, cursor |-> to + 1]
                ELSE [Unmatched EXCEPT !.cursor = cursor]
  IN [n \in 1 .. Len(tokens) |-> found[n]]

Missed(matches) == {n \in DOMAIN matches : matches[n].from = -1}

\* Tokens share the duration by their length.
LinearFallback(tokens, total) ==
  LET size(n) == tokens[n][2] - tokens[n][1] + 1
      chars[n \in 0 .. Len(tokens)] == IF n = 0 THEN 0 ELSE chars[n - 1] + size(n)
      share(n) == (total * size(n)) \div chars[Len(tokens)]
      from[n \in 1 .. Len(tokens)] == IF n = 1 THEN 0 ELSE from[n - 1] + share(n - 1)
  IN [n \in 1 .. Len(tokens) |-> [start |-> from[n], end |-> from[n] + share(n)]]

\* The run of missed tokens around n, and the times it lies between.
Gap(missed, n, count) ==
  {m \in 1 .. count : \A k \in MinOf({m, n}) .. MaxOf({m, n}) : k \in missed}

\* Mutant: a missed token takes all the time up to the next match and one token more.
FillGapWide(missed, n, spans, total) ==
  LET before == {m \in 1 .. n - 1 : m \notin missed}
      prev == IF before = {} THEN 0 ELSE spans[MaxOf(before)].end
  IN [start |-> prev, end |-> prev + total \div Len(spans)]

\* A missed token starts where the last match ended and takes an equal share of the gap;
\* all the tokens of one gap start there.
FillGap(missed, n, spans, total) ==
  LET before == {m \in 1 .. n - 1 : m \notin missed}
      after == {m \in n + 1 .. Len(spans) : m \notin missed}
      prev == IF before = {} THEN 0 ELSE spans[MaxOf(before)].end
      next == IF after = {} THEN total ELSE spans[MinOf(after)].start
      share == (next - prev) \div Cardinality(Gap(missed, n, Len(spans)))
  IN [start |-> prev, end |-> prev + MaxOf({0, share})]

Spans(matches, align) ==
  [n \in DOMAIN matches |->
     IF matches[n].from = -1 THEN [start |-> 0, end |-> 0]
     ELSE [start |-> align.starts[matches[n].from], end |-> align.ends[matches[n].to]]]

FillGaps(missed, spans, total) ==
  [n \in DOMAIN spans |-> IF n \in missed THEN FillGap(missed, n, spans, total) ELSE spans[n]]

\* The words of one narration; more than 30% of tokens missed, or no alignment, means linear.
Timed(tokens, matches, align) ==
  IF tokens = << >> THEN << >>
  ELSE IF ~Usable(align) THEN LinearFallback(tokens, 0)
  ELSE IF 10 * Cardinality(Missed(matches)) > 3 * Len(tokens)
       THEN LinearFallback(tokens, Total(align))
  ELSE FillGaps(Missed(matches), Spans(matches, align), Total(align))

Aggregate(text, tokens, align) == Timed(tokens, Matches(text, tokens, align), align)

-----------------------------------------------------------------------------
(* The words of the combined audio                                         *)

Offsets(durations) ==
  LET offset[n \in 1 .. Len(durations)] == IF n = 1 THEN 0 ELSE offset[n - 1] + durations[n - 1]
  IN offset

\* Shifted by what precedes the chunk; an end past the whole is clamped, a start is not.
Rebase(chunks, durations) ==
  LET n == Len(chunks)
      offset == Offsets(durations)
      whole == offset[n] + durations[n]
      shift(c, w) == [start |-> w.start + offset[c], end |-> MinOf({whole, w.end + offset[c]})]
      shifted == [c \in 1 .. n |-> [i \in DOMAIN chunks[c] |-> shift(c, chunks[c][i])]]
      joined[c \in 0 .. n] == IF c = 0 THEN << >> ELSE joined[c - 1] \o shifted[c]
  IN joined[n]

-----------------------------------------------------------------------------
\* Both words of a pair went without a match, as did all the words between them.
SameGap(missed, m, n) == m .. n \subseteq missed

InOrder(words, missed) ==
  \A m, n \in DOMAIN words :
    m < n => \/ words[m].end <= words[n].start
             \/ SameGap(missed, m, n) /\ words[m].start = words[n].start

StaysInOrder(words, whole) ==
  /\ \A n \in DOMAIN words : words[n].end <= whole
  /\ \A n \in 1 .. Len(words) - 1 : words[n].start <= words[n + 1].start

WordsRight(tokens, words, missed, total) ==
  /\ Len(words) = Len(tokens)
  /\ \A n \in DOMAIN words : 0 <= words[n].start /\ words[n].start <= words[n].end
  /\ InOrder(words, missed)
  /\ StaysInOrder(Rebase(<<words, words>>, <<total, total>>), 2 * total)

\* The words of a narration come in the order of the text, one for each token, within
\* the audio and without overlap, whatever characters the provider dropped, added or
\* changed; only words of one gap lie on each other. Combined with a second chunk they
\* stay in order and within the whole.
WordsInOrder ==
  \A text \in Texts, align \in Alignments :
    WordsRight(Tokens(text), Aggregate(text, Tokens(text), align),
               Missed(Matches(text, Tokens(text), align)), Total(align))
=============================================================================
