----------------------------- MODULE MCAudioSwap -----------------------------
EXTENDS AudioSwap, WordTimings

\* Two spreads. The first has a textbox of two chunks to narrate and, in a textbox without
\* an id, one of one chunk. The second has one with a chunk to narrate and one to keep, one
\* whose other chunk has no recording, so that it cannot be combined, and one without a voice.
MCSpreads == {1, 2}
MCBoxes == 1 .. 5
MCSpreadOf == <<1, 1, 2, 2, 2>>
MCNamed == {1, 3, 4, 5}

\* The voice of the hero was replaced; two readers share a voice and one is disabled.
MCVoices == << [key |-> "hero", voice |-> "v2", enabled |-> TRUE],
               [key |-> "ghost", voice |-> "v3", enabled |-> FALSE],
               [key |-> "narrator", voice |-> "v3", enabled |-> TRUE] >>

Chunk(reader, voice, synced, sel) ==
  [reader |-> reader, voice |-> voice, synced |-> synced, tuned |-> TRUE, sel |-> sel]

MCBook ==
  << [chunks |-> << Chunk("hero", "v1", TRUE, 0), Chunk(None, "v3", FALSE, 0) >>,
      combined |-> <<0, 0>>, isSync |-> TRUE],
     [chunks |-> << Chunk("ghost", "v1", FALSE, 0) >>, combined |-> <<0>>, isSync |-> FALSE],
     [chunks |-> << Chunk("narrator", "v3", FALSE, 0), Chunk("ghost", "v1", TRUE, 0) >>,
      combined |-> <<0, 0>>, isSync |-> FALSE],
     [chunks |-> << Chunk(None, "v3", FALSE, 0), Chunk("ghost", "v1", TRUE, -1) >>,
      combined |-> << >>, isSync |-> FALSE],
     [chunks |-> << Chunk("ghost", None, FALSE, 0) >>, combined |-> << >>, isSync |-> FALSE] >>

\* A text of seven one-character words, so that two may be missed, and one of longer words,
\* against every alignment of four characters and some of up to seven, and an unusable one.
MCTexts == { <<"wide1", "wide2", "wide1", "wide1", "wide2", "wide2", "wide1">>,
             <<"a", "b", "space", "a", "wide1", "space", "b", "b">>, << "space" >> }
Aligned(chars) == [chars |-> chars, starts |-> [i \in DOMAIN chars |-> 10 * i - 7],
                   ends |-> [i \in DOMAIN chars |-> 10 * i]]
MCAlignments ==
  {Aligned(chars) : chars \in UNION {[1 .. n -> {"wide1", "wide2", "a", "b"}] : n \in 0 .. 4}}
    \cup {Aligned(chars) : chars \in UNION {[1 .. n -> {"wide1", "wide2"}] : n \in 5 .. 7}}
    \cup {[chars |-> <<"a">>, starts |-> << >>, ends |-> << >>]}

\* The words of every narration tried come in the order of its text, without overlap but
\* within a gap, and stay in order when chunks are combined (WordsInOrder); looked at
\* once, before the first request.
TimingsInOrder == job.count = 0 => WordsInOrder
=============================================================================
