---------------------------- MODULE PayloadBudget ----------------------------
(***************************************************************************)
(* The guards that keep the images and the prompt of one Gemini call under *)
(* its inline limit, by shrinking the less important images first. What a  *)
(* re-encoding makes of an image is not known beforehand: a guard is the   *)
(* set of the payloads it may send, empty when it refuses.                 *)
(*                                                                         *)
(* A payload is the sequence of its groups of images in the order the      *)
(* guard gives them up, each group the sizes of its images in bytes.       *)
(***************************************************************************)
EXTENDS Integers, Sequences, SequencesExt

CONSTANTS Limit,  \* GEMINI_INLINE_LIMIT_BYTES
          Margin, \* the margin the guards leave below it
          Floor,  \* the least budget an image is shrunk to
          Prompt, \* bytes of the prompt
          Sizes   \* the sizes images have and re-encodings come out at

ASSUME SizesAssumption ==
  {Limit, Margin, Floor, Prompt} \subseteq Nat /\ Sizes \subseteq Nat \ {0}

\* compute_base64_size.
B64(n) == IF n <= 0 THEN 0 ELSE 4 * ((n + 2) \div 3)

Weight(group) == FoldSeq(LAMBDA n, w : w + B64(n), 0, group)
Total(p) == FoldSeq(LAMBDA group, w : w + Weight(group), Prompt, p)
Fits(p) == Total(p) + Margin <= Limit

-----------------------------------------------------------------------------
(* The guards of the detect cores                                          *)

\* The raw bytes left for group i when the others stay as they are.
RawBudget(p, i) ==
  LET room == ((Limit - (Total(p) - Weight(p[i])) - Margin) * 3) \div 4
  IN IF room > Floor THEN room ELSE Floor

\* fit_to_budget on a group of one: under its budget, or as it was when that fails.
FitToBudget(group, budget) ==
  IF group = << >> \/ group[1] <= budget THEN {group}
  ELSE {group} \cup {<<n>> : n \in {m \in Sizes \cup {budget} : m <= budget}}

\* fit_group_to_budget: one pass over all of them, which may miss the budget.
FitGroupToBudget(group, budget) ==
  IF FoldSeq(LAMBDA n, w : w + n, 0, group) <= budget THEN {group}
  ELSE [DOMAIN group -> Sizes]

\* enforce_variant_base64_budget: up to five passes over one image until the payload fits.
Scaled(group) == IF group = << >> THEN {group} ELSE [DOMAIN group -> Sizes]

Guards == {"sprite_detect", "mix_detect", "rmbg_detect", "mix_swap", "sprite_swap"}

Shrunk(guard, p, i) ==
  {[p EXCEPT ![i] = group] :
     group \in CASE guard = "mix_swap" -> Scaled(p[i])
                 [] guard = "sprite_detect" /\ i = 1 -> FitGroupToBudget(p[i], RawBudget(p, i))
                 [] OTHER -> FitToBudget(p[i], RawBudget(p, i))}

\* The groups a guard may touch: the rmbg result keeps its alpha.
Tiers(guard, p) == IF guard = "rmbg_detect" THEN Len(p) - 1 ELSE Len(p)

\* Mutant: no check after the last tier.
SentByTiersUnchecked(guard, p) ==
  LET after[i \in 0 .. Tiers(guard, p)] ==
        IF i = 0 THEN {p}
        ELSE LET before == after[i - 1]
             IN {q \in before : Fits(q)}
                  \cup UNION {Shrunk(guard, q, i) : q \in {r \in before : ~Fits(r)}}
  IN after[Tiers(guard, p)]

\* Tier by tier, until the payload fits; then the last check, which refuses it.
SentByTiers(guard, p) ==
  LET after[i \in 0 .. Tiers(guard, p)] ==
        IF i = 0 THEN {p}
        ELSE LET before == after[i - 1]
             IN {q \in before : Fits(q)}
                  \cup UNION {Shrunk(guard, q, i) : q \in {r \in before : ~Fits(r)}}
  IN {q \in after[Tiers(guard, p)] : Fits(q)}

\* enforce_total_base64_budget without identity hints: every image at once, and a last check that
\* leaves no margin.
SentUniformly(p) ==
  IF Fits(p) THEN {p}
  ELSE {q \in {<<human, sheet>> : human \in Scaled(p[1]), sheet \in Scaled(p[2])} : Total(q) < Limit}

Sent(guard, p) == IF guard = "sprite_swap" THEN SentUniformly(p) ELSE SentByTiers(guard, p)

-----------------------------------------------------------------------------
(* What a guard promises                                                   *)

One == {<<n>> : n \in Sizes}
Pair == {<<m, n>> : m, n \in Sizes}
Payloads(guard) ==
  CASE guard = "sprite_detect" -> {<<h, o, r>> : h \in One \cup Pair, o \in One, r \in One}
    [] guard = "mix_detect" -> {<<a, b, o, r>> : a \in One \cup {<< >>}, b \in One, o \in One, r \in One}
    [] guard = "rmbg_detect" -> {<<o, r>> : o \in One, r \in One}
    [] guard = "mix_swap" -> {<<a, b, s>> : a \in One \cup {<< >>}, b \in One, s \in One}
    [] guard = "sprite_swap" -> {<<h, s>> : h \in One \cup Pair, s \in One}

\* Whatever the images weigh and however they come out of the re-encoding, what is sent is below
\* the inline limit, a payload that fitted is sent as it was, and the image a detect call is about
\* is only ever touched when all that is given up before it was not enough, an rmbg result never.
PayloadsRight ==
  \A guard \in Guards : \A p \in Payloads(guard) : \A q \in Sent(guard, p) :
    LET last == Len(p) IN
      /\ Total(q) < Limit
      /\ Fits(p) => q = p
      /\ q[last] # p[last] /\ guard # "sprite_swap" =>
           guard # "rmbg_detect" /\ ~Fits([q EXCEPT ![last] = p[last]])
=============================================================================
