---------------------------- MODULE MCSwapSheets ----------------------------
EXTENDS SwapSheets, SheetFrames

CONSTANTS s1, s2, k1, k2, k3, t1, t2, t3

\* Two sheets that share a cell when they are a sprite's and no position otherwise; an upscale
\* sheet of two crops; up to three targets, one of them without a locator.
MCCropsOf ==
  [k \in Kinds |-> [s \in Sheets |->
     CASE k = "sprite" -> IF s = s1 THEN {k1} ELSE {k1, k2}
       [] k = "mix" -> IF s = s1 THEN {k1} ELSE {k2}
       [] k = "upscale" -> IF s = s1 THEN {k1, k2} ELSE {k3}]]
MCTagged == {[s \in Sheets |-> IF s = s1 THEN a ELSE {t1, t2}] :
               a \in {{}, {t1}, {t1, t3}, {t1, t2, t3}}}

\* A sheet of three cells in an L with gaps of an even and an odd width, one of two rows whose
\* second cell is the higher one, and one with more cells than the classifier takes.
Cell(x, y, w, h) == [x |-> x, y |-> y, w |-> w, h |-> h]
MCLayouts == { <<Cell(3, 3, 12, 12), Cell(17, 3, 12, 12), Cell(3, 18, 12, 16)>>,
               <<Cell(3, 4, 12, 14), Cell(18, 2, 10, 16)>>,
               <<Cell(1, 1, 9, 9), Cell(11, 1, 9, 9), Cell(21, 1, 9, 9), Cell(1, 13, 9, 9)>> }
MCDrifts == {-2, 0, 1, 3}

\* PiecesRight, looked at once, in one of the initial states.
PiecesOfSheets ==
  (phase = "queued" /\ kind = "mix" /\ \A s \in Sheets : column[s] = << >>) => PiecesRight
=============================================================================
