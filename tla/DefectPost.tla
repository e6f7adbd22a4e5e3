----------------------------- MODULE DefectPost ------------------------------
(***************************************************************************)
(* What the detect cores make of the defects Gemini lists: invalid ones    *)
(* are dropped, the rest filtered, sorted by severity and confidence and   *)
(* cut at max_defects; an rmbg defect is given the cell its centre is in.  *)
(*                                                                         *)
(* A defect is a record of box <<ymin, xmin, ymax, xmax>> in thousandths   *)
(* of the sheet, category, severity, confidence (in tenths) and object,    *)
(* the last four possibly Absent.                                          *)
(***************************************************************************)
EXTENDS Integers, Sequences, FiniteSets

CONSTANTS Categories, \* the categories of the plane
          Absent      \* a field the answer leaves out

SeverityRank(v) == CASE v = "high" -> 2 [] v = "medium" -> 1 [] OTHER -> 0

\* coerce_box: in range and of a positive area.
ValidBox(b) ==
  /\ \A i \in 1 .. 4 : b[i] \in 0 .. 1000
  /\ b[1] < b[3] /\ b[2] < b[4]

Within(c) == IF c = Absent \/ c < 0 THEN 0 ELSE IF c > 10 THEN 10 ELSE c

\* An absent or empty focus leaves every object in; an untagged defect is in every focus.
InScope(d, focus, threshold) ==
  /\ ValidBox(d.box)
  /\ d.category \in Categories \cup {Absent}
  /\ focus = Absent \/ focus = {} \/ d.object = Absent \/ d.object \in focus
  /\ SeverityRank(d.severity) >= SeverityRank(threshold)

\* The order of the sort, and its stability.
Outranks(d, e) ==
  \/ SeverityRank(d.severity) > SeverityRank(e.severity)
  \/ SeverityRank(d.severity) = SeverityRank(e.severity) /\ Within(d.confidence) > Within(e.confidence)
Before(raw, i, j) == Outranks(raw[i], raw[j]) \/ (~Outranks(raw[j], raw[i]) /\ i < j)

\* Mutant: the list is cut before it is sorted.
KeptFirst(raw, focus, threshold, most) ==
  LET All == {i \in DOMAIN raw : InScope(raw[i], focus, threshold)}
      S == {i \in All : Cardinality({j \in All : j < i}) < most}
      Sorted == [n \in 1 .. Cardinality(S) |->
                   CHOOSE i \in S : Cardinality({j \in S : Before(raw, j, i)}) = n - 1]
  IN Sorted

\* The positions in raw of the defects that are kept, in the order they are listed.
Kept(raw, focus, threshold, most) ==
  LET S == {i \in DOMAIN raw : InScope(raw[i], focus, threshold)}
      Sorted == [n \in 1 .. Cardinality(S) |->
                   CHOOSE i \in S : Cardinality({j \in S : Before(raw, j, i)}) = n - 1]
  IN SubSeq(Sorted, 1, IF most < Len(Sorted) THEN most ELSE Len(Sorted))

Truncated(raw, focus, threshold, most) ==
  Cardinality({i \in DOMAIN raw : InScope(raw[i], focus, threshold)}) > most

\* Python's round of a quotient: to the even neighbour from the middle.
Rounded(n, d) ==
  LET q == n \div d  r == 2 * (n % d)
  IN IF r > d \/ (r = d /\ q % 2 = 1) THEN q + 1 ELSE q

\* The centre of a box on a sheet of width w and height h, in pixels: <<x, y>>.
Centre(b, w, h) == <<Rounded((b[2] + b[4]) * w, 2000), Rounded((b[1] + b[3]) * h, 2000)>>

\* _assign_cells: the first cell the centre is in, or none.
CellOf(centre, cells) ==
  LET hits == {n \in DOMAIN cells :
                 /\ centre[1] \in cells[n].x .. cells[n].x + cells[n].w - 1
                 /\ centre[2] \in cells[n].y .. cells[n].y + cells[n].h - 1}
  IN IF hits = {} THEN Absent ELSE CHOOSE n \in hits : \A m \in hits : n <= m

-----------------------------------------------------------------------------
(* What a list of defects promises                                         *)

\* Of what the request asks for, the list holds the worst, the worst first and no defect twice; it
\* says truncated exactly when something asked for is missing.
WorstKept(raw, focus, threshold, most) ==
  LET kept == Kept(raw, focus, threshold, most)
      listed == {kept[n] : n \in DOMAIN kept}
      missing == {i \in DOMAIN raw : InScope(raw[i], focus, threshold)} \ listed
  IN /\ Cardinality(listed) = Len(kept) /\ Len(kept) <= most
     /\ \A i \in listed : InScope(raw[i], focus, threshold)
     /\ \A m, n \in DOMAIN kept : m < n => Before(raw, kept[m], kept[n])
     /\ \A i \in missing, j \in listed : ~Outranks(raw[i], raw[j])
     /\ Truncated(raw, focus, threshold, most) <=> missing # {}
     /\ missing # {} => Len(kept) = most

\* A defect wider and higher than a pixel that lies in one cell is given that cell: rounding never
\* carries its centre over an edge into the next cell or the gutter.
CentreInOwnCell(b, cells, w, h) ==
  \A n \in DOMAIN cells :
    LET c == cells[n] IN
      /\ (b[4] - b[2]) * w > 1000 /\ (b[3] - b[1]) * h > 1000
      /\ b[2] * w >= c.x * 1000 /\ b[4] * w <= (c.x + c.w) * 1000
      /\ b[1] * h >= c.y * 1000 /\ b[3] * h <= (c.y + c.h) * 1000
      => CellOf(Centre(b, w, h), cells) = n
=============================================================================
