---------------------------- MODULE SheetFrames ----------------------------
(***************************************************************************)
(* How the pieces of a swapped sheet are found: frame_finder snaps one     *)
(* frame per expected cell to the stroke around it, the classifier says    *)
(* which crop each frame shows, and the cut takes the frame of its crop or *)
(* the static place of the cell. Pixels are abstracted to where a stroke   *)
(* was found on each side of a cell, if at all.                            *)
(***************************************************************************)
EXTENDS Integers, Sequences, FiniteSets

CONSTANTS Width, Height, \* of the swapped sheet
          Pad,           \* ANCHOR_OUTER_PAD_PX
          MinBox,        \* MIN_BOX_PX
          MaxCrops,      \* MAX_CROPS
          Layouts,       \* sheets tried: sequences of expected cells
          Drifts         \* how far from its art edge the stroke of a side may be found

ASSUME SizesAssumption ==
  /\ Width \in Nat \ {0} /\ Height \in Nat \ {0} /\ Pad \in Nat /\ MinBox \in Nat \ {0}
  /\ MaxCrops \in Nat /\ Drifts \subseteq Int

Missing == -1 \* no line of the band is dark enough

Most(a, b) == IF a >= b THEN a ELSE b
Least(a, b) == IF a <= b THEN a ELSE b
Size(a) == IF a < 0 THEN -a ELSE a

Right(b) == b.x + b.w
Bottom(b) == b.y + b.h

Apart(a, b) ==
  Right(a) <= b.x \/ Right(b) <= a.x \/ Bottom(a) <= b.y \/ Bottom(b) <= a.y

-----------------------------------------------------------------------------
(* frame_finder                                                            *)

SameRows(a, b) == a.y < Bottom(b) /\ b.y < Bottom(a)
SameColumns(a, b) == a.x < Right(b) /\ b.x < Right(a)

\* A sheet as the composer lays it out: cells larger than the pad, none on another, and of two
\* that share neither rows nor columns one is a pad away at least.
Spaced(cells) ==
  /\ cells \in Seq([x : Nat, y : Nat, w : Nat, h : Nat])
  /\ \A i \in DOMAIN cells :
       /\ cells[i].w > Pad /\ cells[i].h > Pad
       /\ Right(cells[i]) <= Width /\ Bottom(cells[i]) <= Height
  /\ \A i, j \in DOMAIN cells : i # j =>
       /\ Apart(cells[i], cells[j])
       /\ \/ SameRows(cells[i], cells[j]) \/ SameColumns(cells[i], cells[j])
          \/ Right(cells[i]) + Pad <= cells[j].x \/ Right(cells[j]) + Pad <= cells[i].x
          \/ Bottom(cells[i]) + Pad <= cells[j].y \/ Bottom(cells[j]) + Pad <= cells[i].y

ASSUME LayoutsAssumption == \A cells \in Layouts : Spaced(cells)

\* The pad of a side, cut to the middle of the nearest gap.
Slack(gaps) ==
  CHOOSE m \in {Pad} \cup {g \div 2 : g \in gaps} :
    \A n \in {Pad} \cup {g \div 2 : g \in gaps} : m <= n

\* The neighbours of cell i on a side: in its rows (columns) and beyond its edge.
OnRight(i, cells) ==
  {j \in DOMAIN cells \ {i} : SameRows(cells[i], cells[j]) /\ cells[j].x >= Right(cells[i])}
OnLeft(i, cells) ==
  {j \in DOMAIN cells \ {i} : SameRows(cells[i], cells[j]) /\ Right(cells[j]) <= cells[i].x}
Under(i, cells) ==
  {j \in DOMAIN cells \ {i} : SameColumns(cells[i], cells[j]) /\ cells[j].y >= Bottom(cells[i])}
Over(i, cells) ==
  {j \in DOMAIN cells \ {i} : SameColumns(cells[i], cells[j]) /\ Bottom(cells[j]) <= cells[i].y}

\* _anchored_window
Window(i, cells) ==
  [x0 |->
     Most(0, cells[i].x - Slack({cells[i].x - Right(cells[j]) : j \in OnLeft(i, cells)})),
   y0 |->
     Most(0, cells[i].y - Slack({cells[i].y - Bottom(cells[j]) : j \in Over(i, cells)})),
   x1 |->
     Least(Width, Right(cells[i]) + Slack({cells[j].x - Right(cells[i]) : j \in OnRight(i, cells)})),
   y1 |->
     Least(Height, Bottom(cells[i]) + Slack({cells[j].y - Bottom(cells[i]) : j \in Under(i, cells)}))]

\* The depth of the band scanned for a stroke, on a side of a window of the given extent.
Band(extent) == Least(Most(12, (18 * extent) \div 100), extent \div 2)

\* What _inner_edge may return for the sides of a window: none, or a line of the band; the inner
\* edge of a stroke is strictly inside the window.
InBand(w, stroke) ==
  /\ stroke.left \in {Missing} \cup (w.x0 + 1) .. (w.x0 + Band(w.x1 - w.x0))
  /\ stroke.right \in {Missing} \cup (w.x1 - Band(w.x1 - w.x0)) .. (w.x1 - 1)
  /\ stroke.top \in {Missing} \cup (w.y0 + 1) .. (w.y0 + Band(w.y1 - w.y0))
  /\ stroke.bottom \in {Missing} \cup (w.y1 - Band(w.y1 - w.y0)) .. (w.y1 - 1)

Found(line, otherwise) == IF line = Missing THEN otherwise ELSE line

\* _inner_of_stroke gives up on a window or on what is left inside the strokes.
Degenerate(w, stroke) ==
  \/ w.x1 - w.x0 < 4 \/ w.y1 - w.y0 < 4
  \/ Found(stroke.right, w.x1) - Found(stroke.left, w.x0) < 2
  \/ Found(stroke.bottom, w.y1) - Found(stroke.top, w.y0) < 2

\* The frame of cell i: a side whose stroke is missing keeps the edge of the cell, and a frame that
\* is too small is the cell, as far as it is on the sheet.
Frame(i, cells, stroke) ==
  LET a == cells[i]
      x0 == Found(stroke.left, a.x)
      y0 == Found(stroke.top, a.y)
      w == Found(stroke.right, Right(a)) - x0
      h == Found(stroke.bottom, Bottom(a)) - y0
  IN IF Degenerate(Window(i, cells), stroke) \/ w < MinBox \/ h < MinBox
     THEN [a EXCEPT !.w = Most(1, Least(a.w, Width - a.x)),
                    !.h = Most(1, Least(a.h, Height - a.y))]
     ELSE [x |-> x0, y |-> y0, w |-> w, h |-> h]

Above(a, b) == a.y < b.y \/ (a.y = b.y /\ a.x < b.x)

\* The members of a finite set S sorted by a strict order R of them.
Listed(S, R) ==
  [n \in 1 .. Cardinality(S) |-> CHOOSE i \in S : Cardinality({j \in S : <<j, i>> \in R}) = n - 1]

\* detect_frames_anchored: row-major candidates, whose index is not the crop's.
RowMajor(frame) ==
  {p \in (DOMAIN frame) \X (DOMAIN frame) :
     \/ Above(frame[p[1]], frame[p[2]])
     \/ ~Above(frame[p[2]], frame[p[1]]) /\ p[1] < p[2]}
Frames(cells, strokes) ==
  LET frame == [i \in DOMAIN cells |-> Frame(i, cells, strokes[i])]
      order == Listed(DOMAIN cells, RowMajor(frame))
  IN [k \in DOMAIN cells |-> frame[order[k]]]

-----------------------------------------------------------------------------
(* The classification                                                      *)

\* Going through assignments, each frame and each number counts once.
TakeOnce(as, frames, numbers) ==
  LET taken[k \in 0 .. Len(as)] ==
        IF k = 0 THEN {}
        ELSE LET prev == taken[k - 1] IN
             IF /\ as[k].frame \in frames /\ as[k].number \in numbers
                /\ \A a \in prev : a.frame # as[k].frame /\ a.number # as[k].number
             THEN prev \cup {as[k]} ELSE prev
  IN taken[Len(as)]

\* The surer assignment first, the first told of equally sure ones.
Surest(as) ==
  {p \in (DOMAIN as) \X (DOMAIN as) :
     \/ as[p[1]].confidence > as[p[2]].confidence
     \/ as[p[1]].confidence = as[p[2]].confidence /\ p[1] < p[2]}

\* Mutant: the order of the answer decides, not its confidence.
DetectionsAsTold(as, frames, cells) == TakeOnce(as, DOMAIN frames, DOMAIN cells)

\* _map_assignments_to_detections: the surest assignment of a frame and of a number wins.
Detections(as, frames, cells) ==
  LET order == Listed(DOMAIN as, Surest(as))
  IN TakeOnce([k \in DOMAIN as |-> as[order[k]]], DOMAIN frames, DOMAIN cells)

\* The loose size gate of the positional fallback, _POSITIONAL_SIZE_TOL.
Alike(f, c) == 100 * Size(f.w - c.w) <= 35 * c.w /\ 100 * Size(f.h - c.h) <= 35 * c.h

\* Squared distance of the centers, on doubled coordinates.
Distance(f, c) ==
  LET dx == (2 * f.x + f.w) - (2 * c.x + c.w)
      dy == (2 * f.y + f.h) - (2 * c.y + c.h)
  IN dx * dx + dy * dy

\* positional_assign: greedy, the nearest pair of a frame and a cell of its size first.
Pairs(frames, cells) ==
  {p \in [frame : DOMAIN frames, number : DOMAIN cells] : Alike(frames[p.frame], cells[p.number])}
Nearest(frames, cells) ==
  LET far(p) == Distance(frames[p.frame], cells[p.number]) IN
  {pq \in Pairs(frames, cells) \X Pairs(frames, cells) :
     LET p == pq[1]  q == pq[2] IN
     \/ far(p) < far(q)
     \/ far(p) = far(q) /\ p.frame < q.frame
     \/ far(p) = far(q) /\ p.frame = q.frame /\ p.number < q.number}
Positional(frames, cells) ==
  TakeOnce(Listed(Pairs(frames, cells), Nearest(frames, cells)), DOMAIN frames, DOMAIN cells)

-----------------------------------------------------------------------------
(* The cut                                                                 *)

\* run_detect_crop_geometry: what the classifier assigns; by position when its call failed.
BoxesTold(cells, frames, answered, as) ==
  IF answered THEN Detections(as, frames, cells) ELSE Positional(frames, cells)

\* detect_boxes_for_cut: the frame of each crop that was told, none for a sheet over the cap. Here
\* number and index of a crop are the same.
BoxesForCut(cells, frames, answered, as) ==
  IF Len(cells) > MaxCrops THEN {} ELSE BoxesTold(cells, frames, answered, as)

\* cut_sheet_by_scaled_geometry: the told frame verbatim, else the static cell; clamped.
Piece(n, cells, frames, boxes) ==
  LET told == {a \in boxes : a.number = n}
      b == IF told = {} THEN cells[n] ELSE frames[(CHOOSE a \in told : TRUE).frame]
      x == Most(0, b.x)
      y == Most(0, b.y)
  IN [x |-> x, y |-> y,
      w |-> Least(Most(1, b.w), Most(1, Width - x)), h |-> Least(Most(1, b.h), Most(1, Height - y))]

-----------------------------------------------------------------------------
(* What the pieces show                                                    *)

\* The piece shows what is drawn at place p and nothing of what is drawn at another place.
Shows(piece, p, cells) == \A q \in DOMAIN cells : Apart(piece, cells[q]) <=> q # p

\* A stroke for each side of cell i: missing, or within a drift of the edge, if the band has it.
StrokesOf(i, cells) ==
  LET near(edge) == {Missing} \cup {edge + d : d \in Drifts} IN
  {s \in [left : near(cells[i].x), right : near(Right(cells[i])),
          top : near(cells[i].y), bottom : near(Bottom(cells[i]))] : InBand(Window(i, cells), s)}

Exact(i, cells) ==
  [left |-> Missing, right |-> Missing, top |-> Missing, bottom |-> Missing]

\* One cell's strokes vary, the others' are missing.
StrokesTried(cells) ==
  UNION {{[j \in DOMAIN cells |-> IF j = i THEN s ELSE Exact(j, cells)] :
            s \in StrokesOf(i, cells)} : i \in DOMAIN cells}
FramesTried(cells) == {Frames(cells, strokes) : strokes \in StrokesTried(cells)}

Orders(n) == {p \in [1 .. n -> 1 .. n] : \A i, j \in 1 .. n : p[i] = p[j] => i = j}

\* The crop each frame shows when the image model drew crop order[p] at place p.
Truth(frames, cells, order) ==
  [k \in DOMAIN frames |->
     [frame |-> k, confidence |-> 9,
      number |-> order[CHOOSE p \in DOMAIN cells : ~Apart(frames[k], cells[p])]]]

\* A wrong assignment the classifier is less sure of, perhaps of a frame or a crop there is not.
Lies(n) == {<<[frame |-> f, number |-> c, confidence |-> 5]>> : f \in 0 .. n, c \in 1 .. (n + 1)}

\* What a classifier may say that is right about every frame.
Replies(frames, cells, order) == {lie \o Truth(frames, cells, order) : lie \in Lies(Len(cells))}

Place(order, n) == CHOOSE p \in DOMAIN order : order[p] = n

\* However the image model moved the cells of a sheet, and wherever the strokes of a cell were
\* found: on a sheet within the cap a classifier that is right about every frame, whatever else it
\* says with less confidence, has each crop cut from where it was drawn; and when it fails, a crop
\* the static cut gets right is still right ("graceful, never-worse").
PiecesRight ==
  \A cells \in Layouts : \A frames \in FramesTried(cells) :
    LET positional == BoxesForCut(cells, frames, FALSE, << >>) IN
    \A order \in Orders(Len(cells)) :
      /\ Len(cells) <= MaxCrops =>
           \A as \in Replies(frames, cells, order) :
             LET told == BoxesForCut(cells, frames, TRUE, as) IN
             \A n \in DOMAIN cells :
               Shows(Piece(n, cells, frames, told), Place(order, n), cells)
      /\ \A n \in DOMAIN cells :
           Shows(Piece(n, cells, frames, {}), Place(order, n), cells) =>
             Shows(Piece(n, cells, frames, positional), Place(order, n), cells)
=============================================================================
