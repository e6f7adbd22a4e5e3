----------------------------- MODULE MCDetectJob -----------------------------
EXTENDS DetectJob, PayloadBudget, DefectPost

\* The constant-level statements are looked at once, in one of the initial states.
Once == phase = "queued" /\ kind = "sprite" /\ \A s \in Sheets : stored[s] = "ready"

\* The payload guards on payloads of up to four images.
PayloadFits == Once => PayloadsRight

\* Five defects that differ in severity, confidence, category, object and box; two objects, one in
\* focus.
MCBox == <<100, 100, 300, 200>>
MCDefects ==
  { [box |-> MCBox, category |-> "ghost", severity |-> "high", confidence |-> 4, object |-> "a"],
    [box |-> MCBox, category |-> Absent, severity |-> "high", confidence |-> 12, object |-> "b"],
    [box |-> MCBox, category |-> "ghost", severity |-> Absent, confidence |-> Absent, object |-> Absent],
    [box |-> MCBox, category |-> "unknown", severity |-> "high", confidence |-> 9, object |-> "a"],
    [box |-> <<100, 100, 300, 100>>, category |-> "ghost", severity |-> "high", confidence |-> 9, object |-> "a"],
    [box |-> MCBox, category |-> "ghost", severity |-> "low", confidence |-> 0, object |-> "a"] }
MCLists == UNION {[1 .. n -> MCDefects] : n \in 0 .. 4}

\* Two cells side by side with no gutter on a sheet of 8 by 5 pixels.
MCCells == <<[x |-> 0, y |-> 0, w |-> 3, h |-> 5], [x |-> 3, y |-> 0, w |-> 5, h |-> 5]>>
MCEdges == {i * 25 : i \in 0 .. 40}

\* The list a detect core returns holds the worst defects, each placed in its own cell.
WorstAreKept ==
  Once =>
    /\ \A raw \in MCLists, focus \in {Absent, {}, {"a"}}, threshold \in {Absent, "medium"},
          most \in 1 .. 2 : WorstKept(raw, focus, threshold, most)
    /\ \A x1, x2 \in MCEdges, y1, y2 \in {0, 200, 500, 900, 1000} :
         CentreInOwnCell(<<y1, x1, y2, x2>>, MCCells, 8, 5)
=============================================================================
