------------------------------ MODULE MCCsvParser ------------------------------
(***************************************************************************)
(* Small files for TLC: up to three rows out of a dozen.  Where a          *)
(* rejection lists two errors, three bad rows are more than it lists.      *)
(***************************************************************************)
EXTENDS CsvParser

Numbers(t, id, s, d) ==
  [reads |-> "numbers", time |-> t, id |-> id, source |-> s, dest |-> d]

\* Good rows of two passengers; floors and times just outside; no trip at
\* all; a cell that is no number.
ReadableRows ==
  {Numbers(t, id, 1, 3) : t \in 0..1, id \in {"p1", "p2", "p3"}}
    \cup {Numbers(-1, "p1", 1, 2), Numbers(0, "p1", 0, 2), Numbers(0, "p2", 1, 4),
          Numbers(0, "p1", 2, 2), [Numbers(0, "p2", 1, 2) EXCEPT !.reads = "text"]}

ShortRow == [Numbers(0, "p1", 1, 2) EXCEPT !.reads = "short"]

SmallFiles == UNION {[1..n -> ReadableRows \cup {ShortRow}] : n \in 0..3}
=============================================================================
