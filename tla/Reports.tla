-------------------------------- MODULE Reports --------------------------------
(***************************************************************************)
(* What is printed and written about results: the report and the position  *)
(* log of infrastructure/output_writer.py and the table of                 *)
(* cli/commands.py.  A text is the record of the numbers it shows.         *)
(***************************************************************************)
EXTENDS Statistics, Sequences

\* [p for p in result.passengers if p.total_time is not None]
Reported(result) == {p \in Known(result) : TotalTime(result, p) # NoTime}

-----------------------------------------------------------------------------
(* output_writer.py *)

\* One row for each tick, led by the tick the engine noted for it.
PositionLog(result) ==
  [row \in DOMAIN result.position_rows |-> <<row - 1, result.position_rows[row]>>]

\* A fault: the report has its own idea of P95.
FormatStatsAtP90(values) ==
  [min |-> AtSorted(values, 0),
   max |-> AtSorted(values, Count(values) - 1),
   avg |-> <<Total(values), Count(values)>>,
   twice_median |-> TwiceMedian(values),
   p95 |-> AtSorted(values, P90Index(Count(values))),
   spread |-> Spread(values)]

FormatStats(values) ==
  [min |-> AtSorted(values, 0),
   max |-> AtSorted(values, Count(values) - 1),
   avg |-> <<Total(values), Count(values)>>,
   twice_median |-> TwiceMedian(values),
   p95 |-> AtSorted(values, P95Index(Count(values))),
   spread |-> Spread(values)]

\* max_wait / avg_wait against a multiple, without the division.
ExceedsAverage(values, multiple) ==
  Max(Range(values)) * Count(values) > multiple * Total(values)

Remarks(wait, travel) ==
  LET found ==
        {kind \in {"MOSTLY_NO_WAIT", "HIGH_DISPARITY", "MORE_WAIT_THAN_TRAVEL"} :
           CASE kind = "MOSTLY_NO_WAIT" ->
                  2 * Cardinality({p \in DOMAIN wait : wait[p] = 0}) > Count(wait)
             [] kind = "HIGH_DISPARITY" -> Total(wait) > 0 /\ ExceedsAverage(wait, 3)
             [] kind = "MORE_WAIT_THAN_TRAVEL" -> Total(wait) > Total(travel)}
  IN  IF found = {} THEN {"NORMAL"} ELSE found

NoReport == [served |-> 0]

FormatStatistics(result) ==
  LET wait   == Values(result, Reported(result), WaitTime)
      travel == Values(result, Reported(result), TravelTime)
      total  == Values(result, Reported(result), TotalTime)
  IN  IF Reported(result) = {} THEN NoReport
      ELSE [served |-> Cardinality(Reported(result)), ticks |-> result.total_ticks,
            wait |-> FormatStats(wait), travel |-> FormatStats(travel),
            total |-> FormatStats(total), remarks |-> Remarks(wait, travel)]

-----------------------------------------------------------------------------
(* commands.py: one line of the comparison table *)

NotAvailable == [served |-> 0]

TableRow(result) ==
  LET wait  == Values(result, Reported(result), WaitTime)
      total == Values(result, Reported(result), TotalTime)
  IN  IF Reported(result) = {} THEN NotAvailable
      ELSE [ticks |-> result.total_ticks,
            avg_wait  |-> <<Total(wait), Count(wait)>>,
            max_wait  |-> Max(Range(wait)),
            avg_total |-> <<Total(total), Count(total)>>,
            max_total |-> Max(Range(total)),
            p95_total |-> AtSorted(total, P95Index(Count(total)))]
=============================================================================
