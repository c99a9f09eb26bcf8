------------------------------ MODULE Statistics ------------------------------
(***************************************************************************)
(* analytics/statistics.py, and the same numbers as the other two places   *)
(* that compute them on their own: output_writer.py for the report of a    *)
(* run, commands.py for the table of a comparison.                         *)
(*                                                                         *)
(* A result is what run() returns: status and times of the passengers, the *)
(* number of the last tick, the position log.  A list of values is a       *)
(* function from the passengers it was taken from, since it is only        *)
(* summed, counted and sorted.  Averages are pairs <<sum, count>>, doubled *)
(* medians and squared deviations integers, so that no number is rounded.  *)
(***************************************************************************)
EXTENDS Integers, FiniteSets, FiniteSetsExt, Functions

NoTime == -1   \* None

-----------------------------------------------------------------------------
(* The times of a passenger *)

WaitTime(result, p) ==
  IF result.pickup_time[p] = NoTime THEN NoTime
  ELSE result.pickup_time[p] - result.request_time[p]

TravelTime(result, p) ==
  IF result.pickup_time[p] = NoTime \/ result.delivery_time[p] = NoTime THEN NoTime
  ELSE result.delivery_time[p] - result.pickup_time[p]

TotalTime(result, p) ==
  IF result.delivery_time[p] = NoTime THEN NoTime
  ELSE result.delivery_time[p] - result.request_time[p]

\* result.passengers: the passengers that were ever registered.
Known(result) == {p \in DOMAIN result.status : result.status[p] # "ABSENT"}

Values(result, S, Time(_, _)) ==
  [p \in {x \in S : Time(result, x) # NoTime} |-> Time(result, p)]

-----------------------------------------------------------------------------
(* TimeStats.from_values *)

\* sorted(values)[k]
AtSorted(values, k) ==
  CHOOSE v \in Range(values) :
    /\ Cardinality({p \in DOMAIN values : values[p] < v}) <= k
    /\ Cardinality({p \in DOMAIN values : values[p] <= v}) > k

Count(values) == Cardinality(DOMAIN values)

Total(values) == SumFunction(values)

\* A fault: the 90th percentile.
P90Index(n) == Min({(9 * n) \div 10, n - 1})

\* int(n * 0.95), at most the last.
P95Index(n) == Min({(19 * n) \div 20, n - 1})

TwiceMedian(values) ==
  LET n == Count(values)
  IN  IF n % 2 = 1 THEN 2 * AtSorted(values, n \div 2)
      ELSE AtSorted(values, n \div 2 - 1) + AtSorted(values, n \div 2)

\* Count squared times the variance.
Spread(values) ==
  Count(values) * SumFunction([p \in DOMAIN values |-> values[p] * values[p]])
    - Total(values) * Total(values)

NoStats == [min_value |-> 0, max_value |-> 0, avg |-> <<0, 1>>,
            twice_median |-> 0, p95 |-> 0, spread |-> 0, count |-> 0]

TimeStats(values) ==
  IF Count(values) = 0 THEN NoStats
  ELSE [min_value    |-> AtSorted(values, 0),
        max_value    |-> AtSorted(values, Count(values) - 1),
        avg          |-> <<Total(values), Count(values)>>,
        twice_median |-> TwiceMedian(values),
        p95          |-> AtSorted(values, P95Index(Count(values))),
        spread       |-> Spread(values),
        count        |-> Count(values)]

-----------------------------------------------------------------------------
(* PassengerStatistics.from_passengers *)

Delivered(result) == {p \in Known(result) : result.status[p] = "DELIVERED"}

PassengerStatistics(result) ==
  [total_passengers     |-> Cardinality(Known(result)),
   delivered_passengers |-> Cardinality(Delivered(result)),
   wait_times   |-> TimeStats(Values(result, Delivered(result), WaitTime)),
   travel_times |-> TimeStats(Values(result, Delivered(result), TravelTime)),
   total_times  |-> TimeStats(Values(result, Delivered(result), TotalTime))]
=============================================================================
