------------------------------ MODULE Comparison ------------------------------
(***************************************************************************)
(* analytics/comparison.py and the data of the charts that visualization.py*)
(* draws from it.  `names' is the sequence of the keys of a comparison's   *)
(* results in the order of the dict.                                       *)
(***************************************************************************)
EXTENDS Statistics, Sequences

\* Averages compared as fractions.
Less(avg1, avg2) == avg1[1] * avg2[2] < avg2[1] * avg1[2]

\* sorted(names, key = ...): equal keys keep the order of the dict.
Ranking(names, Before(_, _)) ==
  LET ahead(i, j) == \/ Before(names[i], names[j])
                     \/ ~Before(names[j], names[i]) /\ i < j
      place(j) == Cardinality({i \in DOMAIN names : i # j /\ ahead(i, j)}) + 1
  IN  [k \in DOMAIN names |-> names[CHOOSE j \in DOMAIN names : place(j) = k]]

AvgTotal(result) == PassengerStatistics(result).total_times.avg

MaxWait(result) == PassengerStatistics(result).wait_times.max_value

\* A fault: the averages are cut to whole ticks.
ByWholeTicks(names, results) ==
  LET ticks(n) == AvgTotal(results[n])[1] \div AvgTotal(results[n])[2]
      before(m, n) == ticks(m) < ticks(n)
  IN  Ranking(names, before)

ByEfficiency(names, results) ==
  LET before(m, n) == Less(AvgTotal(results[m]), AvgTotal(results[n]))
  IN  Ranking(names, before)

ByFairness(names, results) ==
  LET before(m, n) == MaxWait(results[m]) < MaxWait(results[n])
  IN  Ranking(names, before)

Best(ranking) == ranking[1]
Worst(ranking) == ranking[Len(ranking)]

\* The efficiency gap is given in percent of the best average, which is only
\* known to be positive if the worst is.
DividesByZero(names, results) ==
  LET ranking == ByEfficiency(names, results)
  IN  /\ Len(names) >= 2
      /\ AvgTotal(results[Worst(ranking)])[1] > 0
      /\ AvgTotal(results[Best(ranking)])[1] = 0

\* More than 10 percent, without the division.
EfficiencyGap(best, worst) ==
  Less(<<11 * best[1], 10 * best[2]>>, worst)

HeavyTail(stats) ==
  stats.total_times.p95 * stats.total_times.avg[2] > 2 * stats.total_times.avg[1]

\* What _generate_observations() reports, each with the names it mentions.
Observations(names, results) ==
  LET efficient == ByEfficiency(names, results)
      fair      == ByFairness(names, results)
  IN  IF Len(names) < 2 THEN {<<"ONLY_ONE">>}
      ELSE (IF EfficiencyGap(AvgTotal(results[Best(efficient)]),
                             AvgTotal(results[Worst(efficient)]))
            THEN {<<"EFFICIENCY_GAP", Worst(efficient), Best(efficient)>>} ELSE {})
        \cup (IF MaxWait(results[Best(fair)]) # MaxWait(results[Worst(fair)])
              THEN {<<"FAIRNESS_GAP", Best(fair), Worst(fair)>>} ELSE {})
        \cup (IF Best(efficient) # Best(fair)
              THEN {<<"TRADE_OFF", Best(efficient), Best(fair)>>}
              ELSE {<<"LEADS_ON_BOTH", Best(efficient)>>})
        \cup {<<"HEAVY_TAIL", n>> : n \in {m \in Range(names) :
                                              HeavyTail(PassengerStatistics(results[m]))}}

Analysis(names, results) ==
  [most_efficient |-> IF names = <<>> THEN "" ELSE Best(ByEfficiency(names, results)),
   most_fair      |-> IF names = <<>> THEN "" ELSE Best(ByFairness(names, results)),
   observations   |-> Observations(names, results)]

-----------------------------------------------------------------------------
(* visualization.py: the numbers in the charts *)

\* The box plots take everybody who has the time in question, the waits of
\* riders of an unfinished run included.
TimeDistributions(names, results) ==
  [n \in Range(names) |->
     [wait   |-> Values(results[n], Known(results[n]), WaitTime),
      travel |-> Values(results[n], Known(results[n]), TravelTime),
      total  |-> Values(results[n], Known(results[n]), TotalTime)]]

\* The scatter plot and the bars show the same two numbers.
EfficiencyAndFairness(names, results) ==
  [n \in Range(names) |-> <<AvgTotal(results[n]), MaxWait(results[n])>>]
=============================================================================
