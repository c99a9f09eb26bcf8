----------------------------- MODULE CommandProps -----------------------------
(***************************************************************************)
(* What must be true of an execution of the program.                       *)
(***************************************************************************)
EXTENDS CommandLine

-----------------------------------------------------------------------------
(* The comparison loop *)

\* Every strategy meets the same building with nothing left over from those
\* before it: a name that is given again, later in the list, gives the very
\* same result, events included (engine/runner.py: "Run the same request set
\* through multiple strategies").
RerunChangesNothing ==
  [][\A n \in Range(names) : results'[n] = results[n]]_allVars

\* Settings that were accepted are enough for run to find its strategy
\* ("Validates all parameters before they reach the domain", config.py:4).
AcceptedStrategyExists ==
  step = "UNKNOWN_STRATEGY" => command.name # "run"

-----------------------------------------------------------------------------
(* The numbers *)

DeliveredPassengers(result) ==
  {p \in DOMAIN result.status : result.status[p] = "DELIVERED"}

\* The numbers of `stats' describe the times of the passengers in S, by what
\* they mean and not by how they are computed: the extremes are reached, half
\* of the times lie on either side of the median, and P95 separates the
\* fastest 95 percent from the slowest 5.
Describes(stats, S, Time(_)) ==
  LET n == Cardinality(S)
      share(Holds(_)) == Cardinality({p \in S : Holds(Time(p))})
  IN  /\ stats.count = n
      /\ \A p \in S : stats.min_value <= Time(p) /\ Time(p) <= stats.max_value
      /\ {stats.min_value, stats.max_value, stats.p95} \subseteq {Time(p) : p \in S}
      /\ 2 * share(LAMBDA t : 2 * t <= stats.twice_median) >= n
      /\ 2 * share(LAMBDA t : 2 * t >= stats.twice_median) >= n
      /\ 100 * share(LAMBDA t : t <= stats.p95) >= 95 * n
      /\ 100 * share(LAMBDA t : t < stats.p95) <= 95 * n

StatisticsMeanWhatTheySay ==
  step = "DONE" =>
    \A n \in Range(names) :
      LET result == results[n]
          stats  == PassengerStatistics(result)
          S      == DeliveredPassengers(result)
      IN  S # {} =>
            /\ Describes(stats.wait_times, S,
                         LAMBDA p : result.pickup_time[p] - result.request_time[p])
            /\ Describes(stats.travel_times, S,
                         LAMBDA p : result.delivery_time[p] - result.pickup_time[p])
            /\ Describes(stats.total_times, S,
                         LAMBDA p : result.delivery_time[p] - result.request_time[p])

AllDelivered(result) == \A p \in DOMAIN result.status : result.status[p] = "DELIVERED"

-----------------------------------------------------------------------------
(* The outputs *)

\* visualize has a default directory.
HasDirectory == command.name = "visualize" \/ command.output_dir

\* What a command leaves in its directory, however it ends: the first so many of
\* its files, whole and computed from one and the same set of results; a file
\* that is not whole only after a write error, and only the one that was next;
\* nothing before all strategies have run, and if it reports success all of it.
OutputsInOrder ==
  \E k \in 0..Len(Outputs) :
    /\ DOMAIN files = {Outputs[i] : i \in 1..k}
    /\ \A key \in DOMAIN files : files[key] = Content(key)
    /\ k > 0 => remaining = <<>> /\ step \in {"WRITE", "DONE", "WRITE_ERROR"}
    /\ torn # {} => step = "WRITE_ERROR" /\ k < Len(Outputs) /\ torn = {Outputs[k + 1]}
    /\ step = "DONE" => k = IF HasDirectory THEN Len(Outputs) ELSE 0

\* compare writes the same run in three files, from three computations: the
\* summary has no line that the report of the strategy does not bear out, and
\* both fit the position log.  Waiting and travelling make up the total.
ReportsAgree ==
  LET summary == <<"comparison_summary">>
  IN  summary \in DOMAIN files =>
        \A n \in Range(names) :
          LET row    == files[summary][n]
              report == files[<<"statistics", n>>]
              log    == files[<<"positions", n>>]
          IN  \/ row = NotAvailable /\ report = NoReport
              \/ /\ row.ticks = report.ticks
                 /\ row.avg_wait = report.wait.avg /\ row.max_wait = report.wait.max
                 /\ row.avg_total = report.total.avg /\ row.max_total = report.total.max
                 /\ row.p95_total = report.total.p95
                 /\ report.wait.avg[1] + report.travel.avg[1] = report.total.avg[1]
                 /\ row.max_total < Len(log)
                 /\ row.ticks = IF AllDelivered(results[n]) /\ log[Len(log)][1] = row.ticks
                                THEN Len(log) - 1 ELSE Len(log)

\* The scatter plot, the box plots and the analysis of visualize are computed
\* apart from each other.  Where nobody was left behind the boxes show the
\* worst wait of the scatter plot; nobody in the plot is better than the named
\* leader of an axis; and where a trade-off is announced no strategy is ahead
\* of all the others on both axes (analytics/comparison.py:122-127).
ChartsAgree ==
  <<"analysis">> \in DOMAIN files =>
    LET boxes    == files[<<"time_distributions">>]
        points   == files[<<"efficiency_vs_fairness">>]
        analysis == files[<<"analysis">>]
        faster(m, n) == Less(points[m][1], points[n][1])
        fairer(m, n) == points[m][2] < points[n][2]
        leads(m) == \A n \in Range(names) \ {m} : faster(m, n) /\ fairer(m, n)
    IN  /\ \A n \in Range(names) :
             /\ ~faster(n, analysis.most_efficient)
             /\ ~fairer(n, analysis.most_fair)
             /\ results[n].status # <<>> /\ AllDelivered(results[n]) =>
                  Max(Range(boxes[n].wait)) = points[n][2]
        /\ (\E note \in analysis.observations : note[1] = "TRADE_OFF")
             => \A m \in Range(names) : ~leads(m)

\* If a strategy delivers anybody at all, every strategy delivers somebody, and
\* the efficiency gap can be given in percent of the best average
\* (analytics/comparison.py:102-106).
NoDivisionByZero == step # "ZERO_DIVISION"

-----------------------------------------------------------------------------
(* Liveness *)

\* Every command comes to an end, whatever happens to its input and output.
CommandEnds == <>(step \in Over)
=============================================================================
