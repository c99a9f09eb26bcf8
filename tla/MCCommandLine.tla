----------------------------- MODULE MCCommandLine -----------------------------
(***************************************************************************)
(* Small instances of the command line for TLC.                            *)
(***************************************************************************)
EXTENDS CommandProps

\* Requests as the CSV rows have them: time, id, source, dest.
Row(t, id, s, d) ==
  [request_time |-> t, passenger_id |-> id, source |-> s, dest |-> d]

Ids == <<"p1", "p2", "p3", "p4", "p5", "p6", "p7", "p8", "p9", "p10", "p11",
         "p12", "p13", "p14", "p15", "p16", "p17", "p18", "p19", "p20", "p21">>

\* A list of <<time, source, dest>>.
List(trips) ==
  [i \in DOMAIN trips |-> Row(trips[i][1], Ids[i], trips[i][2], trips[i][3])]

Trips(times, floors) ==
  {trip \in times \X floors \X floors : trip[2] # trip[3]}

\* Every list of n requests, ordered by time as the parser leaves it.
Lists(n, times, floors) ==
  {List(f) : f \in {g \in [1..n -> Trips(times, floors)] :
                      \A i, j \in 1..n : i < j => g[i][1] <= g[j][1]}}

FullService == <<>>

Shipped == {"nearest_car", "round_robin", "zone_based"}

Short == UNION {Lists(n, {0, 3}, {1, 3, 5}) : n \in 0..2}

Zoned == Short \cup Lists(3, {0}, {1, 3, 5})

Line(name, strategies, output_dir, parsed) ==
  [name |-> name, strategies |-> strategies, output_dir |-> output_dir, parsed |-> parsed]

\* Twenty-one passengers: the shortest list whose P95 is not its maximum.
RushHour ==
  List(<<<<1, 4, 6>>, <<1, 1, 6>>, <<7, 6, 3>>, <<8, 5, 1>>, <<11, 6, 3>>,
         <<13, 1, 4>>, <<16, 1, 4>>, <<17, 6, 2>>, <<22, 2, 6>>, <<24, 6, 2>>,
         <<26, 5, 1>>, <<27, 6, 1>>, <<28, 4, 6>>, <<29, 3, 1>>, <<31, 5, 2>>,
         <<32, 4, 5>>, <<33, 2, 4>>, <<37, 1, 3>>, <<38, 1, 4>>, <<41, 5, 1>>,
         <<42, 2, 3>>>>)

\* Everybody from the top to the bottom: nearest_car and zone_based give most
\* of them to one car and do not finish within the bound of the loop.
Overload == List([i \in 1..6 |-> <<IF i = 1 THEN 0 ELSE 1, 6, 1>>])

\* Five who do not wait, or hardly, and under round_robin one who does.
OneLongWait ==
  List(<<<<0, 1, 3>>, <<7, 3, 1>>, <<10, 3, 1>>, <<12, 1, 3>>, <<12, 1, 3>>, <<24, 3, 1>>>>)

\* The best average is 5 ticks, the others are 5 and a third.
CloseAverages == List(<<<<0, 1, 3>>, <<0, 3, 1>>, <<0, 5, 1>>>>)

Special == {RushHour, Overload, OneLongWait, CloseAverages}

Single == Lists(1, {0}, {1, 3, 5})

ShippedCommands ==
  {Line("compare", Available, TRUE, list) : list \in Zoned \cup Special}
    \cup {Line("visualize", Available, TRUE, list) : list \in Short \cup Special}
    \cup {Line("compare", <<"round_robin", "zone_based", "round_robin">>, FALSE, list) :
            list \in Single \cup Special}
    \cup {Line("run", <<name>>, to_file, list) :
            name \in Shipped, to_file \in BOOLEAN, list \in Single \cup {Overload}}
    \cup {Line("run", <<"fastest">>, TRUE, list) : list \in Single}
    \cup {Line("compare", <<"nearest_car", "fastest">>, TRUE, list) : list \in Single}

ParsedLists == {c.parsed : c \in ShippedCommands}

-----------------------------------------------------------------------------
(* The strategy the settings accept and nobody implements *)

StrategyAll == {Line("run", <<"all">>, FALSE, list) : list \in Single}

SingleLists == Single
=============================================================================
