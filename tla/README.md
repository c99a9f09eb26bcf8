# elevatorSim: specification, model checking and proofs

This directory specifies the elevator simulator in `src/` in TLA+, checks it on
small instances with TLC, and proves its main safety properties for every
building, fleet, service policy and workload with TLAPS. Paths below are
relative to `src/src/elevator_sim/` unless they start with `src/`.

## 1. The system

The program reads a CSV file of passenger requests and simulates a bank of
elevators in discrete ticks under one of several dispatch strategies, or under
all of them in turn, and reports, tabulates or charts the times it took.

| Part | State | Operations | Modelled in |
|---|---|---|---|
| Elevator aggregate (`domain/model.py`) | floor, direction (also the FSM state), riders, assigned requests, policy | `snapshot`, `dropoff`, `pickup`, `move` (SCAN) | `Elevator` |
| Passenger (`domain/model.py`) | status, car, three times | `assign`, `pick_up`, `deliver`, each guarded | `PassengerLifecycle` (abstract), `Simulation` |
| Service policy (`domain/model.py`) | served floors | `serves`, `can_serve_request` | `Simulation` |
| Strategies (`domain/strategies.py`) | round robin's `_next_index` | `select_elevator` | `Strategies` |
| Engine (`engine/simulation.py`) | cars, passenger registry, tick, position log, events | `initialize`, `run` = validation and six phases a tick | `Simulation` |
| Invariants (`domain/invariants.py`) | none | run-time checks | `ValidRequest`; others are properties; for `bounded_wait_disparity` see section 7 |
| CSV parser (`infrastructure/csv_parser.py`) | rows read, ids seen, errors, the message of a rejection | `parse_csv` | `CsvParser` |
| Events (`domain/events.py`) | the engine's list of them | six kinds, appended in the phases | `EventLog` |
| Runner (`engine/runner.py`) | results by strategy name | `run_comparison` | `CommandLine` |
| Statistics (`analytics/statistics.py`) | none | `from_values`, `from_passengers` | `Statistics` |
| Comparison, charts (`analytics/`) | none | rankings, observations, the data of four charts | `Comparison` |
| Output writer (`infrastructure/output_writer.py`) | files | position log, report with remarks | `Reports` |
| CLI, configuration (`cli/commands.py`, `config.py`) | settings, files written | `run`, `compare`, `visualize` | `CommandLine` |
| Logging (`infrastructure/logging.py`) | none | set-up of structlog | not modelled, see section 7 |

**Interactions.** The parser hands a list of requests to the engine, which
validates them once more. Each tick runs INGEST, DISPATCH, DROPOFF, PICKUP,
MOVE, RECORD over all cars. Dispatch filters the cars by policy, shows
snapshots of them to the injected strategy and records its answer twice: in the
passenger and in the car. Dropoff and pickup change both records again; move
looks only at the car. The loop ends when as many passengers are registered as
there were requests and all are delivered, or at the bound `max_ticks`.
A command builds its settings, loads the file, makes a new strategy and a new
engine for each name, collects the results, and then computes from them, in
three places that do not know of each other, the numbers it prints and writes.

**What is hard.** Nothing runs in parallel, so the difficulties are those of a
sequential reactive program:

* two records of one fact (status of the passenger, lists of the car) updated
  in different places and never compared;
* decisions on state that the rest of the tick makes stale: dispatch sees the
  load from before dropoff, a full car ignores its pickups;
* capacity is ignored on assignment, so several passengers assigned to one car
  compete for its seats over several visits;
* the SCAN order under a stream of new assignments: how far may a detour go;
* run-time checks that come too late to see what they check
  (`service_policy_respected` after the boarded have left the pickup list);
* the end of the run: repeated ids, requests no car may serve, empty lists,
  lulls, and a bound computed from an assumption about the spreading of load;
* an error path per CSV row, with state (`seen_ids`) that later rows depend on;
* what strategies and engines remember, when several runs share a process;
* two logs that nothing reads during a run, and one number computed three times;
* small lists: one entry, ties, the index of a percentile, an average of 0;
* traffic that never ends, of which the program only ever sees the beginning.

`PROJECT.json` lists these hazards at their lines with the properties that
cover each.

## 2. The modules

| Module | What it is |
|---|---|
| `Lists` | lists that are kept as sets with an order, and the filter of a list comprehension |
| `Elevator` | the car as a record, its methods as pure operators |
| `Strategies` | the strategies as functions from the fleet to the set of cars that may be chosen |
| `Simulation` | the engine: one `run()`, one action per phase, one per passenger in the dispatch loop |
| `SimulationProps` | its properties, the inductive invariant `IInv`, the refinement mapping |
| `PassengerLifecycle` | what the engine promises a passenger, with no floors, time or strategy |
| `SingleCar` | what the engine promises a car: one elevator, with its request list, under calls that never end |
| `OpenBuilding` | `SingleCar` with its callers, its fairness, and the starvation properties |
| `Fleet` | the refinement mapping from the engine to one `SingleCar` for each of its cars |
| `EventLog` | the engine again, each action with the events and rows it appends; the replay of the events |
| `Statistics`, `Reports`, `Comparison` | the numbers computed from results, as pure operators |
| `CommandLine` | one execution of the program around the engine of `EventLog` |
| `CommandProps` | what must be true of an execution |
| `CsvParser` | `parse_csv()`, one action per outcome of a row, with its properties |
| `MCSimulation`, `MCOpenBuilding`, `MCCommandLine`, `MCCsvParser` | the instances for TLC |
| `OperatorProofs` | lemmas about the operators, none about a state: the car's methods, listings and orders, concatenations, sums, order statistics, rankings |
| `SimulationProofs` | proofs about the engine: consistency of its records, movement, rides |
| `PassengerProofs` | proofs about its passengers: times, waits, the registry, the end of a run and its bound, the rotation of round robin; `IInv` |
| `RefinementProofs` | the engine implements `PassengerLifecycle`, and each of its cars a `SingleCar` |
| `SingleCarProofs` | proofs about the single car under calls that never end |
| `LogProofs` | proofs about the two logs and the replay of the events |
| `CommandProofs` | proofs about whole executions: every run of a command, the collected results, the files |
| `CsvParserProofs` | proofs about the parser |

By EXTENDS: `Elevator <- Strategies <- Simulation <- SimulationProps <- Fleet <-
MCSimulation`, and `Simulation <- EventLog`, `Statistics <- Reports` and
`Statistics <- Comparison`, which `CommandLine <- CommandProps <- MCCommandLine`
bring together. `SimulationProps` instantiates `PassengerLifecycle`, `Fleet`
instantiates `SingleCar` once per car; `CsvParser` extends `Elevator` for the
requests and `ValidRequest`, which is how the contract between parser and
engine is stated. `CommandLine` takes the list the parser returns as its input.
The proofs form the chain `OperatorProofs <- SimulationProofs <- PassengerProofs <-
LogProofs <- CommandProofs`. `RefinementProofs` also extends `PassengerProofs`, and
`SingleCarProofs` extends `OperatorProofs` beside the chain.

### How the state corresponds to the code

* A passenger is named by the position of its request in the list given to
  `run()`. Its id is a field of the request, so two requests may share one.
  `status[p] = "ABSENT"` until `self.passengers` has an entry made from it.
* The dict `self.passengers` is ordered by insertion, that is by request time
  and then list position (`sorted` is stable): `Earlier`. The dispatch loop
  takes the waiting passengers in that order (`IsNext`).
* `Elevator.passengers` and `Elevator.assigned_requests` are sets. Dropoff only
  filters the former. The order of the latter, which decides who boards, is
  that of appending: by assignment time and then `Earlier` (`InLineBefore`), as
  removals keep the order.
* `phase` is where `run()` stands in the tick, or how it ended. DROPOFF, PICKUP
  and MOVE treat all cars in one action: the cars share nothing there, so the
  order of the inner loops cannot be seen.
* `Record` is the rest of the loop body: it appends to the log, tests for
  termination, counts the tick and tests the loop condition.
* `position_log` is represented by its number of rows and its last row.
* `Score` is the code's score times the capacity, so that `load / capacity`
  stays an integer. Where the ratio is exact in binary (`ExactScores`: the
  capacity is a power of two) ties go to the lowest id, as in the code. Elsewhere
  rounding may break a tie, and the model lets any of the tied cars be chosen. It
  happens with the default settings: for a call from floor 20, an IDLE car there
  with load 11 scores 55.00000000000001 and one on floor 15 with load 10 scores
  55, so the tie goes to the second, whatever its id.
* An IDLE car with a target on each side at the same distance takes whichever
  the Python set yields first: the model allows both.
* `StrategyNames` has two more members, `any` and `any_or_error`. They are the
  `DispatchStrategy` protocol: any eligible car, and for the second a
  `DispatchError` whenever it likes. What is checked or proved for them holds of
  any strategy one could inject that chooses among the cars it was shown.
* `EventLog` conjoins to every action of `Simulation` what it appends to
  `events` and, in full, to `position_rows`. The order within a phase is car by
  car and, for one car, that of its lists: riders by time of boarding, those
  waiting by time of assignment.
* `SingleCar` keeps `assigned_requests` as the sequence it is and walks through
  it as `pickup()` does. `Fleet` recovers the sequence for each car of the
  engine (`LineOf`), so that its refinement is what justifies the sets. The list
  comprehensions of `pickup()` are `Among`: what the library's `SelectSeq` does,
  as a recursive function, which the prover can reason about.
* In `CommandLine` `step` is where the command stands or how it ended. `Simulate`
  takes one step of the engine; `FreshEngine` and `GetStrategy` are the
  constructors. `results`, `names` stand for the dict and its order of keys,
  `files` for what was written completely into the directory. Loading may fail,
  and so may every write: `write_text` and `savefig` empty the file when they open
  it, so a failing write may leave any part of it (`torn`), or have opened nothing.
* Numbers are kept exact: an average is a pair <<sum, count>>, a median is
  doubled, a deviation is squared. A text is the record of the numbers in it.
* Left out: log messages, run ids, layout.
* In `CsvParser` a row is its four cells with a field `reads`: whether they are
  numbers, whether one cannot be converted (or the column is missing), or
  whether the row is shorter than the header. `bounded` says whether
  `num_floors` is given. `errors` is the list, each entry as the row it is about;
  `message` is what a rejection makes of it: how many there are, the first
  `ErrorsShown` (10 in the code), how many are left out.

Operators introduced by the comment "A fault:" are plausible mistakes; no action
uses them. `PROJECT.json` pairs each property with one it detects.

## 3. The runs

| Run | Instance | Shows |
|---|---|---|
| `any_dispatch` | 3 floors, 2 cars of 1 seat, strategy `any`, all lists of up to 3 trips at times 0 and 1 | types, `Bookkeeping`, `CapacityRespected`, `NothingLeftToDoHere`, `IdleIsDone`, `PositionLogContinuous`, that the engine implements `PassengerLifecycle`, and that each of its cars implements `SingleCar` (`ImplementsSingleCars`) |
| `shared_car` | 5 floors, 1 car of 2 seats, all lists of 3 trips between floors 1, 2 and 5, and a scenario of the tests | `IInv`, `RideBound`, `WaitBound`, `FirstAssignedFirstServed`; the times the end-to-end test computes by hand (`HandTraceAgrees`) |
| `express` | 3 floors, cars serving {1,2} and {1,3}, the shipped strategies and `any_or_error`, trips for one, both or no car, repeated ids, the four kinds of invalid request, the empty list | `OnePassengerPerId`, `PolicyRespected`, `TimesOrdered`, `StopsAtServedFloors`, `NobodyOverlooked`; the lifecycle again, where assignments are tried and tried again (`ImplementsLifecycle`); `Termination` under fairness |
| `shipped` | 6 floors (3 zones of 2), 2 cars of 1 seat, the shipped strategies; `run`, `compare` and `visualize` with and without files, with unknown and repeated names, over all lists of up to 2 (compare: 3) trips between floors 1, 3 and 5 and four longer lists | of the engine: `EvenDistribution`, `EnoughTicks`, `RoundRobinInTime`, `StopsWhenDone`; of its logs: `ReplayAgrees`, `LogsAgree`; of the runner: `RerunChangesNothing`; of the numbers: `StatisticsMeanWhatTheySay`, `ReportsAgree`, `ChartsAgree`, `NoDivisionByZero`; of the files, also after a failed write: `OutputsInOrder`; and `CommandEnds` under fairness |
| `open_car` | 4 floors, 1 car of 2 seats, 3 people, all trips, for ever | `RidersGetOut`, `OnlyAFullCarStarves`, `LeftAloneItFinishes`, and that list and set of the car agree (`TypeOK`) |
| `csv_file` | all files of up to 3 rows out of 12, with and without `num_floors` = 3, two errors listed by a rejection | `AccountsForEveryDefect`, `EngineTakesIt`, `NothingLostInSorting` |

**Why these bounds are enough to be interesting.** Three floors are the fewest
with a floor to pass and with a stop on either side of a car; five let a ride
be extended by a full reversal. One seat and three passengers on two cars force
a car to be full with pickups outstanding, so passengers are left behind and
visited again; two seats with three passengers exercise boarding in part. Times
0 and 1 (0 and 3 in `shipped`, where a short ride ends in between) give
simultaneous requests, requests that come while cars move, and a tick between
requests. The longer lists of `shipped` are there for one case each: `RushHour`
has 21 passengers, the fewest whose P95 is not the maximum; `Overload` runs
into the bound, so that reports and charts meet passengers who never arrived;
`OneLongWait` has a wait of more than three times the average, which is remarked
on; `CloseAverages` has averages that differ by less than a tick. In `open_car` three people and two seats are the fewest
with a full car that passes somebody, and four floors leave two to wait on
between the ends. The number of ticks is bounded by the code's own `max_ticks`,
in `open_car` by nothing; no other bound is added, and the state spaces are
explored completely. The lists of `express` make `run()` end in every way it can:
by completion, by rejecting a request, and at its bound because of a request no
car may serve, a repeated id, or nobody coming at all. Three CSV rows are enough
for a row to depend on a rejected earlier one with another in between, and for
more errors than the two a rejection lists there.

**Fairness.** The program is one thread, so nothing is assumed but that it takes
its next step. `FairSpec` adds `WF_vars(Next)` to the engine (`express`). `FairCommandSpec`
says the same of a command, with the ENABLED of `WF_ProgramCounter(CommandNext)`
written out, as computing it for a whole command is slow: either the process has
exited or it goes on; `ProgramCounter` changes with every step, those
of the loops over passengers and files included. `OpenBuilding` is fair to the
four phases of the tick and not to `Call`: nobody has to call, and nothing keeps
people from calling for ever within one DISPATCH except that there are finitely
many of them. No fairness is assumed of a single outcome (which file fails,
whom the strategy picks). Steps `Terminated` and `Exited` stand for the returned
program, so that TLC's check for deadlock stays on in every run.

**Starvation.** `src/docs/DEMO.md:219` says SCAN prevents it, and
`src/README.md:114` says a passenger may starve under endless load. `open_car`
shows where both are right: riders always get out (`RidersGetOut`); who waits is
taken unless the car keeps leaving floors full (`OnlyAFullCarStarves`), since a
full car has no pickups for targets; and even after starving somebody for any
length of time it delivers everybody once the calls stop
(`LeftAloneItFinishes`). `ImplementsSingleCars` says that this is about the cars
of the engine.

### Runs that disagree with a document

| Run | Finding |
|---|---|
| `bound_too_small` | `max_ticks` (`engine/simulation.py:153`), commented "enough ticks for worst case", assumes the load is spread over the fleet. Under `zone_based` the first of eight passengers who all start upstairs gets the car of their zone; with it going down full the zone has no car, and the nearest-car fallback gives the other seven to the car downstairs. The run is cut with the last one on board since tick 40. The default `nearest_car` does it with six (list `Overload` of `MCCommandLine`). What does hold, checked in `shipped` and proved: if no car gets more passengers than the batches the bound is computed from leave it, everybody is delivered in time (`EnoughTicks`). |
| `duplicate_id` | A request skipped for its repeated id still counts in `len(sorted_requests)`, so the run goes to its bound although everybody is delivered (`:184-185`). `parse_csv` rejects such files; other callers of `run()` are not protected. |
| `express_passes_by` | `domain/invariants.py:11` and ADR-009 line 29 say a car is never at a floor outside its policy; the code, and `invariants.py:54`, let it pass through. What does hold, checked in `express` and proved, is that it never stops there. |
| `uneven_rotation` | Round robin "guarantees even load distribution" (`domain/strategies.py:33`), but its index is reduced modulo the number of cars eligible for the current request: with policies, trips all cars serve can all go to one car. With full service the rotation is even (`shipped`). |
| `strategy_all` | `run --strategy all` passes `validate_strategy` (`config.py:36`), whose message offers `all` and whose module promises to validate "all parameters before they reach the domain" (`config.py:4`); `get_strategy` then raises a `ValueError` nobody catches. |
| `csv_short_row` | A row with too few cells makes the conversion raise `TypeError` or `AttributeError`; `parse_csv` catches neither (`infrastructure/csv_parser.py:82`) although it documents `InvalidRequestError`. |

Met on the way, with no run of their own:

* `src/docs/ARCHITECTURE.md:138` gives another formula for the bound than the
  code; line 94 has `analyze_comparison` run in compare mode, but only
  `visualize` calls it; `all_passengers_delivered` is documented as called after
  a simulation and the engine never calls it.
* "No strategy dominates both axes" (`analytics/comparison.py:126`) is printed
  whenever the two leaders have different names. With ties one strategy may be
  best on both: 6 floors, 2 cars of 1 seat, requests (0, 5 to 1), (0, 1 to 5),
  (0, 1 to 3). `ChartsAgree` therefore asks only that no strategy be strictly
  ahead on both.
* The box plots of an unfinished run count the waits of riders on board; the
  scatter plot beside them does not.
* An unknown name given to `compare` is found when its turn comes; the
  simulations before it are lost. The same goes for a missing matplotlib: the
  guard at `cli/commands.py:183` cannot fire, as `visualization.py` imports it
  only inside `generate_comparison_charts`, after all simulations.

## 4. What is proved

The theorems hold for every value of the constants that satisfies
the assumptions: `CarAssumption` (at least two floors and one seat),
`FleetAssumption` (at least one car), `EngineAssumption` (the policies are a
sequence of sets of floors and the workloads lists of requests, invalid ones
included), `FilesAssumption`, and for commands `CommandAssumption` (the list is
one the parser may return: valid, ids distinct, in order of time). The first two are the bounds that
`SimulationSettings` of `config.py` enforces.

`IInv` collects the safety properties and what makes them inductive. They are
proved in layers, each from the ones below:

1. `TypeCorrect`. The one arithmetic fact is that starting floors lie in the
   building; for moves, that a car steps towards a target which is a floor.
2. `BookkeepingHolds`: `Bookkeeping` needs `DispatchQueue` (who is left of the
   dispatch loop still waits), else a passenger could be assigned twice.
3. `CapacityHolds`: from the guard of the boarding loop, and that riders and
   those who board are disjoint, which is `Bookkeeping`.
4. `PolicyHolds`: from the filter before dispatch, the only protection there is.
5. `NothingLeftHolds`: in PICKUP nobody rides past the destination
   (`StopCleared`), and either all who wait board or the car is then full and
   hides its pickups. That sources differ from destinations needs `Validated`.
6. `IdleHolds`: a car that is full has a rider and so a target.
7. `RideBoundHolds`: `RideProgress` bounds the ticks ridden by the moves still
   needed to the rider's stop (`MovesToReach`), a measure that decreases with
   every move whatever the strategy assigns, since SCAN turns round only when
   nothing is left ahead, and a rider's destination is always a target.
8. `TimesHold`, `FirstServedHolds`: the latter says that the line at a floor is
   served in the order of assignment even if it takes several visits.
   `WaitBoundHolds`: from assignment on a passenger waits one round of the
   building, `2 * (NumFloors - 1)` ticks, and another for every full load of
   others that boarded the car before. The invariant is `WaitProgress`: the time
   waited, and the moves until the car comes by going up (`MovesToPass`), fit into
   one round more than there are full loads of people who will have left the car
   by then (`MadeWay`). The sum does not grow with a move that brings the car
   nearer, whatever the strategy assigns. When the car goes past, or turns
   round on its way there, it had no stop at the floor, so it is full; nobody in
   it was counted in `MadeWay`, and all in it get off before it comes by the next
   time (`ScanPasses`): a full load joins the count and pays for the new round.
9. `InvariantHolds` is the conjunction, `Spec => []IInv`, the formula TLC checks
   in `shared_car`.
10. `LifecycleImplemented`: `Spec => Lifecycle!Spec` with `stage <- status` and
    `car <- assigned_elevator`. Ingest is `Arrive`, dispatch `AssignOne` or a
    stutter, pickup `Board` (its bound on riders is `CapacityRespected`), dropoff
    `Leave`, everything else stutters. Each guard that raises
    `InvalidStateTransition` in the code is a precondition here, so the
    exceptions are unreachable.
11. `StopsHold`: a stop is somebody's boarding or leaving, so it needs
    `PolicyRespected` and `Bookkeeping`.
12. `OnePerIdHolds`, from `IdsRegistered`: of the requests with one id and a time
    that has passed, one has its passenger. That the first of a tick is taken
    needs a least element, for which the library's theorem on well-founded
    orders of finite sets stands in for an induction. `StopsWhenDoneHolds` (no
    run goes on after the last delivery, if the ids are distinct) and
    `CompletedRunsDelivered` (no run that ends early forgets a request) follow by
    counting.
13. `SomebodyDeliveredHolds`: a run ends with somebody delivered exactly if some
    car may serve some request. If it ends before the bound that is
    `CompletedHasDelivered`; at the bound it takes an argument about the first
    ride. Who can be served is assigned in the tick of the request
    (`PromptlyAssigned`). For the first to board nobody has boarded before, so
    by `WaitBound` the wait is one round (`FirstRideEarly`). The ride takes
    at most another (`RideBound`), and the bound of the loop allows for
    both: it is more than `4 * NumFloors` ticks after any request
    (`OverTheBound`).
    `EnoughTicksHolds`: the same sum for everybody. If no car gets more passengers
    than batches times seats (`LoadSpread`), nobody waits for more loads than there
    are batches less one, so `max_ticks` has `2 * NumFloors` ticks for every round
    waited and as many for the ride. This is the assumption behind the comment
    "enough ticks for worst case", and `bound_too_small` shows that without it
    the comment is wrong.
14. `EvenDistributionHolds`: with full service the rotation is even
    (`RotationEven`): there is a number q of rounds such that the cars before
    the index have taken q + 1 passengers and the others q. The assumption is
    that all cars serve all floors, without which the property is false
    (`uneven_rotation`). An even load is spread (`EvenLoadIsSpread`), so under
    that assumption round robin always delivers everybody within the bound
    (`RoundRobinInTimeHolds`).
15. `LogsOnlyWatch`: `LogSpec => Spec`; the logs never hold the engine up.
    `LogsAgreeHolds` needs `LogInv`: the floor of each car is the one its last
    reported move has led to (`FloorsKnown`), no event is dated after the tick
    (`EventsKept`), and every row counted is kept (`RowsKept`). Each phase
    appends a list with the present tick, in which a car reports a move exactly
    if it has changed floors (`ReportOf`), and so no event that comes later
    concerns a row already written. `ReplayAgreesHolds` needs `Replayed`: the
    state told by the events is the engine's (`TrueAccount`). Within a phase the
    account is a mixture, new for the passengers and cars whose event has been
    read and old for the others (`KnownAfter`). The events of a phase have
    different subjects, each is credible whichever others were read before it,
    and leads to the mixture with its subject added; together they tell all that
    the phase changed (`AllToldBy`). Then any list of just these events, each
    once, will do (`StepReplayed`), and what remains is that the list of the
    phase is one (`IngestTells` to `MoveTells`). That a seat is free for each who
    boards, whoever boarded before, is `CapacityRespected` after the phase.
16. `EveryRunIsSound`: `CommandSpec => []IInv`. A step of a command is a step of
    the engine, leaves it alone, or starts it afresh, which leads to an initial
    state again (`EngineInv` adds to `IInv` what the second and later runs need:
    that the workload is still the valid list of the parser and the strategy a
    registered one). `NobodyOverlookedByCommand`, `EvenDistributionByCommand`,
    `EnoughTicksByCommand`, `LogsAgreeByCommand`, `ReplayAgreesByCommand` and `StopsWhenDoneByCommand`, where the parser's check
    of the ids stands behind the count, follow.
17. `ResultsComplete`: every collected result is a `CompleteResult`: its times
    are in order, somebody is delivered in it exactly if some car may serve some
    request, whatever the strategy (13), and its position log is longer than any
    delivery time. This is what the numbers rest on. `NoDivisionByZeroHolds`
    follows (if anybody is delivered by one strategy, somebody is by all), and
    `StatisticsMeanWhatTheySayHolds` with the lemmas of `OperatorProofs` on sums
    and order statistics.
18. `FilesInOrder`: what has been written completely is a first part of
    `Outputs`, all from the results of the whole loop (`OutputsInOrder`). A failing
    write ends the command, so at most the file after those is torn, and success
    means that none is missing. Hence the file that
    `ReportsAgreeHolds` and `ChartsAgreeHolds` start from (the summary, the
    analysis) is there only with those before it, and the rest is about numbers
    computed from the same complete result.
19. `P95Separates`: the index computed in three places is valid and splits the
    list as a 95th percentile should, for every length.
20. `LineAndSetAgree` and `SingleCarsImplemented`. A strict order on a finite set
    puts it into one list (`Listing`, by rank), a filter keeps such a list in order
    (`AmongListing`), and the first of the line are those with the rest behind
    them (`BoardingIsFirst`); so a set with the order of assignment is as good as
    the list. The inductive part is `AssignedInTurn`: who is assigned now comes
    after all who were (those to be assigned in this tick are later in `Earlier`),
    so appending to the list is adding to the set, and `LinesInOrder` holds: the
    line recovered for a car lists its set. Every phase is then a step of
    `CarOf(e)` or a stutter of it: dispatch a `Call` of one car, dropoff, pickup and move the same phase
    of all.

Outside `IInv`: `NobodyOverlookedHolds` (with the shipped strategies and any
other that raises no `DispatchError`, who waits after dispatch has no eligible
car; it needs that nearest car always finds a minimum), `LogHolds`, and, for the
parser, `EveryDefectAccounted`, `EngineTakesFiles` and `NothingIsLost` for files of
any length. For the first, the list `errors` numbers the defective lines in their
order, so a rejection that counts its entries and shows the first of them counts and
shows defective lines. The last says that the sort is a stable permutation: there are as
many places as rows, no row is in two places, so none is left out.

**Recursion.** The sums (`SumFunction`) and concatenations (`FlattenSeq`) of the
community modules are recursive functions. That such a function exists, which
TLA+ does not grant, and what it returns is proved here from a least
counterexample: the library states as plain facts that the finite subsets of a
set are well-founded under inclusion, and least numbers come from that.

## 5. What is only model-checked

* The liveness properties `Termination`, `CommandEnds`, `RidersGetOut`,
  `OnlyAFullCarStarves`, `LeftAloneItFinishes`: TLAPS cannot reason about
  fairness or ENABLED.
* `HandTraceAgrees`: about one scenario.
* `RerunChangesNothing`: it compares a run with an earlier one, step by step, and
  holds only where every choice is determined (`NextTargets` may leave two).

## 6. Plan

Done: the engine with its parts, the abstract lifecycle, the single car in an
open building and its refinement, the logs, the parser, and whole commands with
the numbers they compute; and theorems for every safety property and both
refinements, apart from those of section 5. What is left:

1. `LeftAloneItFinishes` of the single car as a bound: `WaitBound` is the
   argument, but it counts who boarded before in a run, and the calls of
   `OpenBuilding` never end.
2. `RerunChangesNothing` for configurations in which every choice is determined.

## 7. Not modelled, and why

* Logging: nothing reads what it writes, and no control depends on it.
* Environment variables, the log options and the click group around the
  commands; the limits on the settings are the assumptions on the constants.
* Drawing and wording: axes, labels and their staggering, the texts around the
  numbers, rounding to one decimal for print.
* Which of two cars wins where rounding breaks a tie of scores (any may).
* The comparison of averages as floats: a gap of exactly 10 percent may come out
  on either side in the code; the model compares exactly.
* `bounded_wait_disparity`: nothing but one test calls it. It judges everybody
  with a pickup time, the report only those delivered, so in a run that ends at
  its bound neither bears on the other.
* Files an earlier command left in the directory: `files` is what this one writes.
* A second `run()` on one engine: nothing in the repository does it, and the
  runner's reason for a new engine per name is what `RerunChangesNothing` checks.

To run: `tlc -config any_dispatch.cfg MCSimulation`, `tlc -config shipped.cfg
MCCommandLine`, `tlc -config open_car.cfg MCOpenBuilding`, `tlc -config
csv_file.cfg MCCsvParser` and so on; `tlapm SimulationProofs.tla` and the other proof
modules.
