------------------------------ MODULE Strategies ------------------------------
(***************************************************************************)
(* The dispatch strategies of domain/strategies.py as decision functions:  *)
(* from the fleet, the cars eligible for a request and the request, the    *)
(* set of cars that may be selected.  The three shipped strategies leave   *)
(* exactly one choice; "any" and "any_or_error" are the DispatchStrategy   *)
(* port (domain/model.py): whichever eligible car it likes, and for the    *)
(* second a DispatchError whenever it likes.                               *)
(***************************************************************************)
EXTENDS Elevator

CONSTANT NumElevators   \* SimulationConfig.num_elevators

ASSUME FleetAssumption == NumElevators \in Nat /\ NumElevators >= 1

Elevators == 0..(NumElevators - 1)

StrategyNames == {"any", "any_or_error", "round_robin", "nearest_car", "zone_based"}

-----------------------------------------------------------------------------
(* RoundRobinStrategy: an index into the eligible cars, by id *)

RoundRobinPick(eligible, next_index) ==
  {e \in eligible :
     Cardinality({x \in eligible : x < e}) = next_index % Cardinality(eligible)}

\* A fault: the counter stays where it is.
RoundRobinStuck(eligible, next_index) == next_index % Cardinality(eligible)

RoundRobinAdvance(eligible, next_index) ==
  (next_index + 1) % Cardinality(eligible)

-----------------------------------------------------------------------------
(* NearestCarStrategy: distance + direction penalty + load, lowest id first *)

RequestDirection(request) ==
  IF request.dest > request.source THEN "UP" ELSE "DOWN"

MovingToward(car, request) ==
  \/ car.direction = "UP"   /\ request.source >= car.current_floor
  \/ car.direction = "DOWN" /\ request.source <= car.current_floor

DirectionPenalty(car, request) ==
  CASE car.direction = "IDLE" -> 0
    [] car.direction # "IDLE" /\ ~MovingToward(car, request) -> 30
    [] OTHER -> IF car.direction = RequestDirection(request) THEN 0 ELSE 10

\* The code's score times the capacity, so that load / capacity stays whole.
Score(car, request) ==
  MaxCapacity * (Abs(car.current_floor - request.source)
                   + DirectionPenalty(car, request))
    + CommittedLoad(car) * NumFloors

\* The code's scores are floats.  Dividing by one of these capacities (which
\* end at 100) is exact; otherwise a tie may be none by a rounding error, and
\* go to a higher id.
ExactScores == MaxCapacity \in {1, 2, 4, 8, 16, 32, 64}

NearestCarPick(cars, eligible, request) ==
  {e \in eligible : \A x \in eligible :
     \/ Score(cars[e], request) < Score(cars[x], request)
     \/ /\ Score(cars[e], request) = Score(cars[x], request)
        /\ ExactScores => e <= x}

-----------------------------------------------------------------------------
(* ZoneBasedStrategy: nearest car among those in the caller's zone *)

ZoneSize == IF NumFloors \div 3 > 1 THEN NumFloors \div 3 ELSE 1

Zone(floor) == (floor - 1) \div ZoneSize

ZoneLocal(cars, eligible, request) ==
  {e \in eligible : /\ Zone(cars[e].current_floor) = Zone(request.source)
                    /\ CommittedLoad(cars[e]) < MaxCapacity}

\* A fault: no fallback, and DispatchError when the zone has no car with room.
ZoneOnlyPick(cars, eligible, request) ==
  LET local == ZoneLocal(cars, eligible, request)
  IN  IF local = {} THEN {None} ELSE NearestCarPick(cars, local, request)

ZoneBasedPick(cars, eligible, request) ==
  LET local == ZoneLocal(cars, eligible, request)
  IN  NearestCarPick(cars, IF local # {} THEN local ELSE eligible, request)

-----------------------------------------------------------------------------
(* select_elevator(); None stands for DispatchError *)

SelectElevator(strategy, cars, eligible, request, next_index) ==
  CASE strategy = "any"          -> eligible
    [] strategy = "any_or_error" -> eligible \cup {None}
    [] strategy = "round_robin"  -> RoundRobinPick(eligible, next_index)
    [] strategy = "nearest_car"  -> NearestCarPick(cars, eligible, request)
    [] strategy = "zone_based"   -> ZoneBasedPick(cars, eligible, request)
=============================================================================
