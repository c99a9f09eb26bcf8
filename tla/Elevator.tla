------------------------------- MODULE Elevator -------------------------------
(***************************************************************************)
(* The Elevator aggregate of domain/model.py: what one car does with the   *)
(* passengers it carries and the requests it was assigned.  The operators  *)
(* are pure: each takes a car and returns the car the Python method leaves *)
(* behind; Simulation drives them for the whole fleet, phase by phase.     *)
(*                                                                         *)
(* A passenger is named by the position of its request in `requests'.      *)
(***************************************************************************)
EXTENDS Integers, FiniteSets

CONSTANTS NumFloors,    \* SimulationConfig.num_floors
          MaxCapacity   \* SimulationConfig.max_capacity: riders per car

\* Bounds of SimulationSettings (config.py): at least two floors, one seat.
ASSUME CarAssumption == /\ NumFloors \in Nat /\ NumFloors >= 2
                        /\ MaxCapacity \in Nat /\ MaxCapacity >= 1

Floors == 1..NumFloors

Direction == {"UP", "DOWN", "IDLE"}

None == -1   \* Python's None where an int may stand

Abs(n) == IF n < 0 THEN -n ELSE n

\* PassengerRequest, and valid_request() of domain/invariants.py.
Request == [request_time: Int, passenger_id: STRING, source: Int, dest: Int]

ValidRequest(r) ==
  /\ r.source \in Floors
  /\ r.dest \in Floors
  /\ r.source # r.dest
  /\ r.request_time >= 0

\* The two lists of the dataclass are sets here: `passengers' is only
\* filtered by destination, and the order of `assigned_requests' is that of
\* assignment, which the engine's bookkeeping knows (Simulation!InLineBefore).
Car(P) == [current_floor: Floors, direction: Direction,
           passengers: SUBSET P, assigned_requests: SUBSET P]

IdleCar(floor) == [current_floor |-> floor, direction |-> "IDLE",
                   passengers |-> {}, assigned_requests |-> {}]

\* Riders and assigned requests together: the load a snapshot shows.
CommittedLoad(car) == Cardinality(car.passengers) + Cardinality(car.assigned_requests)

\* A fault: whoever is still to be picked up takes a seat already.
IsFullWithAssigned(car) == CommittedLoad(car) >= MaxCapacity

IsFull(car) == Cardinality(car.passengers) >= MaxCapacity

\* A fault: a seat is kept for everybody assigned, those about to board too.
RoomWithAssigned(car) == MaxCapacity - CommittedLoad(car)

\* Seats left, the loop guard of pickup().
Room(car) == MaxCapacity - Cardinality(car.passengers)

-----------------------------------------------------------------------------
(* dropoff() and pickup() *)

Alighting(car, requests) ==
  {p \in car.passengers : requests[p].dest = car.current_floor}

AfterDropoff(car, requests) ==
  [car EXCEPT !.passengers = @ \ Alighting(car, requests)]

\* A fault: who has boarded stays on the pickup list.
AfterPickupForgetsRequest(car, boarding) ==
  [car EXCEPT !.passengers = @ \cup boarding]

AfterPickup(car, boarding) ==
  [car EXCEPT !.passengers = @ \cup boarding,
              !.assigned_requests = @ \ boarding]

AfterAssign(car, p) == [car EXCEPT !.assigned_requests = @ \cup {p}]

-----------------------------------------------------------------------------
(* next_target() and move() *)

\* A fault: the pickups of a full car are targets too.
TargetFloorsEvenFull(car, requests) ==
  {requests[p].dest : p \in car.passengers}
    \cup {requests[p].source : p \in car.assigned_requests}

\* A full car does not travel to floors where it could load nobody.
TargetFloors(car, requests) ==
  {requests[p].dest : p \in car.passengers}
    \cup IF IsFull(car) THEN {}
         ELSE {requests[p].source : p \in car.assigned_requests}

Ahead(floor, direction, targets) ==
  CASE direction = "UP"   -> {t \in targets : t >= floor}
    [] direction = "DOWN" -> {t \in targets : t <= floor}
    [] OTHER              -> targets

Nearest(floor, targets) ==
  {t \in targets : \A u \in targets : Abs(t - floor) <= Abs(u - floor)}

\* A fault: the nearest stop, ahead or behind.
NearestOfAll(car, targets) == Nearest(car.current_floor, targets)

\* SCAN: the nearest stop ahead, else the nearest one behind.  An idle car
\* takes the nearest of all; with one on each side at the same distance the
\* code takes whichever the set yields first, so both are possible.
NextTargets(car, targets) ==
  LET ahead == Ahead(car.current_floor, car.direction, targets)
  IN  Nearest(car.current_floor, IF ahead # {} THEN ahead ELSE targets)

MoveChoices(car, requests) ==
  LET targets == TargetFloors(car, requests)
  IN  IF targets = {} THEN {None} ELSE NextTargets(car, targets)

\* At the target itself _update_direction() finds the same target again and
\* leaves the direction alone.
Heading(car, target) ==
  CASE target > car.current_floor -> "UP"
    [] target < car.current_floor -> "DOWN"
    [] OTHER -> car.direction

Sign(n) == IF n > 0 THEN 1 ELSE IF n < 0 THEN -1 ELSE 0

\* A fault: all the way to the target in one tick.
AfterMoveAtOnce(car, target) ==
  IF target = None THEN [car EXCEPT !.direction = "IDLE"]
  ELSE [car EXCEPT !.current_floor = target, !.direction = Heading(car, target)]

\* One floor towards the target; without one the car is idle.
AfterMove(car, target) ==
  IF target = None THEN [car EXCEPT !.direction = "IDLE"]
  ELSE [car EXCEPT !.current_floor = @ + Sign(target - @),
                   !.direction = Heading(car, target)]
=============================================================================
