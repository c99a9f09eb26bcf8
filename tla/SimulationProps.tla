---------------------------- MODULE SimulationProps ----------------------------
(***************************************************************************)
(* What must be true of a run of the simulation engine.                    *)
(***************************************************************************)
EXTENDS Simulation

\* The state has the shape of the engine's attributes; in particular a car
\* never leaves the building.
TypeOK ==
  /\ strategy \in StrategyNames
  /\ requests \in Seq(Request)
  /\ tick \in Nat
  /\ phase \in TickPhase \cup Ended \cup {"START"}
  /\ unassigned \subseteq Passengers
  /\ status \in [Passengers -> PassengerStatus]
  /\ assigned_elevator \in [Passengers -> Elevators \cup {None}]
  /\ assigned_time \in [Passengers -> Nat \cup {None}]
  /\ pickup_time \in [Passengers -> Nat \cup {None}]
  /\ delivery_time \in [Passengers -> Nat \cup {None}]
  /\ elevators \in [Elevators -> Car(Passengers)]
  /\ next_index \in Nat
  /\ position_log \in [rows: Nat, last: [Elevators -> Floors]]

-----------------------------------------------------------------------------
(* Safety *)

\* The engine keeps two records of the same fact, Passenger.status and the
\* lists of the cars, and never compares them.  They agree at every step: no
\* passenger is lost, none is on two cars, none is both waiting and riding
\* (docs/ADR/005: "no lost passengers").
Bookkeeping ==
  /\ \A p \in Passengers :
       (assigned_elevator[p] = None) <=> (status[p] \in {"ABSENT", "WAITING"})
  /\ \A p \in Passengers, e \in Elevators :
       /\ p \in elevators[e].assigned_requests
            <=> status[p] = "ASSIGNED" /\ assigned_elevator[p] = e
       /\ p \in elevators[e].passengers
            <=> status[p] = "RIDING" /\ assigned_elevator[p] = e

\* What is left of the dispatch loop is still waiting, and outside the loop
\* nothing is left.
DispatchQueue ==
  /\ \A p \in unassigned : status[p] = "WAITING"
  /\ phase # "DISPATCH" => unassigned = {}

\* capacity_respected() of domain/invariants.py, at every step and not only
\* where the engine calls it.
CapacityRespected ==
  \A e \in Elevators : Cardinality(elevators[e].passengers) <= MaxCapacity

\* no_double_assignment() and the dict self.passengers: an id that appears
\* twice in the input is one passenger, the first of its requests.
OnePassengerPerId ==
  \A p, q \in Passengers :
    requests[p].passenger_id = requests[q].passenger_id /\ Earlier(p, q)
      => status[q] = "ABSENT"

\* After PICKUP no car stands at a floor it still wants to stop at, so every
\* car with work really moves in the MOVE phase: the branch "Already at
\* target" of Elevator.move() is dead code.
NothingLeftToDoHere ==
  phase = "MOVE" =>
    \A e \in Elevators :
      elevators[e].current_floor \notin TargetFloors(elevators[e], requests)

\* IDLE is the FSM state of a car with nothing to do: once a tick has moved
\* the cars, a car is IDLE exactly if it carries nobody and owes nobody a
\* pickup.  A full car hides its pickups from next_target(); it must not go
\* to sleep over them.
IdleIsDone ==
  phase \in {"START", "RECORD", "INGEST"} \cup Ended =>
    \A e \in Elevators :
      elevators[e].direction = "IDLE"
        <=> elevators[e].passengers = {} /\ elevators[e].assigned_requests = {}

\* A trip takes at least the floors between source and destination, one per
\* tick, and at most one sweep to the far end and back: 2 * NumFloors - 3
\* ticks, whatever the strategy assigns meanwhile.
RideBound ==
  \A p \in Passengers :
    /\ status[p] = "RIDING" => tick - pickup_time[p] <= 2 * NumFloors - 3
    /\ status[p] = "DELIVERED" =>
         /\ delivery_time[p] - pickup_time[p] <= 2 * NumFloors - 3
         /\ delivery_time[p] - pickup_time[p]
              >= Abs(requests[p].dest - requests[p].source)

\* The others who boarded the car of p before p did.
BoardedAhead(p) ==
  {q \in Passengers \ {p} :
     /\ assigned_elevator[q] = assigned_elevator[p]
     /\ status[q] \in {"RIDING", "DELIVERED"}
     /\ status[p] = "ASSIGNED" \/ pickup_time[q] < pickup_time[p]}

\* The rounds of the building it takes to make room when S go first.
Rounds(S) == 1 + Cardinality(S) \div MaxCapacity

Round == 2 * (NumFloors - 1)

\* Nobody is passed by for nothing: from the assignment on, a passenger waits
\* one round of the building, and one more for every full load of others that
\* boarded the car before, however the targets of the car come and go.
WaitBound ==
  \A p \in Passengers :
    status[p] \in {"ASSIGNED", "RIDING", "DELIVERED"} =>
      (IF status[p] = "ASSIGNED" THEN tick ELSE pickup_time[p]) - assigned_time[p]
        <= Rounds(BoardedAhead(p)) * Round

\* A passenger is dealt with from the tick of the request on, never before,
\* and in the order of the lifecycle.
TimesOrdered ==
  \A p \in Passengers :
    /\ status[p] # "ABSENT" => requests[p].request_time <= tick
    /\ status[p] \in {"ASSIGNED", "RIDING", "DELIVERED"} =>
         requests[p].request_time <= assigned_time[p] /\ assigned_time[p] <= tick
    /\ status[p] \in {"RIDING", "DELIVERED"} =>
         assigned_time[p] <= pickup_time[p] /\ pickup_time[p] <= tick
    /\ status[p] = "DELIVERED" =>
         pickup_time[p] < delivery_time[p] /\ delivery_time[p] <= tick

\* Among the passengers of one car who wait at one floor, nobody is taken
\* before somebody who was assigned earlier, however often the car is full.
FirstAssignedFirstServed ==
  \A p, q \in Passengers :
    /\ status[p] = "ASSIGNED"
    /\ status[q] \in {"RIDING", "DELIVERED"}
    /\ assigned_elevator[p] = assigned_elevator[q]
    /\ requests[p].source = requests[q].source
    => InLineBefore(q, p) \/ pickup_time[q] < assigned_time[p]

\* service_policy_respected() of domain/invariants.py, whose call in the
\* engine comes after the boarded passengers are off the pickup list: a car
\* only ever owes stops at floors its policy serves (ADR-008).
PolicyRespected ==
  \A e \in Elevators :
    \A p \in elevators[e].passengers \cup elevators[e].assigned_requests :
      {requests[p].source, requests[p].dest} \subseteq ServedFloors(e)

\* The dispatch loop leaves nobody waiting whom some car may serve ("ensuring
\* no request goes unserved", ZoneBasedStrategy).  Of the shipped strategies,
\* not of the port, which may raise DispatchError.
NobodyOverlooked ==
  phase = "DROPOFF" /\ strategy # "any_or_error" =>
    \A p \in Passengers : status[p] = "WAITING" => Eligible(p) = {}

\* "Guarantees even load distribution across elevators" (RoundRobinStrategy):
\* of the requests every car may serve, no car takes two more than another.
EvenDistribution ==
  strategy = "round_robin" =>
    \A e, f \in Elevators :
      LET Taken(x) == {p \in Passengers : Eligible(p) = Elevators /\ assigned_elevator[p] = x}
      IN  Cardinality(Taken(e)) <= Cardinality(Taken(f)) + 1

\* The position log has one row per simulated tick, the last of them shows
\* where the cars are once it is written, and until the next one is written
\* no car is more than one floor from it: the log has no jumps.
PositionLogContinuous ==
  /\ position_log.rows = IF phase = "COMPLETED" THEN tick + 1 ELSE tick
  /\ \A e \in Elevators :
       Abs(elevators[e].current_floor - position_log.last[e])
         <= IF phase = "RECORD" THEN 1 ELSE 0

\* A run that stops, early or at its bound, has served every id with a request
\* some car may serve (ADR-009: "every request eventually served").
EverybodyDelivered ==
  phase \in {"COMPLETED", "MAX_TICKS"} =>
    \A p \in Passengers : Eligible(p) # {} =>
      \E q \in Passengers : /\ requests[q].passenger_id = requests[p].passenger_id
                            /\ status[q] = "DELIVERED"

\* No car gets more than its share of the batches max_ticks is computed from.
LoadSpread ==
  \A e \in Elevators :
    Cardinality({p \in Passengers : assigned_elevator[p] = e}) <= Batches * MaxCapacity

\* Whom some car may serve is delivered, or was dropped for an id seen before.
ServedInTime ==
  \A p \in Passengers : Eligible(p) # {} =>
    \/ status[p] = "DELIVERED"
    \/ /\ status[p] = "ABSENT"
       /\ \E q \in Registered : requests[q].passenger_id = requests[p].passenger_id

\* What the comment on max_ticks ("enough ticks for worst case",
\* engine/simulation.py:152) takes for granted: it is enough if the load is
\* spread over the fleet.
EnoughTicks ==
  phase \in {"COMPLETED", "MAX_TICKS"} /\ strategy # "any_or_error" /\ LoadSpread
    => ServedInTime

\* Round robin spreads it, where every car serves every floor.
RoundRobinInTime ==
  phase \in {"COMPLETED", "MAX_TICKS"} /\ strategy = "round_robin" =>
    ((\A e \in Elevators : ServedFloors(e) = Floors) => ServedInTime)

\* The loop stops once every request has come in and everybody is delivered
\* (engine/simulation.py:184).
StopsWhenDone ==
  phase = "INGEST" =>
    ~ /\ Registered # {}
      /\ \A p \in Passengers : requests[p].request_time < tick
      /\ \A p \in Registered : status[p] = "DELIVERED"

\* "AG (elevator.floor \in elevator.policy)" (domain/invariants.py:11).
FloorWithinPolicy ==
  \A e \in Elevators : elevators[e].current_floor \in ServedFloors(e)

-----------------------------------------------------------------------------
(* What makes them inductive *)

\* All or nothing: nobody is registered before every request is validated.
Validated ==
  IF phase \in {"START", "INVALID_REQUEST"}
  THEN \A p \in Passengers : status[p] = "ABSENT"
  ELSE \A p \in Passengers : ValidRequest(requests[p])

\* After DROPOFF nobody rides past the destination.
StopCleared ==
  phase = "PICKUP" =>
    \A p \in Passengers : status[p] = "RIDING" =>
      requests[p].dest # elevators[assigned_elevator[p]].current_floor

\* The most moves a car can make before it stops at the floor: straight on if
\* the floor is ahead, else to the end of the building and back.
MovesToReach(car, floor) ==
  CASE car.direction = "UP"   /\ floor >= car.current_floor -> floor - car.current_floor
    [] car.direction = "UP"   /\ floor <  car.current_floor ->
         (NumFloors - car.current_floor) + (NumFloors - floor)
    [] car.direction = "DOWN" /\ floor <= car.current_floor -> car.current_floor - floor
    [] car.direction = "DOWN" /\ floor >  car.current_floor ->
         (car.current_floor - 1) + (floor - 1)
    [] OTHER -> 2 * NumFloors

\* A rider has just boarded, or the ticks ridden and the moves still needed
\* stay within the bound; and the car is no farther from the source than
\* there were ticks to move.  At RECORD the tick's move is already made.
RideOnTrack(p) ==
  LET car   == elevators[assigned_elevator[p]]
      moved == IF phase = "RECORD" THEN 1 ELSE 0
      ride  == tick - pickup_time[p] + moved
  IN  /\ \/ /\ phase = "MOVE" /\ pickup_time[p] = tick
            /\ car.current_floor = requests[p].source
         \/ /\ ride >= 1 /\ car.direction # "IDLE"
            /\ ride + MovesToReach(car, requests[p].dest) <= 2 * NumFloors - 3
      /\ Abs(car.current_floor - requests[p].source) <= ride

RideProgress == \A p \in Passengers : status[p] = "RIDING" => RideOnTrack(p)

\* The most moves before the car comes by the floor on the way up: on the round
\* it turns on, it goes up to the top and down to the bottom at most.
MovesToPass(car, floor) ==
  CASE car.direction = "UP" /\ floor >= car.current_floor -> floor - car.current_floor
    [] car.direction = "UP" /\ floor <  car.current_floor ->
         Round - (car.current_floor - floor)
    [] car.direction = "DOWN" -> (car.current_floor - 1) + (floor - 1)
    [] OTHER -> 2 * NumFloors

\* Of those, the ones p has waited for already: they are gone, or will be when
\* the car comes by.
MadeWay(p) ==
  LET car == elevators[assigned_elevator[p]]
  IN  {q \in BoardedAhead(p) :
         status[q] = "RIDING" =>
           MovesToReach(car, requests[q].dest) <= MovesToPass(car, requests[p].source)}

\* The car may pass a passenger only while it is full, of people who did not
\* make it pass the last time.
TurnComes(p) ==
  LET car   == elevators[assigned_elevator[p]]
      moved == IF phase = "RECORD" THEN 1 ELSE 0
      wait  == tick - assigned_time[p] + moved
  IN  \/ phase \in {"DISPATCH", "DROPOFF", "PICKUP", "MOVE"} /\ assigned_time[p] = tick
      \/ /\ wait >= 1 /\ car.direction # "IDLE"
         /\ wait + MovesToPass(car, requests[p].source) <= Rounds(MadeWay(p)) * Round

WaitProgress == \A p \in Passengers : status[p] = "ASSIGNED" => TurnComes(p)

\* The inductive invariant: the safety properties with what carries them from
\* one phase to the next.
IInv ==
  /\ TypeOK /\ Bookkeeping /\ DispatchQueue /\ CapacityRespected
  /\ PolicyRespected /\ Validated /\ StopCleared /\ NothingLeftToDoHere
  /\ IdleIsDone /\ RideProgress /\ RideBound /\ TimesOrdered
  /\ FirstAssignedFirstServed /\ WaitProgress /\ WaitBound

-----------------------------------------------------------------------------
(* Steps *)

StopsAreServed ==
  \A p \in Passengers :
    LET e == assigned_elevator'[p]
        stop(floor) == elevators[e].current_floor = floor /\ floor \in ServedFloors(e)
    IN  /\ status[p] # "RIDING" /\ status'[p] = "RIDING" => stop(requests[p].source)
        /\ status[p] # "DELIVERED" /\ status'[p] = "DELIVERED" => stop(requests[p].dest)

\* People board at their source, leave at their destination, and only where
\* the car's policy lets it stop.
StopsAtServedFloors == [][StopsAreServed]_vars

-----------------------------------------------------------------------------
(* Refinement and liveness *)

Lifecycle == INSTANCE PassengerLifecycle
               WITH Cars <- Elevators, Seats <- MaxCapacity,
                    stage <- status, car <- assigned_elevator

\* The engine implements the lifecycle.
ImplementsLifecycle == Lifecycle!Spec

\* Every run returns.
Termination == <>(phase \in Ended)
=============================================================================
