------------------------------ MODULE Simulation ------------------------------
(***************************************************************************)
(* SimulationEngine of engine/simulation.py: one run() over a list of      *)
(* requests.  Every tick goes through the six phases of run(); each phase  *)
(* is one action over the whole fleet, except DISPATCH, whose loop is one  *)
(* action per passenger because the strategy sees the load the earlier     *)
(* assignments of the same tick have added.                                *)
(***************************************************************************)
EXTENDS Strategies, Lists

CONSTANTS Injected,         \* the strategies run() may be injected with
          ServicePolicies,  \* per-elevator served floors, possibly too few
          Workloads         \* the request lists run() may be called with

ASSUME EngineAssumption == /\ Injected \subseteq StrategyNames
                           /\ ServicePolicies \in Seq(SUBSET Int)
                           /\ Workloads \subseteq Seq(Request)

VARIABLES strategy,          \* the injected strategy
          requests,          \* the argument of run()
          tick,              \* _current_tick
          phase,             \* where run() stands, or how it ended
          unassigned,        \* what is left of the loop in _phase_dispatch
          status,            \* Passenger.status, "ABSENT" before ingestion
          assigned_elevator, \* Passenger.assigned_elevator_id
          assigned_time, pickup_time, delivery_time,
          elevators,         \* self.elevators
          next_index,        \* RoundRobinStrategy._next_index
          position_log       \* self.position_log: how many rows, and the last

passengerVars == <<status, assigned_elevator, assigned_time, pickup_time, delivery_time>>
vars == <<strategy, requests, tick, phase, unassigned, passengerVars, elevators, next_index, position_log>>

PassengerStatus == {"ABSENT", "WAITING", "ASSIGNED", "RIDING", "DELIVERED"}

TickPhase == {"INGEST", "DISPATCH", "DROPOFF", "PICKUP", "MOVE", "RECORD"}

\* run() has returned, or raised InvalidRequestError.
Ended == {"COMPLETED", "MAX_TICKS", "INVALID_REQUEST"}

Passengers == DOMAIN requests

-----------------------------------------------------------------------------
(* initialize() *)

\* A fault: the last car starts above the top floor.
StartFloorTooHigh(e) ==
  IF NumElevators > 1 THEN 1 + (e * NumFloors) \div (NumElevators - 1) ELSE 1

\* Evenly spread over the building.
StartFloor(e) ==
  IF NumElevators > 1 THEN 1 + (e * (NumFloors - 1)) \div (NumElevators - 1) ELSE 1

\* Cars beyond the given policies serve every floor.
ServedFloors(e) ==
  IF e < Len(ServicePolicies) THEN ServicePolicies[e + 1] ELSE Floors

Init ==
  /\ strategy \in Injected
  /\ requests \in Workloads
  /\ tick = 0
  /\ phase = "START"
  /\ unassigned = {}
  /\ status = [p \in Passengers |-> "ABSENT"]
  /\ assigned_elevator = [p \in Passengers |-> None]
  /\ assigned_time = [p \in Passengers |-> None]
  /\ pickup_time = [p \in Passengers |-> None]
  /\ delivery_time = [p \in Passengers |-> None]
  /\ elevators = [e \in Elevators |-> IdleCar(StartFloor(e))]
  /\ next_index = 0
  /\ position_log = [rows |-> 0, last |-> [e \in Elevators |-> StartFloor(e)]]

-----------------------------------------------------------------------------
(* run(): validation and the bound of the loop *)

\* One invalid request and nothing is simulated.
Validate ==
  /\ phase = "START"
  /\ phase' = IF \A p \in Passengers : ValidRequest(requests[p])
              THEN "INGEST" ELSE "INVALID_REQUEST"
  /\ UNCHANGED <<strategy, requests, tick, unassigned, passengerVars, elevators, next_index, position_log>>

MaxRequestTime ==
  IF requests = <<>> THEN 0
  ELSE CHOOSE t \in {requests[p].request_time : p \in Passengers} :
         \A p \in Passengers : requests[p].request_time <= t

FleetCapacity == NumElevators * MaxCapacity

Batches == (Len(requests) + FleetCapacity - 1) \div FleetCapacity

\* A fault: everybody fits into one batch.
MaxTicksOfOneBatch == MaxRequestTime + NumFloors * 2 + NumFloors * 2

MaxTicks == MaxRequestTime + Batches * NumFloors * 2 + NumFloors * 2

-----------------------------------------------------------------------------
(* Phase 1: _phase_ingest *)

\* sorted() is stable, so requests of equal time keep the order of the list:
\* this is also the order of the dict self.passengers.
Earlier(p, q) ==
  \/ requests[p].request_time < requests[q].request_time
  \/ requests[p].request_time = requests[q].request_time /\ p < q

\* A fault: the id is not looked up.
ArrivingUnchecked(p) == requests[p].request_time = tick

\* A fault: the requests of the next tick are seen too.
ArrivingEarly(p) == status[p] = "ABSENT" /\ requests[p].request_time <= tick + 1

\* A request whose id is already registered is skipped, for good.
Arriving(p) ==
  /\ requests[p].request_time = tick
  /\ \A q \in Passengers :
       requests[q].passenger_id = requests[p].passenger_id =>
         /\ status[q] = "ABSENT"
         /\ requests[q].request_time = tick => p <= q

Ingest ==
  /\ phase = "INGEST"
  /\ status' = [p \in Passengers |-> IF Arriving(p) THEN "WAITING" ELSE status[p]]
  /\ unassigned' = {p \in Passengers : status'[p] = "WAITING"}
  /\ phase' = "DISPATCH"
  /\ UNCHANGED <<strategy, requests, tick, assigned_elevator, assigned_time, pickup_time,
                 delivery_time, elevators, next_index, position_log>>

-----------------------------------------------------------------------------
(* Phase 2: _phase_dispatch *)

\* A fault: the source floor alone decides.
EligibleBySource(p) == {e \in Elevators : requests[p].source \in ServedFloors(e)}

Eligible(p) ==
  {e \in Elevators : {requests[p].source, requests[p].dest} \subseteq ServedFloors(e)}

\* The loop takes the registered passengers in the order of the dict.
IsNext(p) == p \in unassigned /\ \A q \in unassigned : q = p \/ Earlier(p, q)

\* A fault: the passenger is not told.
AssignSilently(p, e) ==
  /\ elevators' = [elevators EXCEPT ![e] = AfterAssign(@, p)]
  /\ assigned_elevator' = [assigned_elevator EXCEPT ![p] = e]
  /\ UNCHANGED <<status, assigned_time>>

Assign(p, e) ==
  /\ status' = [status EXCEPT ![p] = "ASSIGNED"]
  /\ assigned_elevator' = [assigned_elevator EXCEPT ![p] = e]
  /\ assigned_time' = [assigned_time EXCEPT ![p] = tick]
  /\ elevators' = [elevators EXCEPT ![e] = AfterAssign(@, p)]

\* No eligible elevator, or DispatchError: the passenger stays WAITING.
LeaveWaiting == UNCHANGED <<status, assigned_elevator, assigned_time, elevators>>

Dispatch ==
  /\ phase = "DISPATCH"
  /\ \E p \in unassigned :
       /\ IsNext(p)
       /\ unassigned' = unassigned \ {p}
       /\ IF Eligible(p) = {} THEN LeaveWaiting /\ UNCHANGED next_index
          ELSE /\ \E e \in SelectElevator(strategy, elevators, Eligible(p),
                                          requests[p], next_index) :
                    IF e = None THEN LeaveWaiting ELSE Assign(p, e)
               /\ next_index' = IF strategy = "round_robin"
                                THEN RoundRobinAdvance(Eligible(p), next_index)
                                ELSE next_index
  /\ UNCHANGED <<strategy, requests, tick, phase, pickup_time, delivery_time, position_log>>

EndDispatch ==
  /\ phase = "DISPATCH"
  /\ unassigned = {}
  /\ phase' = "DROPOFF"
  /\ UNCHANGED <<strategy, requests, tick, unassigned, passengerVars, elevators, next_index, position_log>>

-----------------------------------------------------------------------------
(* Phase 3: _phase_dropoff *)

Dropoff ==
  /\ phase = "DROPOFF"
  /\ LET delivered == UNION {Alighting(elevators[e], requests) : e \in Elevators}
     IN  /\ status' = [p \in Passengers |->
                         IF p \in delivered THEN "DELIVERED" ELSE status[p]]
         /\ delivery_time' = [p \in Passengers |->
                                IF p \in delivered THEN tick ELSE delivery_time[p]]
  /\ elevators' = [e \in Elevators |-> AfterDropoff(elevators[e], requests)]
  /\ phase' = "PICKUP"
  /\ UNCHANGED <<strategy, requests, tick, unassigned, assigned_elevator, assigned_time,
                 pickup_time, next_index, position_log>>

-----------------------------------------------------------------------------
(* Phase 4: _phase_pickup *)

WaitingHere(e) ==
  {p \in elevators[e].assigned_requests :
     /\ requests[p].source = elevators[e].current_floor
     /\ status[p] = "ASSIGNED"}

\* assigned_requests grows by append: by tick of assignment and, within one
\* dispatch loop, in the order of the dict.
InLineBefore(p, q) ==
  \/ assigned_time[p] < assigned_time[q]
  \/ assigned_time[p] = assigned_time[q] /\ Earlier(p, q)

\* A fault: boarding stops one passenger too late.
BoardsOneTooMany(boarding, e) ==
  /\ boarding \subseteq WaitingHere(e)
  /\ Cardinality(boarding) <= Room(elevators[e]) + 1
  /\ boarding = WaitingHere(e) \/ Cardinality(boarding) = Room(elevators[e]) + 1

\* A fault: the line has lost its order, as if it were kept as a set.
BoardsInAnyOrder(boarding, e) ==
  /\ boarding \subseteq WaitingHere(e)
  /\ boarding # {} => Cardinality(boarding) <= Room(elevators[e])
  /\ boarding = WaitingHere(e) \/ Cardinality(boarding) >= Room(elevators[e])

\* The first of the line board until the car is full.
Boards(boarding, e) ==
  /\ boarding \subseteq WaitingHere(e)
  /\ boarding # {} => Cardinality(boarding) <= Room(elevators[e])
  /\ boarding = WaitingHere(e) \/ Cardinality(boarding) >= Room(elevators[e])
  /\ \A p \in boarding, q \in WaitingHere(e) \ boarding : InLineBefore(p, q)

Pickup ==
  /\ phase = "PICKUP"
  /\ \E boarding \in SUBSET UNION {WaitingHere(e) : e \in Elevators} :
       /\ \A e \in Elevators : Boards(boarding \cap WaitingHere(e), e)
       /\ status' = [p \in Passengers |->
                       IF p \in boarding THEN "RIDING" ELSE status[p]]
       /\ pickup_time' = [p \in Passengers |->
                            IF p \in boarding THEN tick ELSE pickup_time[p]]
       /\ elevators' = [e \in Elevators |->
                          AfterPickup(elevators[e], boarding \cap WaitingHere(e))]
  /\ phase' = "MOVE"
  /\ UNCHANGED <<strategy, requests, tick, unassigned, assigned_elevator, assigned_time,
                 delivery_time, next_index, position_log>>

-----------------------------------------------------------------------------
(* Phase 5: _phase_move *)

Move ==
  /\ phase = "MOVE"
  /\ \E target \in [Elevators -> Floors \cup {None}] :
       /\ \A e \in Elevators : target[e] \in MoveChoices(elevators[e], requests)
       /\ elevators' = [e \in Elevators |-> AfterMove(elevators[e], target[e])]
  /\ phase' = "RECORD"
  /\ UNCHANGED <<strategy, requests, tick, unassigned, passengerVars, next_index, position_log>>

-----------------------------------------------------------------------------
(* Phase 6: _record_positions, the termination check and the loop condition *)

Registered == {p \in Passengers : status[p] # "ABSENT"}

\* A fault: one passenger too many is expected.
FinishedTooStrict ==
  /\ Cardinality(Registered) > Len(requests)
  /\ \A p \in Registered : status[p] = "DELIVERED"

Finished ==
  /\ Cardinality(Registered) >= Len(requests)
  /\ Registered # {}
  /\ \A p \in Registered : status[p] = "DELIVERED"

\* Where the cars are, the row that is appended.
Positions == [e \in Elevators |-> elevators[e].current_floor]

\* A fault: `continue' while nobody is registered, past the counting of ticks.
RecordSkipsEmptyTick ==
  /\ phase = "RECORD"
  /\ position_log' = [position_log EXCEPT !.last = Positions]
  /\ tick' = IF Finished \/ Registered = {} THEN tick ELSE tick + 1
  /\ phase' = IF Finished THEN "COMPLETED"
              ELSE IF tick' <= MaxTicks THEN "INGEST" ELSE "MAX_TICKS"
  /\ UNCHANGED <<strategy, requests, unassigned, passengerVars, elevators, next_index>>

Record ==
  /\ phase = "RECORD"
  /\ position_log' = [rows |-> position_log.rows + 1, last |-> Positions]
  /\ \/ /\ Finished
        /\ phase' = "COMPLETED"
        /\ UNCHANGED tick
     \/ /\ ~Finished
        /\ tick' = tick + 1
        /\ phase' = IF tick + 1 <= MaxTicks THEN "INGEST" ELSE "MAX_TICKS"
  /\ UNCHANGED <<strategy, requests, unassigned, passengerVars, elevators, next_index>>

\* run() has returned: nothing happens any more.
Terminated == phase \in Ended /\ UNCHANGED vars

Next == Validate \/ Ingest \/ Dispatch \/ EndDispatch \/ Dropoff \/ Pickup
          \/ Move \/ Record \/ Terminated

Spec == Init /\ [][Next]_vars

\* run() is a loop of one thread: it takes its next step.
FairSpec == Spec /\ WF_vars(Next)
=============================================================================
