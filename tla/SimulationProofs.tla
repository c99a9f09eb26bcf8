--------------------------- MODULE SimulationProofs ---------------------------
(***************************************************************************)
(* Proofs about the simulation engine, for every building, fleet, seat     *)
(* count, policy, workload and dispatch strategy of the model: first its   *)
(* bookkeeping, then how the cars serve the passengers.  No car stops or   *)
(* sleeps with work at hand, and every ride is bounded.                    *)
(***************************************************************************)
EXTENDS SimulationProps, OperatorProofs

-----------------------------------------------------------------------------
(* What a run starts from and a strategy answers *)

\* initialize() puts every car on a floor of the building.
LEMMA StartFloorInBuilding ==
  ASSUME NEW e \in Elevators
  PROVE  StartFloor(e) \in Floors
<1>1. CASE NumElevators = 1
  BY <1>1, CarAssumption DEF StartFloor, Floors
<1>2. CASE NumElevators > 1
  <2> DEFINE n == NumElevators - 1
             f == NumFloors - 1
  <2>1. e \in Nat /\ n \in Nat /\ n >= 1 /\ f \in Nat /\ e <= n
    BY <1>2, CarAssumption, FleetAssumption DEF Elevators
  <2>2. e * f \in Nat /\ e * f <= n * f
    BY <2>1
  <2>3. (e * f) \div n \in Nat /\ (e * f) \div n <= f
    BY <2>1, <2>2
  <2>. QED
    BY <1>2, <2>1, <2>3, CarAssumption DEF StartFloor, Floors
<1>. QED
  BY <1>1, <1>2, FleetAssumption

LEMMA FiniteEligible ==
  ASSUME NEW S \in SUBSET Elevators, S # {}
  PROVE  Cardinality(S) \in Nat /\ Cardinality(S) > 0
<1>1. IsFiniteSet(Elevators)
  BY FleetAssumption, FS_Interval DEF Elevators
<1>2. IsFiniteSet(S)
  BY <1>1, FS_Subset
<1>. QED
  BY <1>2, FS_CardinalityType, FS_EmptySet

\* A strategy answers with an eligible car or not at all.
LEMMA SelectsEligible ==
  ASSUME NEW st \in StrategyNames, NEW cars, NEW eligible, NEW request, NEW index,
         NEW e \in SelectElevator(st, cars, eligible, request, index)
  PROVE  e \in eligible \cup {None}
<1>1. CASE st \in {"any", "any_or_error"}
  BY <1>1 DEF SelectElevator
<1>2. CASE st = "round_robin"
  BY <1>2 DEF SelectElevator, RoundRobinPick
<1>3. CASE st = "nearest_car"
  BY <1>3 DEF SelectElevator, NearestCarPick
<1>4. CASE st = "zone_based"
  <2> DEFINE local == ZoneLocal(cars, eligible, request)
  <2>1. local \subseteq eligible
    BY DEF ZoneLocal
  <2>2. e \in NearestCarPick(cars, IF local # {} THEN local ELSE eligible, request)
    BY <1>4 DEF SelectElevator, ZoneBasedPick
  <2>. QED
    BY <2>1, <2>2 DEF NearestCarPick
<1>. QED
  BY <1>1, <1>2, <1>3, <1>4 DEF StrategyNames

-----------------------------------------------------------------------------
(* Type correctness *)

LEMMA InitTypeOK == Init => TypeOK
<1> SUFFICES ASSUME Init PROVE TypeOK
  OBVIOUS
<1>1. /\ requests \in Seq(Request)
      /\ strategy \in StrategyNames
  BY EngineAssumption DEF Init
<1>2. \A e \in Elevators : StartFloor(e) \in Floors
  BY StartFloorInBuilding
<1>3. \A e \in Elevators : IdleCar(StartFloor(e)) \in Car(Passengers)
  BY <1>2 DEF IdleCar, Car, Direction
<1>4. elevators \in [Elevators -> Car(Passengers)]
  BY <1>3 DEF Init
<1>5. position_log \in [rows: Nat, last: [Elevators -> Floors]]
  BY <1>2 DEF Init
<1>. QED
  BY <1>1, <1>4, <1>5 DEF Init, TypeOK, PassengerStatus

\* One turn of the dispatch loop: the passenger is left waiting or assigned
\* to a car that may serve it.
LEMMA DispatchStep ==
  ASSUME TypeOK, Dispatch
  PROVE  /\ next_index' \in Nat
         /\ \E p \in unassigned :
              /\ p \in Passengers
              /\ unassigned' = unassigned \ {p}
              /\ LeaveWaiting \/ \E e \in Elevators : e \in Eligible(p) /\ Assign(p, e)
<1>1. PICK p \in unassigned :
        /\ unassigned' = unassigned \ {p}
        /\ IF Eligible(p) = {} THEN LeaveWaiting /\ UNCHANGED next_index
           ELSE /\ \E e \in SelectElevator(strategy, elevators, Eligible(p),
                                           requests[p], next_index) :
                     IF e = None THEN LeaveWaiting ELSE Assign(p, e)
                /\ next_index' = IF strategy = "round_robin"
                                 THEN RoundRobinAdvance(Eligible(p), next_index)
                                 ELSE next_index
  BY DEF Dispatch
<1>2. p \in Passengers /\ Eligible(p) \subseteq Elevators
  BY DEF TypeOK, Eligible
<1>3. next_index' \in Nat
  <2>1. CASE Eligible(p) = {}
    BY <1>1, <2>1 DEF TypeOK
  <2>2. CASE Eligible(p) # {}
    <3>1. Cardinality(Eligible(p)) \in Nat /\ Cardinality(Eligible(p)) > 0
      BY <1>2, <2>2, FiniteEligible
    <3>2. RoundRobinAdvance(Eligible(p), next_index) \in Nat
      BY <3>1 DEF RoundRobinAdvance, TypeOK
    <3>. QED
      BY <1>1, <2>2, <3>2 DEF TypeOK
  <2>. QED
    BY <2>1, <2>2
<1>4. LeaveWaiting \/ \E e \in Elevators : e \in Eligible(p) /\ Assign(p, e)
  <2>1. \A e \in SelectElevator(strategy, elevators, Eligible(p), requests[p], next_index) :
          e \in Eligible(p) \cup {None}
    BY SelectsEligible DEF TypeOK
  <2>. QED
    BY <1>1, <1>2, <2>1
<1>. QED
  BY <1>1, <1>2, <1>3, <1>4

LEMMA StepTypeOK == TypeOK /\ [Next]_vars => TypeOK'
<1> SUFFICES ASSUME TypeOK, [Next]_vars PROVE TypeOK'
  OBVIOUS
<1>1. CASE Validate
  BY <1>1 DEF Validate, TypeOK, Passengers, TickPhase, Ended, passengerVars
<1>2. CASE Ingest
  BY <1>2 DEF Ingest, TypeOK, Passengers, TickPhase, PassengerStatus
<1>3. CASE Dispatch
  <2>1. PICK p \in Passengers :
          /\ unassigned' = unassigned \ {p}
          /\ LeaveWaiting \/ \E e \in Elevators : e \in Eligible(p) /\ Assign(p, e)
    BY <1>3, DispatchStep
  <2>2. next_index' \in Nat
    BY <1>3, DispatchStep
  <2>3. /\ status' \in [Passengers -> PassengerStatus]
        /\ assigned_elevator' \in [Passengers -> Elevators \cup {None}]
        /\ assigned_time' \in [Passengers -> Nat \cup {None}]
        /\ elevators' \in [Elevators -> Car(Passengers)]
    <3>1. CASE LeaveWaiting
      BY <3>1 DEF LeaveWaiting, TypeOK
    <3>2. ASSUME NEW e \in Elevators, Assign(p, e)
          PROVE  <2>3
      <4>1. AfterAssign(elevators[e], p) \in Car(Passengers)
        BY AssignFields DEF TypeOK
      <4>. QED
        BY <3>2, <4>1 DEF Assign, TypeOK, PassengerStatus
    <3>. QED
      BY <2>1, <3>1, <3>2
  <2>. QED
    BY <1>3, <2>1, <2>2, <2>3 DEF Dispatch, TypeOK, Passengers
<1>4. CASE EndDispatch
  BY <1>4 DEF EndDispatch, TypeOK, Passengers, TickPhase, passengerVars
<1>5. CASE Dropoff
  <2>1. \A e \in Elevators : AfterDropoff(elevators[e], requests) \in Car(Passengers)
    BY DropoffFields DEF TypeOK
  <2>. QED
    BY <1>5, <2>1 DEF Dropoff, TypeOK, Passengers, TickPhase, PassengerStatus
<1>6. CASE Pickup
  <2>1. PICK boarding \in SUBSET UNION {WaitingHere(e) : e \in Elevators} :
          /\ status' = [p \in Passengers |->
                          IF p \in boarding THEN "RIDING" ELSE status[p]]
          /\ pickup_time' = [p \in Passengers |->
                               IF p \in boarding THEN tick ELSE pickup_time[p]]
          /\ elevators' = [e \in Elevators |->
                             AfterPickup(elevators[e], boarding \cap WaitingHere(e))]
    BY <1>6 DEF Pickup
  <2>2. \A e \in Elevators : WaitingHere(e) \subseteq Passengers
    BY CarTypes DEF TypeOK, WaitingHere
  <2>3. \A e \in Elevators :
          AfterPickup(elevators[e], boarding \cap WaitingHere(e)) \in Car(Passengers)
    <3> TAKE e \in Elevators
    <3>1. boarding \cap WaitingHere(e) \in SUBSET Passengers
      BY <2>2
    <3>. QED
      BY <3>1, PickupFields DEF TypeOK
  <2>. QED
    BY <1>6, <2>1, <2>3 DEF Pickup, TypeOK, Passengers, TickPhase, PassengerStatus
<1>7. CASE Move
  <2>1. PICK target \in [Elevators -> Floors \cup {None}] :
          elevators' = [e \in Elevators |-> AfterMove(elevators[e], target[e])]
    BY <1>7 DEF Move
  <2>2. \A e \in Elevators : AfterMove(elevators[e], target[e]) \in Car(Passengers)
    BY MoveFields DEF TypeOK
  <2>. QED
    BY <1>7, <2>1, <2>2 DEF Move, TypeOK, Passengers, TickPhase, passengerVars
<1>8. CASE Record
  <2>1. Positions \in [Elevators -> Floors]
    BY CarTypes DEF Positions, TypeOK
  <2>2. position_log' \in [rows: Nat, last: [Elevators -> Floors]]
    BY <1>8, <2>1 DEF Record, TypeOK
  <2>. QED
    BY <1>8, <2>2 DEF Record, TypeOK, Passengers, TickPhase, Ended, passengerVars
<1>9. CASE UNCHANGED vars
  BY <1>9 DEF vars, TypeOK, Passengers, passengerVars
<1>. QED
  BY <1>1, <1>2, <1>3, <1>4, <1>5, <1>6, <1>7, <1>8, <1>9 DEF Next, Terminated

\* The engine's state keeps its shape, and no car ever leaves the building.
THEOREM TypeCorrect == Spec => []TypeOK
<1>. QED
  BY InitTypeOK, StepTypeOK, PTL DEF Spec
-----------------------------------------------------------------------------
(* What the phases do to the fleet *)

LEMMA DropoffStep ==
  ASSUME TypeOK, Bookkeeping, Dropoff
  PROVE  \E delivered \in SUBSET Passengers :
           /\ \A p \in Passengers : p \in delivered <=>
                /\ status[p] = "RIDING"
                /\ requests[p].dest = elevators[assigned_elevator[p]].current_floor
           /\ status' = [p \in Passengers |->
                          IF p \in delivered THEN "DELIVERED" ELSE status[p]]
           /\ delivery_time' = [p \in Passengers |->
                                 IF p \in delivered THEN tick ELSE delivery_time[p]]
           /\ \A e \in Elevators :
                /\ elevators'[e].passengers = elevators[e].passengers \ delivered
                /\ elevators'[e].assigned_requests = elevators[e].assigned_requests
                /\ elevators'[e].current_floor = elevators[e].current_floor
                /\ elevators'[e].direction = elevators[e].direction
<1> DEFINE delivered == UNION {Alighting(elevators[e], requests) : e \in Elevators}
<1>1. delivered \in SUBSET Passengers
  BY CarTypes DEF Alighting, TypeOK
<1>2. \A p \in Passengers : status[p] = "RIDING" => assigned_elevator[p] \in Elevators
  BY DEF Bookkeeping, TypeOK
<1>3. ASSUME NEW p \in Passengers
      PROVE  p \in delivered <=>
               /\ status[p] = "RIDING"
               /\ requests[p].dest = elevators[assigned_elevator[p]].current_floor
  <2>1. p \in delivered <=> \E e \in Elevators :
          p \in elevators[e].passengers /\ requests[p].dest = elevators[e].current_floor
    BY DEF Alighting
  <2>. QED
    BY <1>2, <2>1 DEF Bookkeeping
<1>4. ASSUME NEW e \in Elevators
      PROVE  /\ elevators'[e].passengers = elevators[e].passengers \ delivered
             /\ elevators'[e].assigned_requests = elevators[e].assigned_requests
             /\ elevators'[e].current_floor = elevators[e].current_floor
             /\ elevators'[e].direction = elevators[e].direction
  <2>1. elevators'[e] = AfterDropoff(elevators[e], requests)
    BY DEF Dropoff
  <2>2. elevators[e] \in Car(Passengers)
    BY DEF TypeOK
  <2>3. \A p \in elevators[e].passengers :
          p \in Passengers /\ status[p] = "RIDING" /\ assigned_elevator[p] = e
    BY <2>2, CarTypes DEF Bookkeeping
  <2>4. elevators[e].passengers \ delivered
          = {p \in elevators[e].passengers : requests[p].dest # elevators[e].current_floor}
    <3> HIDE DEF delivered
    <3>. QED BY <1>3, <2>3
  <2>. QED
    BY <2>1, <2>2, <2>4, DropoffFields
<1>. QED
  BY <1>1, <1>3, <1>4 DEF Dropoff

LEMMA PickupStep ==
  ASSUME TypeOK, Bookkeeping, Pickup
  PROVE  \E boarding \in SUBSET Passengers :
           /\ \A p \in boarding : /\ status[p] = "ASSIGNED"
                                  /\ assigned_elevator[p] \in Elevators
                                  /\ p \in WaitingHere(assigned_elevator[p])
           /\ \A e \in Elevators : Boards(boarding \cap WaitingHere(e), e)
           /\ status' = [p \in Passengers |->
                          IF p \in boarding THEN "RIDING" ELSE status[p]]
           /\ pickup_time' = [p \in Passengers |->
                               IF p \in boarding THEN tick ELSE pickup_time[p]]
           /\ \A e \in Elevators :
                /\ elevators'[e].passengers
                     = elevators[e].passengers \cup (boarding \cap WaitingHere(e))
                /\ elevators'[e].assigned_requests
                     = elevators[e].assigned_requests \ (boarding \cap WaitingHere(e))
                /\ elevators'[e].current_floor = elevators[e].current_floor
                /\ elevators'[e].direction = elevators[e].direction
<1>1. PICK boarding \in SUBSET UNION {WaitingHere(e) : e \in Elevators} :
        /\ \A e \in Elevators : Boards(boarding \cap WaitingHere(e), e)
        /\ status' = [p \in Passengers |->
                        IF p \in boarding THEN "RIDING" ELSE status[p]]
        /\ pickup_time' = [p \in Passengers |->
                             IF p \in boarding THEN tick ELSE pickup_time[p]]
        /\ elevators' = [e \in Elevators |->
                           AfterPickup(elevators[e], boarding \cap WaitingHere(e))]
  BY DEF Pickup
<1>2. \A e \in Elevators : WaitingHere(e) \subseteq Passengers
  BY CarTypes DEF TypeOK, WaitingHere
<1>3. boarding \in SUBSET Passengers
  BY <1>1, <1>2
<1>4. \A p \in boarding : /\ status[p] = "ASSIGNED"
                          /\ assigned_elevator[p] \in Elevators
                          /\ p \in WaitingHere(assigned_elevator[p])
  BY <1>1, <1>3 DEF WaitingHere, Bookkeeping
<1>5. ASSUME NEW e \in Elevators
      PROVE  /\ elevators'[e].passengers
                  = elevators[e].passengers \cup (boarding \cap WaitingHere(e))
             /\ elevators'[e].assigned_requests
                  = elevators[e].assigned_requests \ (boarding \cap WaitingHere(e))
             /\ elevators'[e].current_floor = elevators[e].current_floor
             /\ elevators'[e].direction = elevators[e].direction
  <2>1. boarding \cap WaitingHere(e) \in SUBSET Passengers
    BY <1>3
  <2>2. elevators[e] \in Car(Passengers)
    BY DEF TypeOK
  <2>3. elevators'[e] = AfterPickup(elevators[e], boarding \cap WaitingHere(e))
    BY <1>1
  <2>. QED
    BY <2>1, <2>2, <2>3, PickupFields
<1>. QED
  BY <1>1, <1>3, <1>4, <1>5

LEMMA MoveStep ==
  ASSUME TypeOK, Move
  PROVE  \E target \in [Elevators -> Floors \cup {None}] : \A e \in Elevators :
           /\ target[e] \in MoveChoices(elevators[e], requests)
           /\ elevators'[e] = AfterMove(elevators[e], target[e])
           /\ elevators'[e].passengers = elevators[e].passengers
           /\ elevators'[e].assigned_requests = elevators[e].assigned_requests
<1>1. PICK target \in [Elevators -> Floors \cup {None}] :
        /\ \A e \in Elevators : target[e] \in MoveChoices(elevators[e], requests)
        /\ elevators' = [e \in Elevators |-> AfterMove(elevators[e], target[e])]
  BY DEF Move
<1>2. \A e \in Elevators :
        /\ elevators'[e].passengers = elevators[e].passengers
        /\ elevators'[e].assigned_requests = elevators[e].assigned_requests
  BY <1>1, MoveFields DEF TypeOK
<1>. QED
  BY <1>1, <1>2

-----------------------------------------------------------------------------
(* Bookkeeping *)

\* Who is on the list of a car is on no other car's.
LEMMA InitBookkeeping == Init => Bookkeeping /\ DispatchQueue
  BY DEF Init, Bookkeeping, DispatchQueue, IdleCar

LEMMA StepBookkeeping ==
  ASSUME TypeOK, Bookkeeping, DispatchQueue, [Next]_vars
  PROVE  Bookkeeping' /\ DispatchQueue'
<1>1. CASE Validate
  BY <1>1 DEF Validate, Bookkeeping, DispatchQueue, Passengers, passengerVars
<1>2. CASE Ingest
  <2>1. \A p \in Passengers : Arriving(p) => status[p] = "ABSENT"
    BY DEF Arriving
  <2>. QED
    BY <1>2, <2>1 DEF Ingest, Bookkeeping, DispatchQueue, TypeOK, Passengers, PassengerStatus
<1>3. CASE Dispatch
  <2>1. PICK p \in unassigned :
          /\ p \in Passengers
          /\ unassigned' = unassigned \ {p}
          /\ LeaveWaiting \/ \E e \in Elevators : e \in Eligible(p) /\ Assign(p, e)
    BY <1>3, DispatchStep
  <2>2. status[p] = "WAITING" /\ phase' = phase /\ requests' = requests
    BY <1>3 DEF DispatchQueue, Dispatch
  <2>3. CASE LeaveWaiting
    BY <2>1, <2>2, <2>3 DEF LeaveWaiting, Bookkeeping, DispatchQueue, Passengers
  <2>4. ASSUME NEW e \in Elevators, Assign(p, e)
        PROVE  Bookkeeping' /\ DispatchQueue'
    <3>1. /\ elevators'[e].passengers = elevators[e].passengers
          /\ elevators'[e].assigned_requests = elevators[e].assigned_requests \cup {p}
          /\ \A x \in Elevators : x # e => elevators'[x] = elevators[x]
      BY <2>1, <2>4, AssignFields DEF Assign, TypeOK
    <3>2. /\ status'[p] = "ASSIGNED" /\ assigned_elevator'[p] = e
          /\ \A q \in Passengers : q # p =>
               status'[q] = status[q] /\ assigned_elevator'[q] = assigned_elevator[q]
      BY <2>1, <2>4 DEF Assign, TypeOK
    <3>3. e # None
      BY FleetAssumption DEF Elevators, None
    <3>4. Passengers' = Passengers
      BY <2>2 DEF Passengers
    <3>5. DispatchQueue'
      BY <2>1, <2>2, <3>2 DEF DispatchQueue, TypeOK
    <3>6. Bookkeeping'
      BY <2>1, <2>2, <3>1, <3>2, <3>3, <3>4 DEF Bookkeeping
    <3>. QED
      BY <3>5, <3>6
  <2>. QED
    BY <2>1, <2>3, <2>4
<1>4. CASE EndDispatch
  BY <1>4 DEF EndDispatch, Bookkeeping, DispatchQueue, Passengers, passengerVars
<1>5. CASE Dropoff
  <2>1. PICK delivered \in SUBSET Passengers :
          /\ \A p \in delivered : status[p] = "RIDING"
          /\ \A p \in Passengers :
               status'[p] = IF p \in delivered THEN "DELIVERED" ELSE status[p]
          /\ \A e \in Elevators :
               /\ elevators'[e].passengers = elevators[e].passengers \ delivered
               /\ elevators'[e].assigned_requests = elevators[e].assigned_requests
    BY <1>5, DropoffStep
  <2>2. Passengers' = Passengers /\ assigned_elevator' = assigned_elevator
    BY <1>5 DEF Dropoff, Passengers
  <2>3. Bookkeeping'
    BY <2>1, <2>2 DEF Bookkeeping
  <2>. QED
    BY <1>5, <2>3 DEF DispatchQueue, Dropoff
<1>6. CASE Pickup
  <2>1. PICK boarding \in SUBSET Passengers :
          /\ \A p \in boarding : /\ status[p] = "ASSIGNED"
                                 /\ p \in WaitingHere(assigned_elevator[p])
          /\ \A p \in Passengers :
               status'[p] = IF p \in boarding THEN "RIDING" ELSE status[p]
          /\ \A e \in Elevators :
               /\ elevators'[e].passengers
                    = elevators[e].passengers \cup (boarding \cap WaitingHere(e))
               /\ elevators'[e].assigned_requests
                    = elevators[e].assigned_requests \ (boarding \cap WaitingHere(e))
    BY <1>6, PickupStep
  <2>2. \A p \in boarding, e \in Elevators :
          p \in WaitingHere(e) <=> assigned_elevator[p] = e
    BY <2>1 DEF WaitingHere, Bookkeeping
  <2>3. Passengers' = Passengers /\ assigned_elevator' = assigned_elevator
    BY <1>6 DEF Pickup, Passengers
  <2>4. ASSUME NEW p \in Passengers, NEW e \in Elevators
        PROVE  /\ p \in elevators'[e].assigned_requests
                    <=> status'[p] = "ASSIGNED" /\ assigned_elevator[p] = e
               /\ p \in elevators'[e].passengers
                    <=> status'[p] = "RIDING" /\ assigned_elevator[p] = e
    BY <2>1, <2>2 DEF Bookkeeping
  <2>5. \A p \in Passengers :
          (assigned_elevator[p] = None) <=> (status'[p] \in {"ABSENT", "WAITING"})
    BY <2>1 DEF Bookkeeping
  <2>6. Bookkeeping'
    BY <2>3, <2>4, <2>5 DEF Bookkeeping
  <2>. QED
    BY <1>6, <2>6 DEF DispatchQueue, Pickup
<1>7. CASE Move
  <2>1. \A e \in Elevators :
          /\ elevators'[e].passengers = elevators[e].passengers
          /\ elevators'[e].assigned_requests = elevators[e].assigned_requests
    BY <1>7, MoveStep
  <2>. QED
    BY <1>7, <2>1 DEF Move, Bookkeeping, DispatchQueue, Passengers, passengerVars
<1>8. CASE Record
  BY <1>8 DEF Record, Bookkeeping, DispatchQueue, Passengers, passengerVars
<1>9. CASE UNCHANGED vars
  BY <1>9 DEF vars, Bookkeeping, DispatchQueue, Passengers, passengerVars
<1>. QED
  BY <1>1, <1>2, <1>3, <1>4, <1>5, <1>6, <1>7, <1>8, <1>9 DEF Next, Terminated

\* No passenger is ever lost or on two cars: the status of each and the lists
\* of the cars agree at every step.
THEOREM BookkeepingHolds == Spec => [](Bookkeeping /\ DispatchQueue)
<1>. QED
  BY InitBookkeeping, StepBookkeeping, TypeCorrect, PTL DEF Spec
-----------------------------------------------------------------------------
(* Capacity *)

LEMMA FinitePassengers ==
  ASSUME TypeOK, NEW S \in SUBSET Passengers
  PROVE  IsFiniteSet(S) /\ Cardinality(S) \in Nat
<1>1. Passengers = 1..Len(requests) /\ Len(requests) \in Nat
  BY DEF Passengers, TypeOK
<1>2. IsFiniteSet(Passengers)
  BY <1>1, FS_Interval
<1>. QED
  BY <1>2, FS_Subset, FS_CardinalityType

LEMMA RidersFinite ==
  ASSUME TypeOK, NEW e \in Elevators
  PROVE  /\ IsFiniteSet(elevators[e].passengers)
         /\ Cardinality(elevators[e].passengers) \in Nat
<1>1. elevators[e].passengers \in SUBSET Passengers
  BY CarTypes DEF TypeOK
<1>. QED
  BY <1>1, FinitePassengers

LEMMA InitCapacity == Init => CapacityRespected
<1>1. Cardinality({}) = 0
  BY FS_EmptySet
<1>2. Init => \A e \in Elevators : elevators[e].passengers = {}
  BY DEF Init, IdleCar
<1>. QED
  BY <1>1, <1>2, CarAssumption DEF CapacityRespected

\* Only PICKUP adds riders, and it admits no more than there is room for.
LEMMA StepCapacity ==
  ASSUME TypeOK, Bookkeeping, CapacityRespected, [Next]_vars
  PROVE  CapacityRespected'
<1>1. CASE Dispatch
  <2>1. \A e \in Elevators : elevators'[e].passengers = elevators[e].passengers
    <3>1. PICK p \in Passengers :
            LeaveWaiting \/ \E e \in Elevators : e \in Eligible(p) /\ Assign(p, e)
      BY <1>1, DispatchStep
    <3>2. CASE LeaveWaiting
      BY <3>2 DEF LeaveWaiting
    <3>3. ASSUME NEW e \in Elevators, Assign(p, e)
          PROVE  <2>1
      <4>1. elevators'[e].passengers = elevators[e].passengers
        BY <3>3, AssignFields DEF Assign, TypeOK
      <4>. QED
        BY <3>3, <4>1 DEF Assign, TypeOK
    <3>. QED
      BY <3>1, <3>2, <3>3
  <2>. QED
    BY <2>1 DEF CapacityRespected
<1>2. CASE Dropoff
  <2>1. PICK delivered \in SUBSET Passengers : \A e \in Elevators :
          elevators'[e].passengers = elevators[e].passengers \ delivered
    BY <1>2, DropoffStep
  <2>2. ASSUME NEW e \in Elevators
        PROVE  Cardinality(elevators'[e].passengers) <= MaxCapacity
    <3>1. /\ Cardinality(elevators'[e].passengers) <= Cardinality(elevators[e].passengers)
          /\ Cardinality(elevators'[e].passengers) \in Nat
      BY <2>1, RidersFinite, FS_Subset, FS_CardinalityType
    <3>. QED
      BY <3>1, RidersFinite, CarAssumption DEF CapacityRespected
  <2>. QED
    BY <2>2 DEF CapacityRespected
<1>3. CASE Pickup
  <2>1. PICK boarding \in SUBSET Passengers : \A e \in Elevators :
          /\ Boards(boarding \cap WaitingHere(e), e)
          /\ elevators'[e].passengers
               = elevators[e].passengers \cup (boarding \cap WaitingHere(e))
    BY <1>3, PickupStep
  <2>2. ASSUME NEW e \in Elevators
        PROVE  Cardinality(elevators'[e].passengers) <= MaxCapacity
    <3> DEFINE riders == elevators[e].passengers
               new == boarding \cap WaitingHere(e)
    <3>1. IsFiniteSet(riders) /\ Cardinality(riders) \in Nat
      BY RidersFinite
    <3>2. IsFiniteSet(new) /\ Cardinality(new) \in Nat
      BY FinitePassengers
    <3>3. new # {} => Cardinality(new) <= MaxCapacity - Cardinality(riders)
      BY <2>1 DEF Boards, Room
    <3>4. elevators'[e].passengers = riders \cup new
      BY <2>1
    <3>5. Cardinality(riders) <= MaxCapacity
      BY DEF CapacityRespected
    <3>6. /\ Cardinality(riders \cup new)
               = Cardinality(riders) + Cardinality(new) - Cardinality(riders \cap new)
          /\ Cardinality(riders \cap new) \in Nat
      BY <3>1, <3>2, FS_Union, FS_Intersection, FS_CardinalityType
    <3> HIDE DEF riders, new
    <3>. QED
      <4>1. CASE new = {}
        BY <3>4, <3>5, <4>1
      <4>2. CASE new # {}
        BY <3>1, <3>2, <3>3, <3>4, <3>6, <4>2, CarAssumption
      <4>. QED
        BY <4>1, <4>2
  <2>. QED
    BY <2>2 DEF CapacityRespected
<1>4. CASE Move
  BY <1>4, MoveStep DEF CapacityRespected
<1>5. CASE Validate \/ Ingest \/ EndDispatch \/ Record \/ UNCHANGED vars
  BY <1>5 DEF Validate, Ingest, EndDispatch, Record, vars, CapacityRespected
<1>. QED
  BY <1>1, <1>2, <1>3, <1>4, <1>5 DEF Next, Terminated

\* A car never carries more riders than it has seats, in any phase of a tick.
THEOREM CapacityHolds == Spec => []CapacityRespected
<1>. QED
  BY InitCapacity, StepCapacity, TypeCorrect, BookkeepingHolds, PTL DEF Spec

-----------------------------------------------------------------------------
(* Validation and service policy *)

LEMMA StepValidated == Validated /\ [Next]_vars => Validated'
<1> SUFFICES ASSUME Validated, [Next]_vars PROVE Validated'
  OBVIOUS
<1>1. requests' = requests
  BY DEF Next, vars, Validate, Ingest, Dispatch, EndDispatch, Dropoff, Pickup, Move,
         Record, Terminated
<1>2. CASE Validate
  BY <1>1, <1>2 DEF Validate, Validated, Passengers, ValidRequest, passengerVars
<1>3. CASE UNCHANGED vars
  BY <1>1, <1>3 DEF vars, Validated, Passengers, ValidRequest, passengerVars
<1>4. CASE ~Validate /\ ~UNCHANGED vars
  <2>1. /\ phase \notin {"START", "INVALID_REQUEST"}
        /\ phase' \notin {"START", "INVALID_REQUEST"}
    BY <1>4 DEF Next, Ingest, Dispatch, EndDispatch, Dropoff, Pickup, Move, Record,
                Terminated
  <2>. QED
    BY <1>1, <2>1 DEF Validated, Passengers, ValidRequest
<1>. QED
  BY <1>2, <1>3, <1>4

LEMMA ValidatedHolds == Spec => []Validated
<1>1. Init => Validated
  BY DEF Init, Validated
<1>. QED
  BY <1>1, StepValidated, PTL DEF Spec

\* Only an assignment gives a car new stops, and it is filtered by the policy.
LEMMA StepPolicy ==
  ASSUME TypeOK, Bookkeeping, PolicyRespected, [Next]_vars
  PROVE  PolicyRespected'
<1>1. requests' = requests
  BY DEF Next, vars, Validate, Ingest, Dispatch, EndDispatch, Dropoff, Pickup,
              Move, Record, Terminated
<1>2. CASE Dispatch
  <2>1. PICK p \in Passengers :
          LeaveWaiting \/ \E e \in Elevators : e \in Eligible(p) /\ Assign(p, e)
    BY <1>2, DispatchStep
  <2>2. CASE LeaveWaiting
    BY <1>1, <2>2 DEF LeaveWaiting, PolicyRespected
  <2>3. ASSUME NEW e \in Elevators, e \in Eligible(p), Assign(p, e)
        PROVE  PolicyRespected'
    <3>1. /\ elevators'[e].passengers = elevators[e].passengers
          /\ elevators'[e].assigned_requests = elevators[e].assigned_requests \cup {p}
      BY <2>3, AssignFields DEF Assign, TypeOK
    <3>2. \A x \in Elevators : x # e => elevators'[x] = elevators[x]
      BY <2>3 DEF Assign, TypeOK
    <3>3. {requests[p].source, requests[p].dest} \subseteq ServedFloors(e)
      BY <2>3 DEF Eligible
    <3>. QED
      BY <1>1, <3>1, <3>2, <3>3 DEF PolicyRespected
  <2>. QED
    BY <2>1, <2>2, <2>3
<1>3. CASE Dropoff
  BY <1>1, <1>3, DropoffStep DEF PolicyRespected
<1>4. CASE Pickup
  <2>1. \A e \in Elevators : WaitingHere(e) \subseteq elevators[e].assigned_requests
    BY DEF WaitingHere
  <2>. QED
    BY <1>1, <1>4, <2>1, PickupStep DEF PolicyRespected
<1>5. CASE Move
  BY <1>1, <1>5, MoveStep DEF PolicyRespected
<1>6. CASE Validate \/ Ingest \/ EndDispatch \/ Record \/ UNCHANGED vars
  BY <1>1, <1>6
     DEF Validate, Ingest, EndDispatch, Record, vars, PolicyRespected
<1>. QED
  BY <1>2, <1>3, <1>4, <1>5, <1>6 DEF Next, Terminated

\* A car only ever owes stops at floors its policy serves: what
\* service_policy_respected() checks cannot fail, wherever it is called.
THEOREM PolicyHolds == Spec => []PolicyRespected
<1>1. Init => PolicyRespected
  BY DEF Init, PolicyRespected, IdleCar
<1>. QED
  BY <1>1, StepPolicy, TypeCorrect, BookkeepingHolds, PTL DEF Spec

-----------------------------------------------------------------------------
(* What a passenger is asked about *)

LEMMA ConstantRequests ==
  [Next]_vars => requests' = requests /\ Passengers' = Passengers
  BY DEF Next, vars, Validate, Ingest, Dispatch, EndDispatch, Dropoff, Pickup, Move,
         Record, Terminated, Passengers

\* A turn of the dispatch loop moves no car and touches nobody on board.
LEMMA DispatchKeeps ==
  ASSUME TypeOK, DispatchQueue, Dispatch
  PROVE  /\ \A e \in Elevators :
              /\ elevators'[e].current_floor = elevators[e].current_floor
              /\ elevators'[e].direction = elevators[e].direction
              /\ elevators'[e].passengers = elevators[e].passengers
         /\ \A p \in Passengers :
              \/ /\ status'[p] = status[p]
                 /\ assigned_elevator'[p] = assigned_elevator[p]
                 /\ assigned_time'[p] = assigned_time[p]
              \/ /\ status[p] = "WAITING" /\ status'[p] = "ASSIGNED"
                 /\ assigned_time'[p] = tick
         /\ UNCHANGED <<requests, tick, phase, pickup_time, delivery_time>>
<1>1. PICK p \in unassigned :
        /\ p \in Passengers
        /\ LeaveWaiting \/ \E e \in Elevators : e \in Eligible(p) /\ Assign(p, e)
  BY DispatchStep
<1>2. UNCHANGED <<requests, tick, phase, pickup_time, delivery_time>>
  BY DEF Dispatch
<1>3. CASE LeaveWaiting
  BY <1>2, <1>3 DEF LeaveWaiting
<1>4. ASSUME NEW e \in Elevators, Assign(p, e)
      PROVE  /\ \A x \in Elevators :
                  /\ elevators'[x].current_floor = elevators[x].current_floor
                  /\ elevators'[x].direction = elevators[x].direction
                  /\ elevators'[x].passengers = elevators[x].passengers
             /\ \A q \in Passengers :
                  \/ /\ status'[q] = status[q]
                     /\ assigned_elevator'[q] = assigned_elevator[q]
                     /\ assigned_time'[q] = assigned_time[q]
                  \/ /\ status[q] = "WAITING" /\ status'[q] = "ASSIGNED"
                     /\ assigned_time'[q] = tick
  <2>1. /\ elevators'[e].current_floor = elevators[e].current_floor
        /\ elevators'[e].direction = elevators[e].direction
        /\ elevators'[e].passengers = elevators[e].passengers
    BY <1>1, <1>4, AssignFields DEF Assign, TypeOK
  <2>2. \A x \in Elevators : x # e => elevators'[x] = elevators[x]
    BY <1>4 DEF Assign, TypeOK
  <2>3. status[p] = "WAITING" /\ status'[p] = "ASSIGNED" /\ assigned_time'[p] = tick
    BY <1>1, <1>4 DEF Assign, TypeOK, DispatchQueue
  <2>4. \A q \in Passengers : q # p =>
          /\ status'[q] = status[q]
          /\ assigned_elevator'[q] = assigned_elevator[q]
          /\ assigned_time'[q] = assigned_time[q]
    BY <1>4 DEF Assign, TypeOK
  <2>. QED
    BY <2>1, <2>2, <2>3, <2>4
<1>. QED
  BY <1>1, <1>2, <1>3, <1>4

-----------------------------------------------------------------------------
(* No stop is missed *)

LEMMA StepStopCleared ==
  ASSUME TypeOK, Bookkeeping, [Next]_vars, StopCleared
  PROVE  StopCleared'
<1>1. CASE Dropoff
  <2>1. PICK delivered \in SUBSET Passengers :
          /\ \A p \in Passengers : p \in delivered <=>
               /\ status[p] = "RIDING"
               /\ requests[p].dest = elevators[assigned_elevator[p]].current_floor
          /\ \A p \in Passengers :
               status'[p] = IF p \in delivered THEN "DELIVERED" ELSE status[p]
          /\ \A e \in Elevators :
               elevators'[e].current_floor = elevators[e].current_floor
    BY <1>1, DropoffStep
  <2>2. /\ assigned_elevator' = assigned_elevator
        /\ requests' = requests /\ Passengers' = Passengers
    BY <1>1 DEF Dropoff, Passengers
  <2>3. \A p \in Passengers : status[p] = "RIDING" => assigned_elevator[p] \in Elevators
    BY DEF Bookkeeping, TypeOK
  <2>. QED
    BY <2>1, <2>2, <2>3 DEF StopCleared
<1>2. CASE ~Dropoff /\ ~UNCHANGED vars
  <2>1. phase' # "PICKUP"
    BY <1>2 DEF Next, vars, Validate, Ingest, Dispatch, EndDispatch, Pickup, Move, Record,
                Terminated
  <2>. QED
    BY <2>1 DEF StopCleared
<1>3. CASE UNCHANGED vars
  BY <1>3 DEF vars, passengerVars, StopCleared, Passengers
<1>. QED
  BY <1>1, <1>2, <1>3

LEMMA StopClearedHolds == Spec => []StopCleared
<1>1. Init => StopCleared
  BY DEF Init, StopCleared
<1>. QED
  BY <1>1, StepStopCleared, TypeCorrect, BookkeepingHolds, PTL DEF Spec

\* Who stays behind at PICKUP stays behind a full car.
LEMMA LeftBehindByFullCar ==
  ASSUME TypeOK, Bookkeeping, Pickup, NEW e \in Elevators,
         NEW p \in elevators'[e].assigned_requests,
         requests[p].source = elevators[e].current_floor
  PROVE  IsFull(elevators'[e])
<1>1. PICK boarding \in SUBSET Passengers : \A x \in Elevators :
        /\ Boards(boarding \cap WaitingHere(x), x)
        /\ elevators'[x].passengers
             = elevators[x].passengers \cup (boarding \cap WaitingHere(x))
        /\ elevators'[x].assigned_requests
             = elevators[x].assigned_requests \ (boarding \cap WaitingHere(x))
  BY PickupStep, SMTT(30)
<1> DEFINE riders == elevators[e].passengers
           new == boarding \cap WaitingHere(e)
<1>2. p \in elevators[e].assigned_requests /\ p \in Passengers /\ p \notin new
  <2>1. elevators'[e].assigned_requests = elevators[e].assigned_requests \ new
    BY <1>1
  <2>2. elevators[e].assigned_requests \subseteq Passengers
    BY CarTypes DEF TypeOK
  <2>. QED
    BY <2>1, <2>2
<1>3. p \in WaitingHere(e)
  BY <1>2 DEF WaitingHere, Bookkeeping
<1>4. Cardinality(new) >= MaxCapacity - Cardinality(riders)
  BY <1>1, <1>2, <1>3 DEF Boards, Room
<1>5. riders \cap new = {}
  <2>1. \A q \in new : status[q] = "ASSIGNED" /\ q \in Passengers
    BY DEF WaitingHere
  <2>2. \A q \in riders : q \in Passengers => status[q] = "RIDING"
    BY DEF Bookkeeping
  <2>. QED
    BY <2>1, <2>2
<1>6. /\ IsFiniteSet(riders) /\ Cardinality(riders) \in Nat
      /\ IsFiniteSet(new) /\ Cardinality(new) \in Nat
  BY RidersFinite, FinitePassengers
<1>7. elevators'[e].passengers = riders \cup new
  BY <1>1
<1> HIDE DEF riders, new
<1>8. Cardinality(riders \cup new) = Cardinality(riders) + Cardinality(new)
  <2>1. Cardinality(riders \cap new) = 0
    BY <1>5, FS_EmptySet
  <2>2. Cardinality(riders \cup new)
          = Cardinality(riders) + Cardinality(new) - Cardinality(riders \cap new)
    BY <1>6, FS_Union
  <2>. QED
    BY <1>6, <2>1, <2>2
<1>. QED
  BY <1>4, <1>6, <1>7, <1>8, CarAssumption DEF IsFull

LEMMA StepNothingLeft ==
  ASSUME TypeOK, Bookkeeping, Validated, StopCleared, NothingLeftToDoHere, [Next]_vars
  PROVE  NothingLeftToDoHere'
<1>1. CASE Pickup
  <2>1. PICK boarding \in SUBSET Passengers :
          /\ \A e \in Elevators :
               /\ elevators'[e].passengers
                    = elevators[e].passengers \cup (boarding \cap WaitingHere(e))
               /\ elevators'[e].current_floor = elevators[e].current_floor
    BY <1>1, PickupStep
  <2>2. requests' = requests /\ phase = "PICKUP"
    BY <1>1 DEF Pickup
  <2>3. ASSUME NEW e \in Elevators
        PROVE  elevators'[e].current_floor \notin TargetFloors(elevators'[e], requests)
    <3>1. ASSUME NEW p \in elevators'[e].passengers
          PROVE  requests[p].dest # elevators[e].current_floor
      <4>1. CASE p \in elevators[e].passengers
        <5>1. p \in Passengers
          BY <4>1, CarTypes DEF TypeOK
        <5>. QED
          BY <2>2, <4>1, <5>1 DEF Bookkeeping, StopCleared
      <4>2. CASE p \in boarding \cap WaitingHere(e)
        <5>1. requests[p].source = elevators[e].current_floor /\ p \in Passengers
          BY <4>2 DEF WaitingHere
        <5>2. requests[p].source # requests[p].dest
          BY <2>2, <5>1 DEF Validated, ValidRequest
        <5>. QED
          BY <5>1, <5>2
      <4>. QED
        BY <2>1, <3>1, <4>1, <4>2
    <3>2. \A p \in elevators'[e].assigned_requests :
            requests[p].source = elevators[e].current_floor => IsFull(elevators'[e])
      BY <1>1, LeftBehindByFullCar
    <3>. QED
      BY <2>1, <3>1, <3>2 DEF TargetFloors
  <2>. QED
    BY <2>2, <2>3 DEF NothingLeftToDoHere
<1>2. CASE ~Pickup /\ ~UNCHANGED vars
  <2>1. phase' # "MOVE"
    BY <1>2 DEF Next, vars, Validate, Ingest, Dispatch, EndDispatch, Dropoff, Move, Record,
                Terminated
  <2>. QED
    BY <2>1 DEF NothingLeftToDoHere
<1>3. CASE UNCHANGED vars
  BY <1>3 DEF vars, NothingLeftToDoHere
<1>. QED
  BY <1>1, <1>2, <1>3

\* A car that is about to move has no stop left to make where it stands.
THEOREM NothingLeftHolds == Spec => []NothingLeftToDoHere
<1>1. Init => NothingLeftToDoHere
  BY DEF Init, NothingLeftToDoHere
<1>. QED
  BY <1>1, StepNothingLeft, TypeCorrect, BookkeepingHolds, ValidatedHolds,
     StopClearedHolds, PTL DEF Spec
-----------------------------------------------------------------------------
(* SCAN *)

LEMMA TargetsInBuilding ==
  ASSUME TypeOK, Validated, phase = "MOVE", NEW e \in Elevators
  PROVE  TargetFloors(elevators[e], requests) \in SUBSET Floors
<1>1. /\ elevators[e].passengers \subseteq Passengers
      /\ elevators[e].assigned_requests \subseteq Passengers
  BY CarTypes DEF TypeOK
<1>2. \A p \in Passengers : requests[p].source \in Floors /\ requests[p].dest \in Floors
  BY DEF Validated, ValidRequest
<1>. QED
  BY <1>1, <1>2 DEF TargetFloors

\* SCAN goes to a stop ahead as long as there is one.
LEMMA ScanHeading ==
  ASSUME NEW P, NEW car \in Car(P), NEW T \in SUBSET Floors, car.current_floor \notin T,
         NEW target \in NextTargets(car, T)
  PROVE  /\ target \in T /\ target # None
         /\ \/ /\ target > car.current_floor
               /\ AfterMove(car, target).direction = "UP"
               /\ AfterMove(car, target).current_floor = car.current_floor + 1
            \/ /\ target < car.current_floor
               /\ AfterMove(car, target).direction = "DOWN"
               /\ AfterMove(car, target).current_floor = car.current_floor - 1
         /\ \A t \in T :
              /\ t # car.current_floor
              /\ car.direction = "UP" /\ t > car.current_floor => target > car.current_floor
              /\ car.direction = "DOWN" /\ t < car.current_floor => target < car.current_floor
<1> DEFINE f == car.current_floor
           d == car.direction
           after == AfterMove(car, target)
<1>1. target \in T /\ target \in Floors /\ f \in Floors
  BY CarTypes DEF NextTargets, Nearest, Ahead
<1>2. target # f
  BY <1>1
<1>3. ASSUME NEW t \in T, d = "UP", t > f PROVE target > f
  <2>1. t \in Ahead(f, d, T)
    BY <1>1, <1>3, CarAssumption DEF Ahead, Floors
  <2>2. target \in Ahead(f, d, T)
    BY <2>1 DEF NextTargets, Nearest
  <2>. QED
    BY <1>1, <1>2, <1>3, <2>2, CarAssumption DEF Ahead, Floors
<1>4. ASSUME NEW t \in T, d = "DOWN", t < f PROVE target < f
  <2>1. t \in Ahead(f, d, T)
    BY <1>1, <1>4, CarAssumption DEF Ahead, Floors
  <2>2. target \in Ahead(f, d, T)
    BY <2>1 DEF NextTargets, Nearest
  <2>. QED
    BY <1>1, <1>2, <1>4, <2>2, CarAssumption DEF Ahead, Floors
<1>5. target # None
  BY <1>1, CarAssumption DEF Floors, None
<1>6. \/ target > f /\ after.direction = "UP" /\ after.current_floor = f + 1
      \/ target < f /\ after.direction = "DOWN" /\ after.current_floor = f - 1
  <2>1. target \in Floors \cup {None}
    BY <1>1
  <2>2. /\ target > f => after.direction = "UP" /\ after.current_floor = f + 1
        /\ target < f => after.direction = "DOWN" /\ after.current_floor = f - 1
    BY <1>5, <2>1, MoveFields
  <2>3. target > f \/ target < f
    BY <1>1, <1>2, CarAssumption DEF Floors
  <2>. QED
    BY <2>2, <2>3
<1>7. \A t \in T : t # f
  OBVIOUS
<1> HIDE DEF f, d, after
<1>. QED
  BY <1>1, <1>3, <1>4, <1>5, <1>6, <1>7 DEF f, d, after

\* Of the stops a car has, SCAN goes to one of them, and every other comes one
\* move nearer: it is never more than a sweep to the end and back away.
LEMMA ScanProgress ==
  ASSUME NEW P, NEW car \in Car(P), NEW T \in SUBSET Floors, car.current_floor \notin T,
         NEW t \in T, NEW target \in NextTargets(car, T)
  PROVE  /\ target \in T
         /\ AfterMove(car, target).direction # "IDLE"
         /\ AfterMove(car, target).current_floor
              \in {car.current_floor - 1, car.current_floor + 1}
         /\ MovesToReach(AfterMove(car, target), t) <= 2 * NumFloors - 4
         /\ car.direction # "IDLE" =>
              MovesToReach(AfterMove(car, target), t) <= MovesToReach(car, t) - 1
<1> DEFINE f == car.current_floor
           d == car.direction
           after == AfterMove(car, target)
<1>1. target \in T /\ t # f
  BY ScanHeading
<1>2. \/ target > f /\ after.direction = "UP" /\ after.current_floor = f + 1
      \/ target < f /\ after.direction = "DOWN" /\ after.current_floor = f - 1
  BY ScanHeading
<1>3. d = "UP" /\ t > f => target > f
  BY ScanHeading
<1>4. d = "DOWN" /\ t < f => target < f
  BY ScanHeading
<1>5. /\ NumFloors \in Nat /\ NumFloors >= 2
      /\ f \in Nat /\ t \in Nat /\ target \in Nat
      /\ 1 <= f /\ f <= NumFloors /\ 1 <= t /\ t <= NumFloors
      /\ 1 <= target /\ target <= NumFloors
  BY <1>1, CarTypes, CarAssumption DEF Floors
<1>6. d \in {"UP", "DOWN", "IDLE"}
  BY CarTypes DEF Direction
<1> HIDE DEF f, d, after
<1>7. MovesToReach(after, t) <= 2 * NumFloors - 4
  BY <1>1, <1>2, <1>5 DEF MovesToReach
<1>8. d # "IDLE" => MovesToReach(after, t) <= MovesToReach(car, t) - 1
  BY <1>1, <1>2, <1>3, <1>4, <1>5, <1>6 DEF MovesToReach, f, d
<1>. QED
  BY <1>1, <1>2, <1>7, <1>8 DEF f, d, after

LEMMA MovesToPassType ==
  ASSUME NEW P, NEW car \in Car(P), NEW s \in Floors
  PROVE  MovesToPass(car, s) \in Nat
  BY CarTypes, CarAssumption DEF MovesToPass, Round, Floors, Direction

\* The car comes by the floor on a move, and goes past it.
PassesBy(car, target, s) ==
  \/ /\ car.direction = "UP" /\ target > car.current_floor /\ s = car.current_floor
  \/ /\ car.direction = "UP" /\ target < car.current_floor /\ s >= car.current_floor
  \/ /\ car.direction = "DOWN" /\ target > car.current_floor /\ s <= car.current_floor

\* Every move brings the car nearer to where it comes by a floor the next time,
\* and lets it leave none of its stops behind for the round after; but when it
\* comes by, it has no stop there, and can make all stops it has by the next time.
LEMMA ScanPasses ==
  ASSUME NEW P, NEW car \in Car(P), NEW T \in SUBSET Floors, car.current_floor \notin T,
         NEW target \in NextTargets(car, T), NEW s \in Floors
  PROVE  LET after == AfterMove(car, target)
         IN  /\ target # None
             /\ after.direction # "IDLE"
             /\ MovesToPass(after, s) <= Round - 1
             /\ car.direction # "IDLE" /\ ~PassesBy(car, target, s) =>
                  /\ MovesToPass(after, s) <= MovesToPass(car, s) - 1
                  /\ \A t \in T : MovesToReach(car, t) <= MovesToPass(car, s) =>
                                    MovesToReach(after, t) <= MovesToPass(after, s)
             /\ PassesBy(car, target, s) =>
                  /\ s \notin T
                  /\ \A t \in T : /\ ~(MovesToReach(car, t) <= MovesToPass(car, s))
                                  /\ MovesToReach(after, t) <= MovesToPass(after, s)
<1> DEFINE f == car.current_floor
           d == car.direction
           after == AfterMove(car, target)
<1>1. target \in T /\ target # None /\ \A t \in T : t # f
  BY ScanHeading
<1>2. \/ target > f /\ after.direction = "UP" /\ after.current_floor = f + 1
      \/ target < f /\ after.direction = "DOWN" /\ after.current_floor = f - 1
  BY ScanHeading
<1>3. \A t \in T : (d = "UP" /\ t > f => target > f) /\ (d = "DOWN" /\ t < f => target < f)
  BY ScanHeading
<1>4. /\ NumFloors \in Nat /\ NumFloors >= 2
      /\ f \in Nat /\ target \in Nat /\ s \in Nat
      /\ 1 <= f /\ f <= NumFloors /\ 1 <= s /\ s <= NumFloors
      /\ 1 <= target /\ target <= NumFloors
  BY <1>1, CarTypes, CarAssumption DEF Floors
<1>5. \A t \in T : t \in Nat /\ 1 <= t /\ t <= NumFloors
  BY <1>4 DEF Floors
<1>6. d \in {"UP", "DOWN", "IDLE"}
  BY CarTypes DEF Direction
<1> HIDE DEF f, d, after
<1>7. MovesToPass(after, s) <= Round - 1
  BY <1>2, <1>4 DEF MovesToPass, Round
<1>8. ASSUME d # "IDLE", ~PassesBy(car, target, s)
      PROVE  /\ MovesToPass(after, s) <= MovesToPass(car, s) - 1
             /\ \A t \in T : MovesToReach(car, t) <= MovesToPass(car, s) =>
                                MovesToReach(after, t) <= MovesToPass(after, s)
  <2>1. MovesToPass(after, s) <= MovesToPass(car, s) - 1
    BY <1>2, <1>4, <1>6, <1>8 DEF MovesToPass, Round, PassesBy, f, d
  <2>2. ASSUME NEW t \in T, MovesToReach(car, t) <= MovesToPass(car, s)
        PROVE  MovesToReach(after, t) <= MovesToPass(after, s)
    <3>1. /\ t # f /\ t \in Nat /\ 1 <= t /\ t <= NumFloors
          /\ (d = "UP" /\ t > f => target > f) /\ (d = "DOWN" /\ t < f => target < f)
      BY <1>1, <1>3, <1>5
    <3>2. CASE d = "UP" /\ target > f
      BY <1>2, <1>4, <1>8, <2>2, <3>1, <3>2 DEF MovesToPass, MovesToReach, Round, PassesBy, f, d
    <3>3. CASE d = "UP" /\ target < f
      BY <1>2, <1>4, <1>8, <2>2, <3>1, <3>3 DEF MovesToPass, MovesToReach, Round, PassesBy, f, d
    <3>4. CASE d = "DOWN" /\ target > f
      BY <1>2, <1>4, <1>8, <2>2, <3>1, <3>4 DEF MovesToPass, MovesToReach, Round, PassesBy, f, d
    <3>5. CASE d = "DOWN" /\ target < f
      BY <1>2, <1>4, <1>8, <2>2, <3>1, <3>5 DEF MovesToPass, MovesToReach, Round, PassesBy, f, d
    <3>. QED
      BY <1>2, <1>6, <1>8, <3>2, <3>3, <3>4, <3>5
  <2>. QED
    BY <2>1, <2>2
<1>9. ASSUME PassesBy(car, target, s)
      PROVE  /\ s \notin T
             /\ \A t \in T : /\ ~(MovesToReach(car, t) <= MovesToPass(car, s))
                             /\ MovesToReach(after, t) <= MovesToPass(after, s)
  <2>1. s \notin T
    BY <1>1, <1>3, <1>4, <1>9 DEF PassesBy, f, d
  <2>2. ASSUME NEW t \in T
        PROVE  /\ ~(MovesToReach(car, t) <= MovesToPass(car, s))
               /\ MovesToReach(after, t) <= MovesToPass(after, s)
    <3>1. /\ t # f /\ t \in Nat /\ 1 <= t /\ t <= NumFloors
          /\ (d = "UP" /\ t > f => target > f) /\ (d = "DOWN" /\ t < f => target < f)
      BY <1>1, <1>3, <1>5
    <3>2. ~(MovesToReach(car, t) <= MovesToPass(car, s))
      BY <1>4, <1>9, <3>1 DEF MovesToPass, MovesToReach, Round, PassesBy, f, d
    <3>3. MovesToReach(after, t) <= MovesToPass(after, s)
      BY <1>2, <1>4, <1>9, <3>1 DEF MovesToPass, MovesToReach, Round, PassesBy, f, d
    <3>. QED
      BY <3>2, <3>3
  <2>. QED
    BY <2>1, <2>2
<1>10. after.direction # "IDLE"
  BY <1>2
<1>. QED
  BY <1>1, <1>7, <1>8, <1>9, <1>10 DEF f, d, after

\* What a car with work does in the MOVE phase.
LEMMA WorkingCarMoves ==
  ASSUME TypeOK, Validated, NothingLeftToDoHere, Move, NEW e \in Elevators,
         NEW t \in TargetFloors(elevators[e], requests)
  PROVE  /\ elevators'[e].direction # "IDLE"
         /\ elevators'[e].current_floor
              \in {elevators[e].current_floor - 1, elevators[e].current_floor + 1}
         /\ MovesToReach(elevators'[e], t) <= 2 * NumFloors - 4
         /\ elevators[e].direction # "IDLE" =>
              MovesToReach(elevators'[e], t) <= MovesToReach(elevators[e], t) - 1
<1> DEFINE T == TargetFloors(elevators[e], requests)
<1>1. phase = "MOVE"
  BY DEF Move
<1>2. T \in SUBSET Floors /\ elevators[e].current_floor \notin T
  BY <1>1, TargetsInBuilding DEF NothingLeftToDoHere
<1>3. PICK target \in [Elevators -> Floors \cup {None}] :
        /\ target[e] \in MoveChoices(elevators[e], requests)
        /\ elevators'[e] = AfterMove(elevators[e], target[e])
  BY MoveStep
<1>4. target[e] \in NextTargets(elevators[e], T)
  BY <1>3 DEF MoveChoices
<1>5. elevators[e] \in Car(Passengers)
  BY DEF TypeOK
<1>. QED
  BY <1>2, <1>3, <1>4, <1>5, ScanProgress

LEMMA StepIdleIsDone ==
  ASSUME TypeOK, Validated, NothingLeftToDoHere, IdleIsDone, [Next]_vars
  PROVE  IdleIsDone'
<1> DEFINE idle(car) == car.direction = "IDLE"
           done(car) == car.passengers = {} /\ car.assigned_requests = {}
<1>1. CASE Move
  <2>1. ASSUME NEW e \in Elevators
        PROVE  idle(elevators'[e]) <=> done(elevators'[e])
    <3> DEFINE T == TargetFloors(elevators[e], requests)
    <3>1. PICK target \in [Elevators -> Floors \cup {None}] :
            /\ target[e] \in MoveChoices(elevators[e], requests)
            /\ elevators'[e] = AfterMove(elevators[e], target[e])
            /\ elevators'[e].passengers = elevators[e].passengers
            /\ elevators'[e].assigned_requests = elevators[e].assigned_requests
      BY <1>1, MoveStep
    <3>2. CASE T = {}
      <4>1. idle(elevators'[e])
        BY <3>1, <3>2, MoveFields DEF MoveChoices, TypeOK
      <4>2. elevators[e].passengers = {}
        <5>1. \A p \in elevators[e].passengers : requests[p].dest \in T
          BY DEF TargetFloors
        <5> HIDE DEF T
        <5>. QED
          BY <3>2, <5>1
      <4>3. ~IsFull(elevators[e])
        BY <4>2, FS_EmptySet, CarAssumption DEF IsFull
      <4>4. elevators[e].assigned_requests = {}
        BY <3>2, <4>3 DEF TargetFloors
      <4>. QED
        BY <3>1, <4>1, <4>2, <4>4
    <3>3. CASE T # {}
      <4>1. PICK t \in T : TRUE
        BY <3>3
      <4>2. ~idle(elevators'[e])
        BY <1>1, <4>1, WorkingCarMoves
      <4>3. ~done(elevators[e])
        BY <3>3 DEF TargetFloors
      <4>. QED
        BY <3>1, <4>2, <4>3
    <3>. QED
      BY <3>2, <3>3
  <2>. QED
    BY <2>1 DEF IdleIsDone
<1>2. CASE Validate \/ Record \/ Terminated \/ UNCHANGED vars
  BY <1>2 DEF Validate, Record, Terminated, vars, IdleIsDone
<1>3. CASE Ingest \/ Dispatch \/ EndDispatch \/ Dropoff \/ Pickup
  BY <1>3 DEF Ingest, Dispatch, EndDispatch, Dropoff, Pickup, IdleIsDone, Ended
<1>. QED
  BY <1>1, <1>2, <1>3 DEF Next

\* After every tick a car is IDLE exactly if it carries nobody and owes nobody
\* a pickup: no passenger is stranded with a sleeping car.
THEOREM IdleHolds == Spec => []IdleIsDone
<1>1. Init => IdleIsDone
  BY DEF Init, IdleIsDone, IdleCar
<1>. QED
  BY <1>1, StepIdleIsDone, TypeCorrect, ValidatedHolds, NothingLeftHolds, PTL DEF Spec
-----------------------------------------------------------------------------
(* Every ride is bounded *)

LEMMA MovesToReachType ==
  ASSUME NEW P, NEW car \in Car(P), NEW t \in Floors
  PROVE  MovesToReach(car, t) \in Nat
  BY CarTypes, CarAssumption DEF MovesToReach, Floors, Direction

LEMMA RiderFacts ==
  ASSUME TypeOK, Bookkeeping, NEW p \in Passengers, status[p] = "RIDING"
  PROVE  /\ assigned_elevator[p] \in Elevators
         /\ p \in elevators[assigned_elevator[p]].passengers
         /\ elevators[assigned_elevator[p]] \in Car(Passengers)
         /\ elevators[assigned_elevator[p]].current_floor \in Int
         /\ tick \in Int /\ pickup_time[p] \in Int
<1>1. assigned_elevator[p] \in Elevators /\ p \in elevators[assigned_elevator[p]].passengers
  BY DEF Bookkeeping, TypeOK
<1>2. elevators[assigned_elevator[p]] \in Car(Passengers)
  BY <1>1 DEF TypeOK
<1>3. elevators[assigned_elevator[p]].current_floor \in Int
  BY <1>2, CarTypes, CarAssumption DEF Floors
<1>4. tick \in Int /\ pickup_time[p] \in Int
  BY DEF TypeOK, None
<1>. QED
  BY <1>1, <1>2, <1>3, <1>4

\* Where car, ticks and phase stay as they are for a rider, so does the ride.
LEMMA RideUndisturbed ==
  ASSUME TypeOK, Bookkeeping, requests' = requests, tick' = tick,
         NEW p \in Passengers, status[p] = "RIDING", RideOnTrack(p),
         assigned_elevator'[p] = assigned_elevator[p], pickup_time'[p] = pickup_time[p],
         elevators'[assigned_elevator[p]].current_floor
           = elevators[assigned_elevator[p]].current_floor,
         elevators'[assigned_elevator[p]].direction
           = elevators[assigned_elevator[p]].direction,
         phase \notin {"MOVE", "RECORD"}, phase' # "RECORD"
  PROVE  RideOnTrack(p)'
  BY RiderFacts DEF RideOnTrack, MovesToReach

LEMMA MoveRide ==
  ASSUME TypeOK, Bookkeeping, Validated, NothingLeftToDoHere, Move,
         NEW p \in Passengers, status[p] = "RIDING", RideOnTrack(p)
  PROVE  RideOnTrack(p)'
<1> DEFINE e == assigned_elevator[p]
           t == requests[p].dest
           ride == tick - pickup_time[p]
<1>1. /\ e \in Elevators /\ p \in elevators[e].passengers
      /\ elevators[e] \in Car(Passengers) /\ elevators[e].current_floor \in Int
      /\ tick \in Int /\ pickup_time[p] \in Int
  BY RiderFacts
<1>2. phase = "MOVE" /\ phase' = "RECORD"
      /\ UNCHANGED <<requests, tick, assigned_elevator, pickup_time>>
  BY DEF Move, passengerVars
<1>3. /\ t \in Floors /\ t \in TargetFloors(elevators[e], requests)
      /\ requests[p].source \in Int
  BY <1>1, <1>2, CarAssumption DEF Validated, ValidRequest, TargetFloors, Floors
<1>4. /\ elevators'[e].direction # "IDLE"
      /\ elevators'[e].current_floor
           \in {elevators[e].current_floor - 1, elevators[e].current_floor + 1}
      /\ MovesToReach(elevators'[e], t) <= 2 * NumFloors - 4
      /\ elevators[e].direction # "IDLE" =>
           MovesToReach(elevators'[e], t) <= MovesToReach(elevators[e], t) - 1
  BY <1>1, <1>3, WorkingCarMoves
<1>5. MovesToReach(elevators[e], t) \in Int /\ MovesToReach(elevators'[e], t) \in Int
  <2>1. elevators'[e] \in Car(Passengers)
    BY <1>1, MoveStep, MoveFields
  <2>. QED
    BY <1>1, <1>3, <2>1, MovesToReachType
<1>6. /\ \/ ride = 0 /\ elevators[e].current_floor = requests[p].source
         \/ /\ ride >= 1 /\ elevators[e].direction # "IDLE"
            /\ ride + MovesToReach(elevators[e], t) <= 2 * NumFloors - 3
      /\ Abs(elevators[e].current_floor - requests[p].source) <= ride
  BY <1>1, <1>2 DEF RideOnTrack
<1>7. ride + 1 >= 1 /\ ride + 1 + MovesToReach(elevators'[e], t) <= 2 * NumFloors - 3
  <2> HIDE DEF t, e
  <2>. QED BY <1>1, <1>4, <1>5, <1>6, CarAssumption
<1>8. Abs(elevators'[e].current_floor - requests[p].source) <= ride + 1
  BY <1>1, <1>3, <1>4, <1>6 DEF Abs
<1>. QED
  BY <1>1, <1>2, <1>4, <1>7, <1>8 DEF RideOnTrack
LEMMA StepRideProgress ==
  ASSUME TypeOK, Bookkeeping, DispatchQueue, Validated, NothingLeftToDoHere, RideProgress,
         [Next]_vars
  PROVE  RideProgress'
<1> SUFFICES ASSUME NEW p \in Passengers, status'[p] = "RIDING"
             PROVE  RideOnTrack(p)'
  BY ConstantRequests DEF RideProgress
<1> DEFINE e == assigned_elevator[p]
<1>1. status[p] = "RIDING" => RideOnTrack(p) /\ e \in Elevators
  BY RiderFacts DEF RideProgress
<1>2. requests' = requests
  BY ConstantRequests
<1>3. CASE Pickup
  <2>1. PICK boarding \in SUBSET Passengers :
          /\ \A q \in boarding : /\ status[q] = "ASSIGNED"
                                 /\ assigned_elevator[q] \in Elevators
                                 /\ q \in WaitingHere(assigned_elevator[q])
          /\ status' = [q \in Passengers |->
                         IF q \in boarding THEN "RIDING" ELSE status[q]]
          /\ pickup_time' = [q \in Passengers |->
                              IF q \in boarding THEN tick ELSE pickup_time[q]]
          /\ \A x \in Elevators :
               /\ elevators'[x].current_floor = elevators[x].current_floor
               /\ elevators'[x].direction = elevators[x].direction
    BY <1>3, PickupStep
  <2>2. /\ phase = "PICKUP" /\ phase' = "MOVE"
        /\ tick' = tick /\ assigned_elevator' = assigned_elevator
    BY <1>3 DEF Pickup
  <2>3. CASE p \in boarding
    <3>1. pickup_time'[p] = tick /\ e \in Elevators
      BY <2>1, <2>3
    <3>2. elevators'[e].current_floor = requests[p].source
      BY <2>1, <2>3 DEF WaitingHere
    <3>3. tick \in Int /\ requests[p].source \in Int
      BY <2>2, CarAssumption DEF TypeOK, Validated, ValidRequest, Floors
    <3>4. tick - tick = 0 /\ Abs(requests[p].source - requests[p].source) = 0
      BY <3>3 DEF Abs
    <3>. QED
      BY <1>2, <2>2, <3>1, <3>2, <3>3, <3>4 DEF RideOnTrack
  <2>4. CASE p \notin boarding
    BY <1>1, <1>2, <2>1, <2>2, <2>4, RideUndisturbed
  <2>. QED
    BY <2>3, <2>4
<1>4. CASE Move
  BY <1>1, <1>4, MoveRide DEF Move, passengerVars
<1>5. CASE Record
  <2>1. status[p] = "RIDING" /\ phase = "RECORD"
    BY <1>5 DEF Record, passengerVars
  <2>2. ~Finished
    BY <2>1 DEF Finished, Registered
  <2>3. /\ tick' = tick + 1 /\ phase' \in {"INGEST", "MAX_TICKS"}
        /\ UNCHANGED <<elevators, assigned_elevator, pickup_time>>
    BY <1>5, <2>2 DEF Record, passengerVars
  <2>4. tick \in Int /\ pickup_time[p] \in Int
    BY <2>1, RiderFacts
  <2>5. tick' - pickup_time[p] + 0 = tick - pickup_time[p] + 1
    BY <2>3, <2>4
  <2>. QED
    BY <1>1, <1>2, <2>1, <2>3, <2>5 DEF RideOnTrack, MovesToReach
<1>6. CASE Dropoff
  <2>1. PICK delivered \in SUBSET Passengers :
          /\ status' = [q \in Passengers |->
                         IF q \in delivered THEN "DELIVERED" ELSE status[q]]
          /\ \A x \in Elevators :
               /\ elevators'[x].current_floor = elevators[x].current_floor
               /\ elevators'[x].direction = elevators[x].direction
    BY <1>6, DropoffStep
  <2>2. status[p] = "RIDING"
    BY <2>1
  <2>. QED
    BY <1>1, <1>2, <1>6, <2>1, <2>2, RideUndisturbed DEF Dropoff
<1>7. CASE Dispatch
  <2>1. status[p] = "RIDING" /\ assigned_elevator'[p] = assigned_elevator[p]
    BY <1>7, DispatchKeeps
  <2>. QED
    BY <1>1, <1>2, <1>7, <2>1, DispatchKeeps, RideUndisturbed DEF Dispatch
<1>8. CASE Validate \/ Ingest \/ EndDispatch
  <2>1. status[p] = "RIDING"
    BY <1>8 DEF Validate, Ingest, EndDispatch, passengerVars
  <2>. QED
    BY <1>1, <1>2, <1>8, <2>1, RideUndisturbed
       DEF Validate, Ingest, EndDispatch, passengerVars
<1>9. CASE UNCHANGED vars
  BY <1>1, <1>9 DEF vars, passengerVars, RideOnTrack, MovesToReach
<1>. QED
  BY <1>3, <1>4, <1>5, <1>6, <1>7, <1>8, <1>9 DEF Next, Terminated

\* A rider is at every step within the bound: ticks ridden and moves to come.
THEOREM RideProgressHolds == Spec => []RideProgress
<1>1. Init => RideProgress
  BY DEF Init, RideProgress
<1>. QED
  BY <1>1, StepRideProgress, TypeCorrect, BookkeepingHolds, ValidatedHolds,
     NothingLeftHolds, PTL DEF Spec

-----------------------------------------------------------------------------
(* RideBound, those still riding and those delivered apart *)

RidingInTime ==
  \A p \in Passengers :
    status[p] = "RIDING" => tick - pickup_time[p] <= 2 * NumFloors - 3

DeliveredInTime ==
  \A p \in Passengers : status[p] = "DELIVERED" =>
    /\ delivery_time[p] - pickup_time[p] <= 2 * NumFloors - 3
    /\ delivery_time[p] - pickup_time[p] >= Abs(requests[p].dest - requests[p].source)

LEMMA RidingBounded ==
  TypeOK /\ Bookkeeping /\ Validated /\ RideProgress => RidingInTime
<1> SUFFICES ASSUME TypeOK, Bookkeeping, Validated, RideProgress,
                    NEW p \in Passengers, status[p] = "RIDING"
             PROVE  tick - pickup_time[p] <= 2 * NumFloors - 3
  BY DEF RidingInTime
<1> DEFINE car == elevators[assigned_elevator[p]]
<1>1. /\ car \in Car(Passengers) /\ tick \in Int /\ pickup_time[p] \in Int
  BY RiderFacts
<1>2. RideOnTrack(p)
  BY DEF RideProgress
<1>3. CASE phase = "MOVE" /\ pickup_time[p] = tick
  BY <1>1, <1>3, CarAssumption
<1>4. CASE ~(phase = "MOVE" /\ pickup_time[p] = tick)
  <2>1. phase # "START"
    BY DEF Validated
  <2>2. requests[p].dest \in Floors
    BY DEF Validated, ValidRequest
  <2>3. MovesToReach(car, requests[p].dest) \in Nat
    BY <1>1, <2>2, MovesToReachType
  <2>. QED
    BY <1>1, <1>2, <1>4, <2>3, CarAssumption DEF RideOnTrack
<1>. QED
  BY <1>3, <1>4

\* Whoever alights was on track to the floor the car now stands at.
LEMMA AlightingInTime ==
  ASSUME TypeOK, Bookkeeping, Validated, RidingInTime, RideProgress, phase = "DROPOFF",
         NEW p \in Passengers, status[p] = "RIDING",
         requests[p].dest = elevators[assigned_elevator[p]].current_floor
  PROVE  /\ tick - pickup_time[p] <= 2 * NumFloors - 3
         /\ tick - pickup_time[p] >= Abs(requests[p].dest - requests[p].source)
         /\ pickup_time[p] < tick
<1>1. tick \in Int /\ pickup_time[p] \in Int
  BY RiderFacts
<1>2. RideOnTrack(p)
  BY DEF RideProgress
<1>3. tick - pickup_time[p] + 0 = tick - pickup_time[p]
  BY <1>1
<1>. QED
  BY <1>1, <1>2, <1>3, RiderFacts DEF RideOnTrack, RidingInTime

\* Delivered is for good, and the times of the delivered are written once.
LEMMA DeliveredKeepTimes ==
  ASSUME TypeOK, Bookkeeping, DispatchQueue, [Next]_vars,
         NEW p \in Passengers, status[p] = "DELIVERED"
  PROVE  /\ status'[p] = "DELIVERED"
         /\ pickup_time'[p] = pickup_time[p]
         /\ delivery_time'[p] = delivery_time[p]
<1>1. CASE Dropoff
  BY <1>1, DropoffStep DEF Dropoff
<1>2. CASE Pickup
  BY <1>2, PickupStep DEF Pickup
<1>3. CASE Dispatch
  BY <1>3, DispatchKeeps
<1>4. CASE Ingest
  BY <1>4 DEF Ingest, Arriving
<1>5. CASE Validate \/ EndDispatch \/ Move \/ Record
  BY <1>5 DEF Validate, EndDispatch, Move, Record, passengerVars
<1>6. CASE UNCHANGED vars
  BY <1>6 DEF vars, passengerVars
<1>. QED
  BY <1>1, <1>2, <1>3, <1>4, <1>5, <1>6 DEF Next, Terminated

\* Only Dropoff delivers.
LEMMA DeliveredAtDropoff ==
  ASSUME TypeOK, Bookkeeping, DispatchQueue, [Next]_vars,
         NEW p \in Passengers, status[p] # "DELIVERED", status'[p] = "DELIVERED"
  PROVE  /\ Dropoff
         /\ status[p] = "RIDING"
         /\ requests[p].dest = elevators[assigned_elevator[p]].current_floor
         /\ delivery_time'[p] = tick
         /\ pickup_time'[p] = pickup_time[p]
<1>1. CASE Dropoff
  BY <1>1, DropoffStep DEF Dropoff
<1>2. CASE Pickup
  BY <1>2, PickupStep
<1>3. CASE Dispatch
  BY <1>3, DispatchKeeps
<1>4. CASE Ingest
  BY <1>4 DEF Ingest
<1>5. CASE Validate \/ EndDispatch \/ Move \/ Record
  BY <1>5 DEF Validate, EndDispatch, Move, Record, passengerVars
<1>6. CASE UNCHANGED vars
  BY <1>6 DEF vars, passengerVars
<1>. QED
  BY <1>1, <1>2, <1>3, <1>4, <1>5, <1>6 DEF Next, Terminated

LEMMA StepDeliveredInTime ==
  ASSUME TypeOK, Bookkeeping, DispatchQueue, Validated, RideProgress, RidingInTime,
         DeliveredInTime, [Next]_vars
  PROVE  DeliveredInTime'
<1> SUFFICES ASSUME NEW p \in Passengers, status'[p] = "DELIVERED"
             PROVE  /\ delivery_time'[p] - pickup_time'[p] <= 2 * NumFloors - 3
                    /\ delivery_time'[p] - pickup_time'[p]
                         >= Abs(requests[p].dest - requests[p].source)
  BY ConstantRequests DEF DeliveredInTime
<1>1. CASE status[p] = "DELIVERED"
  BY <1>1, DeliveredKeepTimes DEF DeliveredInTime
<1>2. CASE status[p] # "DELIVERED"
  BY <1>2, DeliveredAtDropoff, AlightingInTime DEF Dropoff
<1>. QED
  BY <1>1, <1>2

\* Nobody rides longer than one sweep there and back, nor faster than a floor
\* a tick (RideBound), for every building, fleet, strategy and workload.
THEOREM RideBoundHolds == Spec => []RideBound
<1>1. Init => DeliveredInTime
  BY DEF Init, DeliveredInTime
<1>2. Spec => []RidingInTime
  BY RidingBounded, TypeCorrect, BookkeepingHolds, ValidatedHolds, RideProgressHolds, PTL
<1>3. Spec => []DeliveredInTime
  BY <1>1, <1>2, StepDeliveredInTime, TypeCorrect, BookkeepingHolds, ValidatedHolds,
     RideProgressHolds, PTL DEF Spec
<1>4. RidingInTime /\ DeliveredInTime => RideBound
  BY DEF RidingInTime, DeliveredInTime, RideBound
<1>. QED
  BY <1>2, <1>3, <1>4, PTL

-----------------------------------------------------------------------------
(* NobodyOverlooked *)

\* Whoever the loop has already passed and left waiting can be served by none.
PassedInVain ==
  phase \in {"DISPATCH", "DROPOFF"} /\ strategy # "any_or_error" =>
    \A p \in Passengers :
      status[p] = "WAITING" /\ p \notin unassigned => Eligible(p) = {}

\* A strategy that may not fail selects an eligible car.
LEMMA SelectsUnlessNone ==
  ASSUME NEW st \in StrategyNames \ {"any_or_error"}, NEW cars,
         NEW eligible \in SUBSET Elevators, NEW request, NEW index,
         NEW e \in SelectElevator(st, cars, eligible, request, index)
  PROVE  e # None
<1>1. \A x \in eligible : x # None
  BY FleetAssumption DEF Elevators, None
<1>2. CASE st = "any"
  BY <1>1, <1>2 DEF SelectElevator
<1>3. CASE st = "round_robin"
  BY <1>1, <1>3 DEF SelectElevator, RoundRobinPick
<1>4. CASE st = "nearest_car"
  BY <1>1, <1>4 DEF SelectElevator, NearestCarPick
<1>5. CASE st = "zone_based"
  <2> DEFINE local == ZoneLocal(cars, eligible, request)
  <2>1. local \subseteq eligible
    BY DEF ZoneLocal
  <2>2. e \in NearestCarPick(cars, IF local # {} THEN local ELSE eligible, request)
    BY <1>5 DEF SelectElevator, ZoneBasedPick
  <2>3. e \in eligible
    BY <2>1, <2>2 DEF NearestCarPick
  <2>. QED
    BY <1>1, <2>3
<1>. QED
  BY <1>2, <1>3, <1>4, <1>5 DEF StrategyNames

LEMMA StepPassedInVain ==
  ASSUME TypeOK, PassedInVain, [Next]_vars
  PROVE  PassedInVain'
<1>1. /\ requests' = requests /\ Passengers' = Passengers
      /\ \A p : Eligible(p)' = Eligible(p)
  BY ConstantRequests DEF Eligible, ServedFloors
<1>2. strategy' = strategy
  BY DEF Next, vars, Validate, Ingest, Dispatch, EndDispatch, Dropoff, Pickup, Move,
         Record, Terminated
<1>3. CASE Dispatch
  <2>1. PICK p \in unassigned :
          /\ unassigned' = unassigned \ {p}
          /\ IF Eligible(p) = {} THEN LeaveWaiting /\ UNCHANGED next_index
             ELSE \E e \in SelectElevator(strategy, elevators, Eligible(p),
                                          requests[p], next_index) :
                    IF e = None THEN LeaveWaiting ELSE Assign(p, e)
    BY <1>3 DEF Dispatch
  <2>2. p \in Passengers /\ phase = "DISPATCH"
    BY <1>3 DEF TypeOK, Dispatch
  <2>3. CASE Eligible(p) = {}
    BY <1>1, <1>2, <2>1, <2>2, <2>3 DEF LeaveWaiting, PassedInVain
  <2>4. CASE strategy = "any_or_error"
    BY <1>2, <2>4 DEF PassedInVain
  <2>5. CASE Eligible(p) # {} /\ strategy # "any_or_error"
    <3>1. PICK e \in SelectElevator(strategy, elevators, Eligible(p),
                                    requests[p], next_index) :
            IF e = None THEN LeaveWaiting ELSE Assign(p, e)
      BY <2>1, <2>5
    <3>2. Eligible(p) \in SUBSET Elevators /\ strategy \in StrategyNames \ {"any_or_error"}
      BY <2>5 DEF Eligible, TypeOK
    <3>3. e # None
      BY <3>2, SelectsUnlessNone
    <3>4. status' = [status EXCEPT ![p] = "ASSIGNED"]
      BY <3>1, <3>3 DEF Assign
    <3>5. \A q \in Passengers : status'[q] = "WAITING" => q # p /\ status[q] = "WAITING"
      BY <2>2, <3>4 DEF TypeOK
    <3>. QED
      BY <1>1, <1>2, <2>1, <2>2, <3>5 DEF PassedInVain
  <2>. QED
    BY <2>3, <2>4, <2>5
<1>4. CASE Ingest
  BY <1>1, <1>4 DEF Ingest, PassedInVain
<1>5. CASE EndDispatch
  BY <1>1, <1>2, <1>5 DEF EndDispatch, PassedInVain, passengerVars
<1>6. CASE Validate \/ Dropoff \/ Pickup \/ Move \/ Record
  BY <1>6 DEF Validate, Dropoff, Pickup, Move, Record, PassedInVain
<1>7. CASE UNCHANGED vars
  BY <1>1, <1>7 DEF vars, passengerVars, PassedInVain
<1>. QED
  BY <1>3, <1>4, <1>5, <1>6, <1>7 DEF Next, Terminated

\* No shipped strategy leaves a passenger waiting whom some car may serve
\* (NobodyOverlooked): the zone fallback covers every case.
THEOREM NobodyOverlookedHolds == Spec => []NobodyOverlooked
<1>1. Init => PassedInVain
  BY DEF Init, PassedInVain
<1>2. PassedInVain /\ DispatchQueue => NobodyOverlooked
  BY DEF PassedInVain, DispatchQueue, NobodyOverlooked
<1>. QED
  BY <1>1, <1>2, StepPassedInVain, TypeCorrect, BookkeepingHolds, PTL DEF Spec

-----------------------------------------------------------------------------
(* PositionLogContinuous *)

LEMMA OneFloorPerMove ==
  ASSUME TypeOK, Move, NEW e \in Elevators
  PROVE  Abs(elevators'[e].current_floor - elevators[e].current_floor) <= 1
<1>1. PICK target \in Floors \cup {None} : elevators'[e] = AfterMove(elevators[e], target)
  BY MoveStep
<1>2. elevators[e] \in Car(Passengers) /\ elevators[e].current_floor \in Int
  BY CarTypes, CarAssumption DEF TypeOK, Floors
<1>3. target \in Int
  BY CarAssumption DEF Floors, None
<1>4. \/ elevators'[e].current_floor = elevators[e].current_floor
      \/ elevators'[e].current_floor = elevators[e].current_floor + 1
      \/ elevators'[e].current_floor = elevators[e].current_floor - 1
  BY <1>1, <1>2, <1>3, MoveFields
<1>. QED
  BY <1>2, <1>4 DEF Abs

LEMMA StepLogContinuous ==
  ASSUME TypeOK, Bookkeeping, DispatchQueue, PositionLogContinuous, [Next]_vars
  PROVE  PositionLogContinuous'
<1>1. \A e \in Elevators : /\ elevators[e].current_floor \in Int
                           /\ position_log.last[e] \in Int
                           /\ Abs(0) = 0
  BY CarTypes, CarAssumption DEF TypeOK, Floors, Abs
<1>2. tick \in Nat /\ position_log.rows \in Nat
  BY DEF TypeOK
<1>3. CASE Dispatch
  BY <1>3, DispatchKeeps DEF Dispatch, PositionLogContinuous
<1>4. CASE Dropoff
  <2>1. \A e \in Elevators : elevators'[e].current_floor = elevators[e].current_floor
    BY <1>4, DropoffStep
  <2>. QED
    BY <1>4, <2>1 DEF Dropoff, PositionLogContinuous
<1>5. CASE Pickup
  <2>1. \A e \in Elevators : elevators'[e].current_floor = elevators[e].current_floor
    BY <1>5, PickupStep
  <2>. QED
    BY <1>5, <2>1 DEF Pickup, PositionLogContinuous
<1>6. CASE Move
  <2>1. phase = "MOVE" /\ phase' = "RECORD" /\ UNCHANGED <<tick, position_log>>
    BY <1>6 DEF Move
  <2>2. \A e \in Elevators : elevators[e].current_floor = position_log.last[e]
    BY <1>1, <2>1 DEF PositionLogContinuous, Abs
  <2>. QED
    BY <1>6, <2>1, <2>2, OneFloorPerMove DEF PositionLogContinuous
<1>7. CASE Record
  <2>1. \A e \in Elevators : position_log'.last[e] = elevators'[e].current_floor
    BY <1>7 DEF Record, Positions
  <2>2. \A e \in Elevators :
          Abs(elevators'[e].current_floor - position_log'.last[e]) = 0
    BY <1>1, <1>7, <2>1 DEF Record, Abs
  <2>3. position_log'.rows = position_log.rows + 1 /\ position_log.rows = tick
    BY <1>7 DEF Record, PositionLogContinuous
  <2>. QED
    BY <1>2, <1>7, <2>2, <2>3 DEF Record, PositionLogContinuous
<1>8. CASE Validate \/ Ingest \/ EndDispatch \/ UNCHANGED vars
  BY <1>8 DEF Validate, Ingest, EndDispatch, vars, PositionLogContinuous
<1>. QED
  BY <1>3, <1>4, <1>5, <1>6, <1>7, <1>8 DEF Next, Terminated

LEMMA InitLogContinuous == Init => PositionLogContinuous
<1>1. ASSUME Init, NEW e \in Elevators
      PROVE  Abs(elevators[e].current_floor - position_log.last[e]) = 0
  BY <1>1, StartFloorInBuilding, CarAssumption DEF Init, IdleCar, Abs, Floors
<1>. QED
  BY <1>1 DEF Init, PositionLogContinuous

\* The position log has a row per simulated tick and no jumps
\* (PositionLogContinuous).
THEOREM LogHolds == Spec => []PositionLogContinuous
  BY InitLogContinuous, StepLogContinuous, TypeCorrect, BookkeepingHolds, PTL DEF Spec
=============================================================================
