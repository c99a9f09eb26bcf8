--------------------------- MODULE RefinementProofs ---------------------------
(***************************************************************************)
(* Proofs that the engine implements the two abstract specifications: the  *)
(* lifecycle of its passengers, and for each car the single car with its   *)
(* list.                                                                   *)
(***************************************************************************)
EXTENDS Fleet, PassengerProofs

-----------------------------------------------------------------------------
(* ImplementsLifecycle *)

\* The lifecycle brings its own copy of FiniteSets.
LEMMA SameCardinality == \A S : Lifecycle!Cardinality(S) = Cardinality(S)
  BY DEF Lifecycle!Cardinality, Cardinality

\* Riders(c) of the lifecycle is the passenger list of the car.
LEMMA RidersAreOnBoard ==
  ASSUME TypeOK, Bookkeeping, NEW e \in Elevators
  PROVE  Lifecycle!Riders(e) = elevators[e].passengers
<1>1. DOMAIN status = Passengers /\ elevators[e].passengers \subseteq Passengers
  BY CarTypes DEF TypeOK
<1>. QED
  BY <1>1 DEF Lifecycle!Riders, Lifecycle!AtStage, Lifecycle!People, Bookkeeping

RidersFitSeats == \A e \in Elevators : Cardinality(Lifecycle!Riders(e)) <= MaxCapacity

LEMMA RidersFit == TypeOK /\ Bookkeeping /\ CapacityRespected => RidersFitSeats
  BY RidersAreOnBoard DEF CapacityRespected, RidersFitSeats

LEMMA StepLifecycle ==
  ASSUME TypeOK, Bookkeeping, DispatchQueue, RidersFitSeats', [Next]_vars
  PROVE  [Lifecycle!Next]_(Lifecycle!vars)
<1>1. Lifecycle!People = Passengers
  BY DEF TypeOK, Lifecycle!People
<1>2. CASE Ingest
  <2>. DEFINE S == {p \in Passengers : Arriving(p)}
  <2>1. S \in SUBSET Lifecycle!AtStage("ABSENT")
    BY <1>1 DEF Lifecycle!AtStage, Arriving
  <2>2. Lifecycle!Advance(S, "WAITING")
    BY <1>1, <1>2 DEF Lifecycle!Advance, Ingest
  <2>. QED
    BY <1>2, <2>1, <2>2 DEF Lifecycle!Next, Lifecycle!Arrive, Ingest
<1>3. CASE Dispatch
  <2>1. PICK p \in unassigned :
          /\ p \in Passengers
          /\ LeaveWaiting \/ \E e \in Elevators : e \in Eligible(p) /\ Assign(p, e)
    BY <1>3, DispatchStep
  <2>2. CASE LeaveWaiting
    BY <2>2 DEF LeaveWaiting, Lifecycle!vars
  <2>3. ASSUME NEW e \in Elevators, Assign(p, e)
        PROVE  Lifecycle!AssignOne
    <3>1. p \in Lifecycle!AtStage("WAITING")
      BY <1>1, <2>1 DEF DispatchQueue, Lifecycle!AtStage
    <3>2. Lifecycle!Advance({p}, "ASSIGNED")
      BY <1>1, <2>3 DEF Lifecycle!Advance, Assign, TypeOK
    <3>. QED
      BY <2>3, <3>1, <3>2 DEF Lifecycle!AssignOne, Assign
  <2>. QED
    BY <2>1, <2>2, <2>3 DEF Lifecycle!Next
<1>4. CASE Dropoff
  <2>1. PICK delivered \in SUBSET Passengers :
          /\ \A p \in Passengers : p \in delivered <=>
               /\ status[p] = "RIDING"
               /\ requests[p].dest = elevators[assigned_elevator[p]].current_floor
          /\ status' = [p \in Passengers |->
                         IF p \in delivered THEN "DELIVERED" ELSE status[p]]
    BY <1>4, DropoffStep
  <2>2. delivered \in SUBSET Lifecycle!AtStage("RIDING")
    BY <1>1, <2>1 DEF Lifecycle!AtStage
  <2>3. Lifecycle!Advance(delivered, "DELIVERED")
    BY <1>1, <2>1 DEF Lifecycle!Advance
  <2>. QED
    BY <1>4, <2>2, <2>3 DEF Lifecycle!Next, Lifecycle!Leave, Dropoff
<1>5. CASE Pickup
  <2>1. PICK boarding \in SUBSET Passengers :
          /\ \A p \in boarding : status[p] = "ASSIGNED"
          /\ status' = [p \in Passengers |->
                         IF p \in boarding THEN "RIDING" ELSE status[p]]
    BY <1>5, PickupStep
  <2>2. boarding \in SUBSET Lifecycle!AtStage("ASSIGNED")
    BY <1>1, <2>1 DEF Lifecycle!AtStage
  <2>3. Lifecycle!Advance(boarding, "RIDING")
    BY <1>1, <2>1 DEF Lifecycle!Advance
  <2>4. \A e \in Elevators : Lifecycle!Cardinality(Lifecycle!Riders(e)') <= MaxCapacity
    BY SameCardinality DEF RidersFitSeats
  <2>5. Lifecycle!Board
    BY <1>5, <2>2, <2>3, <2>4 DEF Lifecycle!Board, Pickup
  <2>. QED
    BY <2>5 DEF Lifecycle!Next
<1>6. CASE Validate \/ EndDispatch \/ Move \/ Record
  BY <1>6 DEF Validate, EndDispatch, Move, Record, passengerVars, Lifecycle!vars
<1>7. CASE UNCHANGED vars
  BY <1>7 DEF vars, passengerVars, Lifecycle!vars
<1>. QED
  BY <1>2, <1>3, <1>4, <1>5, <1>6, <1>7 DEF Next, Terminated

\* The engine implements the passenger lifecycle (ImplementsLifecycle): every
\* step of it is a step of the lifecycle or a stutter.
THEOREM LifecycleImplemented == Spec => ImplementsLifecycle
<1>1. Init => Lifecycle!Fresh
  BY DEF Init, Lifecycle!Fresh, Lifecycle!People, None
<1>2. Spec => []RidersFitSeats
  BY RidersFit, TypeCorrect, BookkeepingHolds, CapacityHolds, PTL
<1>. QED
  BY <1>1, <1>2, StepLifecycle, TypeCorrect, BookkeepingHolds, PTL
     DEF Spec, ImplementsLifecycle, Lifecycle!Spec

-----------------------------------------------------------------------------
(* The order of the line *)

\* Whoever is assigned next is last in line: all other assignments were made in
\* earlier ticks, or in this tick to somebody the dict had before.
AssignedInTurn ==
  \A p \in Passengers :
    /\ assigned_time[p] <= tick
    /\ phase \in {"START", "INGEST"} => assigned_time[p] < tick
    /\ phase = "DISPATCH" => \A q \in unassigned : assigned_time[p] < tick \/ Earlier(p, q)

LEMMA InitAssignedInTurn == Init => AssignedInTurn
<1> SUFFICES ASSUME Init, NEW p \in Passengers
             PROVE  assigned_time[p] = -1 /\ tick = 0 /\ phase = "START"
  BY DEF AssignedInTurn
<1>. QED
  BY DEF Init, None

LEMMA StepAssignedInTurn ==
  ASSUME TypeOK, DispatchQueue, AssignedInTurn, [Next]_vars
  PROVE  AssignedInTurn'
<1>1. requests' = requests /\ Passengers' = Passengers
  BY ConstantRequests
<1>2. /\ tick \in Int /\ phase \in TickPhase \cup Ended \cup {"START"}
      /\ \A p \in Passengers : assigned_time[p] \in Int /\ assigned_time[p] <= tick
  BY DEF TypeOK, AssignedInTurn, None
<1>3. \A p, q : Earlier(p, q)' <=> Earlier(p, q)
  BY <1>1 DEF Earlier
<1>4. CASE Dispatch
  <2>1. PICK p \in unassigned :
          /\ IsNext(p)
          /\ unassigned' = unassigned \ {p}
          /\ \/ assigned_time' = assigned_time
             \/ assigned_time' = [assigned_time EXCEPT ![p] = tick]
    BY <1>4 DEF Dispatch, LeaveWaiting, Assign
  <2>2. /\ tick' = tick /\ phase' = "DISPATCH" /\ phase = "DISPATCH"
        /\ \A q \in unassigned' : q \in unassigned /\ Earlier(p, q)
    BY <1>4, <2>1 DEF Dispatch, IsNext
  <2>3. \A q \in Passengers : q # p => assigned_time'[q] = assigned_time[q]
    BY <2>1 DEF TypeOK
  <2>4. p \in Passengers => assigned_time'[p] \in {assigned_time[p], tick}
    BY <2>1 DEF TypeOK
  <2>5. \A q \in Passengers : assigned_time'[q] <= tick
    BY <1>2, <2>3, <2>4
  <2>6. \A q \in Passengers, r \in unassigned' : assigned_time'[q] < tick \/ Earlier(q, r)
    BY <2>2, <2>3, <2>4 DEF AssignedInTurn
  <2>. QED
    BY <1>1, <1>3, <2>2, <2>5, <2>6 DEF AssignedInTurn
<1>5. CASE Ingest
  <2>1. tick' = tick /\ phase' = "DISPATCH" /\ assigned_time' = assigned_time /\ phase = "INGEST"
    BY <1>5 DEF Ingest
  <2>. QED
    BY <1>1, <1>2, <2>1 DEF AssignedInTurn
<1>6. CASE Record
  <2>1. /\ assigned_time' = assigned_time /\ phase' # "DISPATCH"
        /\ \/ tick' = tick /\ phase' = "COMPLETED"
           \/ tick' = tick + 1
    BY <1>6 DEF Record, passengerVars
  <2>2. \A q \in Passengers : /\ assigned_time'[q] <= tick'
                              /\ phase' # "COMPLETED" => assigned_time'[q] < tick'
    BY <1>2, <2>1
  <2>. QED
    BY <1>1, <2>1, <2>2 DEF AssignedInTurn
<1>7. CASE Validate \/ EndDispatch \/ Dropoff \/ Pickup \/ Move
  <2>1. /\ tick' = tick /\ assigned_time' = assigned_time /\ phase' # "DISPATCH"
        /\ phase' \in {"START", "INGEST"} => phase \in {"START", "INGEST"}
    BY <1>7 DEF Validate, EndDispatch, Dropoff, Pickup, Move, passengerVars
  <2>. QED
    BY <1>1, <2>1 DEF AssignedInTurn
<1>8. CASE UNCHANGED vars
  BY <1>1, <1>8 DEF vars, passengerVars, AssignedInTurn, Earlier
<1>. QED
  BY <1>4, <1>5, <1>6, <1>7, <1>8 DEF Next, Terminated

LEMMA AssignedInTurnHolds == Spec => []AssignedInTurn
  BY InitAssignedInTurn, StepAssignedInTurn, TypeCorrect, BookkeepingHolds, PTL DEF Spec

\* The line of each car has its assigned requests in that order.
LinesInOrder ==
  /\ Orders(InLine, Passengers)
  /\ \A e \in Elevators : Listing(LineOf(e), elevators[e].assigned_requests, InLine)

LEMMA LinesListed == TypeOK => LinesInOrder
<1> SUFFICES ASSUME TypeOK, NEW e \in Elevators
             PROVE  Listing(LineOf(e), elevators[e].assigned_requests, InLine)
  BY InLineOrders DEF LinesInOrder
<1>1. elevators[e].assigned_requests \in SUBSET Passengers
  BY CarTypes DEF TypeOK
<1>. QED
  BY <1>1, InLineListed DEF LineOf

-----------------------------------------------------------------------------
(* ImplementsSingleCars *)

\* The instances bring their own copies of the operators on cars and lists.
LEMMA SameOperators ==
  ASSUME NEW e
  PROVE  /\ CarOf(e)!People = Passengers
         /\ CarOf(e)!NoTrip = NotHere
         /\ \A S, list : CarOf(e)!Among(S, list) = Among(S, list)
         /\ \A floor : CarOf(e)!IdleCar(floor) = IdleCar(floor)
         /\ \A c, p : CarOf(e)!AfterAssign(c, p) = AfterAssign(c, p)
         /\ \A c, t : CarOf(e)!Alighting(c, t) = Alighting(c, t)
         /\ \A c, t : CarOf(e)!AfterDropoff(c, t) = AfterDropoff(c, t)
         /\ \A c : CarOf(e)!Room(c) = Room(c)
         /\ \A c, b : CarOf(e)!AfterPickup(c, b) = AfterPickup(c, b)
         /\ \A c, t : CarOf(e)!MoveChoices(c, t) = MoveChoices(c, t)
         /\ \A c, t : CarOf(e)!AfterMove(c, t) = AfterMove(c, t)
<1>1. CarOf(e)!People = Passengers
  BY DEF CarOf!People, TripOf
<1>2. CarOf(e)!NoTrip = NotHere
  BY DEF CarOf!NoTrip, CarOf!None, NotHere, None
<1>3. \A S, list : CarOf(e)!Among(S, list) = Among(S, list)
  BY DEF CarOf!Among, Among
<1>4. \A floor : CarOf(e)!IdleCar(floor) = IdleCar(floor)
  BY DEF CarOf!IdleCar, IdleCar
<1>5. \A c, p : CarOf(e)!AfterAssign(c, p) = AfterAssign(c, p)
  BY DEF CarOf!AfterAssign, AfterAssign
<1>6. \A c, t : CarOf(e)!Alighting(c, t) = Alighting(c, t)
  BY DEF CarOf!Alighting, Alighting
<1>7. \A c, t : CarOf(e)!AfterDropoff(c, t) = AfterDropoff(c, t)
  BY <1>6 DEF CarOf!AfterDropoff, AfterDropoff
<1>8. \A S : CarOf(e)!Cardinality(S) = Cardinality(S)
  BY DEF CarOf!Cardinality, Cardinality
<1>9. \A c : CarOf(e)!Room(c) = Room(c)
  BY <1>8 DEF CarOf!Room, Room
<1>10. \A c, b : CarOf(e)!AfterPickup(c, b) = AfterPickup(c, b)
  BY DEF CarOf!AfterPickup, AfterPickup
<1>11. \A c, t : CarOf(e)!TargetFloors(c, t) = TargetFloors(c, t)
  BY <1>8 DEF CarOf!TargetFloors, TargetFloors, CarOf!IsFull, IsFull
<1>12. \A c, S : CarOf(e)!NextTargets(c, S) = NextTargets(c, S)
  BY DEF CarOf!NextTargets, NextTargets, CarOf!Nearest, Nearest, CarOf!Ahead, Ahead,
         CarOf!Abs, Abs
<1>13. \A c, t : CarOf(e)!MoveChoices(c, t) = MoveChoices(c, t)
  BY <1>11, <1>12 DEF CarOf!MoveChoices, MoveChoices, CarOf!None, None
<1>14. \A c, t : CarOf(e)!AfterMove(c, t) = AfterMove(c, t)
  BY DEF CarOf!AfterMove, AfterMove, CarOf!None, None, CarOf!Sign, Sign,
         CarOf!Heading, Heading
<1>. QED
  BY <1>1, <1>2, <1>3, <1>4, <1>5, <1>6, <1>7, <1>9, <1>10, <1>13, <1>14

\* A car looks up nobody's trip but its own passengers', which it finds in
\* TripOf(e) as in the requests.
LEMMA OwnTrips ==
  ASSUME TypeOK, NEW e \in Elevators
  PROVE  /\ elevators[e] \in Car(Passengers)
         /\ \A p \in elevators[e].passengers \cup elevators[e].assigned_requests :
              /\ p \in Passengers
              /\ TripOf(e)[p].source = requests[p].source
              /\ TripOf(e)[p].dest = requests[p].dest
         /\ Alighting(elevators[e], TripOf(e)) = Alighting(elevators[e], requests)
         /\ AfterDropoff(elevators[e], TripOf(e)) = AfterDropoff(elevators[e], requests)
         /\ MoveChoices(elevators[e], TripOf(e)) = MoveChoices(elevators[e], requests)
<1> DEFINE c == elevators[e]
<1>1. /\ c \in Car(Passengers)
      /\ c.passengers \subseteq Passengers /\ c.assigned_requests \subseteq Passengers
  BY CarTypes DEF TypeOK
<1>2. \A p \in c.passengers \cup c.assigned_requests :
        /\ p \in Passengers
        /\ TripOf(e)[p] = [source |-> requests[p].source, dest |-> requests[p].dest]
  BY <1>1 DEF TripOf
<1>3. \A p \in c.passengers \cup c.assigned_requests :
        /\ p \in Passengers
        /\ TripOf(e)[p].source = requests[p].source
        /\ TripOf(e)[p].dest = requests[p].dest
  <2> HIDE DEF c
  <2> TAKE p \in c.passengers \cup c.assigned_requests
  <2>1. p \in Passengers
    BY <1>2
  <2>2. TripOf(e)[p] = [source |-> requests[p].source, dest |-> requests[p].dest]
    BY <1>2
  <2>. QED
    BY <2>1, <2>2
<1> HIDE DEF c
<1>4. Alighting(c, TripOf(e)) = Alighting(c, requests)
  BY <1>3 DEF Alighting
<1>5. AfterDropoff(c, TripOf(e)) = AfterDropoff(c, requests)
  BY <1>4 DEF AfterDropoff
<1>6. TargetFloors(c, TripOf(e)) = TargetFloors(c, requests)
  BY <1>3 DEF TargetFloors
<1>7. MoveChoices(c, TripOf(e)) = MoveChoices(c, requests)
  BY <1>6 DEF MoveChoices
<1>. QED
  BY <1>1, <1>3, <1>4, <1>5, <1>7 DEF c

\* A car whose lists stay as they are keeps its callers; if nobody is assigned
\* anywhere it keeps its line.
LEMMA TripsKept ==
  ASSUME [Next]_vars, NEW e \in Elevators,
         elevators'[e].passengers \cup elevators'[e].assigned_requests
           = elevators[e].passengers \cup elevators[e].assigned_requests
  PROVE  TripOf(e)' = TripOf(e)
<1>1. /\ requests' = requests /\ Passengers' = Passengers
      /\ elevators'[e].assigned_requests \cup elevators'[e].passengers
           = elevators[e].assigned_requests \cup elevators[e].passengers
  BY ConstantRequests
<1> DEFINE own == elevators[e].assigned_requests \cup elevators[e].passengers
           trips(S) == [p \in Passengers |->
                          IF p \in S
                          THEN [source |-> requests[p].source, dest |-> requests[p].dest]
                          ELSE NotHere]
<1>2. TripOf(e) = trips(own) /\ NotHere' = NotHere
  BY DEF TripOf, NotHere
<1>3. TripOf(e)' = trips(elevators'[e].assigned_requests \cup elevators'[e].passengers)
  BY <1>1, <1>2 DEF TripOf
<1>. QED
  BY <1>1, <1>2, <1>3

LEMMA LineKept ==
  ASSUME [Next]_vars, assigned_time' = assigned_time, NEW e \in Elevators,
         elevators'[e].assigned_requests = elevators[e].assigned_requests
  PROVE  LineOf(e)' = LineOf(e)
<1> DEFINE before(time, reqs, p, q) ==
             \/ time[p] < time[q]
             \/ /\ time[p] = time[q]
                /\ \/ reqs[p].request_time < reqs[q].request_time
                   \/ reqs[p].request_time = reqs[q].request_time /\ p < q
           inOrder(S, time, reqs) ==
             [i \in 1..Cardinality(S) |->
                CHOOSE p \in S : Cardinality({q \in S : before(time, reqs, q, p)}) = i - 1]
<1>1. LineOf(e) = inOrder(elevators[e].assigned_requests, assigned_time, requests)
  BY DEF LineOf, InOrder, InLineBefore, Earlier
<1>2. LineOf(e)' = inOrder(elevators'[e].assigned_requests, assigned_time', requests')
  BY DEF LineOf, InOrder, InLineBefore, Earlier
<1> HIDE DEF inOrder
<1>. QED
  BY <1>1, <1>2, ConstantRequests

LEMMA SingleCarInit == Init => \A e \in Elevators : CarOf(e)!Init
<1> SUFFICES ASSUME Init, NEW e \in Elevators PROVE CarOf(e)!Init
  OBVIOUS
<1>1. elevators[e] = IdleCar(StartFloor(e)) /\ StartFloor(e) \in Floors
  BY StartFloorInBuilding DEF Init
<1>2. elevators[e].assigned_requests = {} /\ elevators[e].passengers = {}
  BY <1>1 DEF IdleCar
<1>3. \A p \in Passengers : TripOf(e)[p] = NotHere
  BY <1>2 DEF TripOf
<1>4. LineOf(e) = <<>>
  <2>1. LineOf(e) = InOrder({}, InLineBefore)
    BY <1>2 DEF LineOf
  <2>2. Cardinality({}) = 0
    BY FS_EmptySet
  <2>. QED
    BY <2>1, <2>2 DEF InOrder
<1>5. PhaseOfTick = "DISPATCH"
  BY DEF Init, PhaseOfTick
<1>6. StartFloor(e) \in CarOf(e)!Floors
  BY <1>1 DEF CarOf!Floors, Floors
<1>. QED
  BY <1>1, <1>3, <1>4, <1>5, <1>6, SameOperators DEF CarOf!Init

\* What the step lemmas start from.
LineInv ==
  /\ TypeOK /\ Bookkeeping /\ DispatchQueue /\ CapacityRespected /\ Validated
  /\ AssignedInTurn /\ LinesInOrder

LEMMA ListingTransfers ==
  ASSUME NEW S, NEW R, NEW Q, NEW list, Listing(list, S, R),
         \A p, q \in S : <<p, q>> \in R => <<p, q>> \in Q
  PROVE  Listing(list, S, Q)
<1>1. \A i \in 1..Len(list) : list[i] \in S
  BY DEF Listing
<1>. QED
  BY <1>1 DEF Listing

\* A strategy's choice is a call of the chosen car and nothing to the others.
LEMMA DispatchCalls ==
  ASSUME LineInv, LinesInOrder', [Next]_vars, Dispatch, NEW e \in Elevators
  PROVE  [CarOf(e)!Next]_(CarOf(e)!carVars)
<1>1. PICK p \in unassigned :
        /\ p \in Passengers
        /\ LeaveWaiting \/ \E f \in Elevators : f \in Eligible(p) /\ Assign(p, f)
  BY DispatchStep DEF LineInv
<1>2. /\ phase' = phase /\ requests' = requests /\ Passengers' = Passengers
      /\ PhaseOfTick = "DISPATCH" /\ PhaseOfTick' = "DISPATCH"
  BY ConstantRequests DEF Dispatch, PhaseOfTick
<1>3. CASE LeaveWaiting
  <2>1. elevators' = elevators /\ assigned_time' = assigned_time
    BY <1>3 DEF LeaveWaiting
  <2>2. TripOf(e)' = TripOf(e) /\ LineOf(e)' = LineOf(e)
    BY <2>1, TripsKept, LineKept
  <2>. QED
    BY <1>2, <2>1, <2>2 DEF CarOf!carVars
<1>4. ASSUME NEW f \in Elevators, Assign(p, f), f # e
      PROVE  CarOf(e)!carVars' = CarOf(e)!carVars
  <2>1. elevators'[e] = elevators[e]
    BY <1>4 DEF Assign, LineInv, TypeOK
  <2>2. TripOf(e)' = TripOf(e)
    BY <2>1, TripsKept
  <2> DEFINE S == elevators[e].assigned_requests
  <2>3. S \subseteq Passengers /\ p \notin S
    <3>1. S \subseteq Passengers
      BY CarTypes DEF LineInv, TypeOK
    <3>2. status[p] = "WAITING"
      BY <1>1 DEF LineInv, DispatchQueue
    <3>. QED
      BY <1>1, <3>1, <3>2 DEF LineInv, Bookkeeping
  <2>4. \A q \in S : assigned_time'[q] = assigned_time[q]
    BY <1>4, <2>3 DEF Assign, LineInv, TypeOK
  <2>5. \A q, r \in S : <<q, r>> \in InLine <=> <<q, r>> \in InLine'
    BY <1>2, <2>3, <2>4 DEF InLine, InLineBefore, Earlier
  <2>6. Listing(LineOf(e), S, InLine) /\ Listing(LineOf(e)', S, InLine')
    BY <2>1 DEF LineInv, LinesInOrder
  <2>7. Orders(InLine, S)
    BY <2>3 DEF LineInv, LinesInOrder, Orders
  <2>8. LineOf(e)' = LineOf(e)
    <3> HIDE DEF S
    <3>1. Listing(LineOf(e)', S, InLine)
      BY <2>5, <2>6, ListingTransfers
    <3>. QED
      BY <2>6, <2>7, <3>1, ListingUnique
  <2>. QED
    BY <1>2, <2>1, <2>2, <2>8 DEF CarOf!carVars
<1>5. ASSUME Assign(p, e)
      PROVE  CarOf(e)!Call
  <2> DEFINE t == [source |-> requests[p].source, dest |-> requests[p].dest]
             S == elevators[e].assigned_requests
  <2>1. /\ elevators[e] \in Car(Passengers) /\ S \subseteq Passengers
        /\ elevators[e].passengers \subseteq Passengers
        /\ elevators'[e] = AfterAssign(elevators[e], p)
    BY <1>5, CarTypes DEF Assign, LineInv, TypeOK
  <2>2. /\ elevators'[e].assigned_requests = S \cup {p}
        /\ elevators'[e].passengers = elevators[e].passengers
    BY <1>1, <2>1, AssignFields
  <2>3. p \notin S /\ p \notin elevators[e].passengers
    <3>1. status[p] = "WAITING"
      BY <1>1 DEF LineInv, DispatchQueue
    <3>. QED
      BY <1>1, <3>1 DEF LineInv, Bookkeeping
  <2>4. t \in {x \in [source: Floors, dest: Floors] : x.source # x.dest}
    <3>1. ValidRequest(requests[p])
      BY <1>1 DEF LineInv, Validated, Dispatch
    <3>. QED
      BY <3>1 DEF ValidRequest
  <2>5. TripOf(e)[p] = NotHere
    BY <1>1, <2>3 DEF TripOf
  <2>6. TripOf(e)' = [TripOf(e) EXCEPT ![p] = t]
    <3>1. TripOf(e)' = [q \in Passengers |->
             IF q \in (S \cup {p}) \cup elevators[e].passengers
             THEN [source |-> requests[q].source, dest |-> requests[q].dest]
             ELSE NotHere]
      BY <1>2, <2>2 DEF TripOf, NotHere
    <3>2. TripOf(e) = [q \in Passengers |->
             IF q \in S \cup elevators[e].passengers
             THEN [source |-> requests[q].source, dest |-> requests[q].dest]
             ELSE NotHere]
      BY DEF TripOf
    <3> HIDE DEF S
    <3>. QED
      BY <1>1, <3>1, <3>2
  <2>7. \A q \in S : <<q, p>> \in InLine'
    <3> TAKE q \in S
    <3>1. /\ q \in Passengers /\ q # p
          /\ assigned_time'[q] = assigned_time[q] /\ assigned_time'[p] = tick
      BY <1>1, <1>5, <2>1, <2>3 DEF Assign, LineInv, TypeOK
    <3>2. /\ assigned_time[q] \in Int /\ tick \in Int /\ assigned_time[q] <= tick
          /\ assigned_time[q] < tick \/ Earlier(q, p)
      BY <1>1, <3>1 DEF LineInv, TypeOK, AssignedInTurn, Dispatch, None
    <3>3. InLineBefore(q, p)'
      BY <1>2, <3>1, <3>2 DEF InLineBefore, Earlier
    <3>. QED
      BY <1>1, <1>2, <3>1, <3>3 DEF InLine
  <2>8. LineOf(e)' = Append(LineOf(e), p)
    <3>1. \A q \in S : assigned_time'[q] = assigned_time[q]
      BY <1>5, <2>1, <2>3 DEF Assign, LineInv, TypeOK
    <3>2. \A q, r \in S : <<q, r>> \in InLine => <<q, r>> \in InLine'
      BY <1>2, <2>1, <3>1 DEF InLine, InLineBefore, Earlier
    <3>3. Listing(LineOf(e), S, InLine) /\ Listing(LineOf(e)', S \cup {p}, InLine')
      BY <2>2 DEF LineInv, LinesInOrder
    <3>4. Orders(InLine', S \cup {p})
      <4>1. Orders(InLine', Passengers) /\ S \cup {p} \subseteq Passengers
        BY <1>1, <1>2, <2>1 DEF LinesInOrder
      <4> HIDE DEF S
      <4>. QED
        BY <4>1 DEF Orders
    <3> HIDE DEF S
    <3>5. Listing(LineOf(e), S, InLine')
      BY <3>2, <3>3, ListingTransfers
    <3>6. Listing(Append(LineOf(e), p), S \cup {p}, InLine')
      BY <2>7, <3>5, ListingAppend
    <3>. QED
      BY <3>3, <3>4, <3>6, ListingUnique
  <2>9. /\ CarOf(e)!People = Passengers /\ CarOf(e)!NoTrip = NotHere
        /\ CarOf(e)!AfterAssign(elevators[e], p) = AfterAssign(elevators[e], p)
    BY SameOperators
  <2> HIDE DEF t
  <2>. QED
    BY <1>1, <1>2, <2>1, <2>4, <2>5, <2>6, <2>8, <2>9 DEF CarOf!Call
<1>. QED
  BY <1>1, <1>3, <1>4, <1>5 DEF CarOf!Next

LEMMA DropoffOfOne ==
  ASSUME LineInv, [Next]_vars, Dropoff, NEW e \in Elevators
  PROVE  CarOf(e)!Dropoff
<1> DEFINE c == elevators[e]
           out == Alighting(c, requests)
<1>1. /\ c \in Car(Passengers) /\ elevators'[e] = AfterDropoff(c, requests)
      /\ PhaseOfTick = "DROPOFF" /\ PhaseOfTick' = "PICKUP"
  BY DEF Dropoff, LineInv, TypeOK, PhaseOfTick
<1>2. /\ elevators'[e].passengers = c.passengers \ out
      /\ elevators'[e].assigned_requests = c.assigned_requests
  BY <1>1, DropoffFields DEF Alighting
<1>3. c.passengers \cap c.assigned_requests = {} /\ out \subseteq c.passengers
  <2>1. c.passengers \subseteq Passengers
    BY CarTypes DEF LineInv, TypeOK
  <2>. QED
    BY <2>1 DEF LineInv, Bookkeeping, Alighting
<1>4. LineOf(e)' = LineOf(e)
  BY <1>2, LineKept DEF Dropoff
<1>5. TripOf(e)' = [p \in Passengers |-> IF p \in out THEN NotHere ELSE TripOf(e)[p]]
  <2>1. TripOf(e)' = [q \in Passengers |->
           IF q \in c.assigned_requests \cup (c.passengers \ out)
           THEN [source |-> requests[q].source, dest |-> requests[q].dest]
           ELSE NotHere]
    BY <1>2, ConstantRequests DEF TripOf, NotHere
  <2>2. TripOf(e) = [q \in Passengers |->
           IF q \in c.assigned_requests \cup c.passengers
           THEN [source |-> requests[q].source, dest |-> requests[q].dest]
           ELSE NotHere]
    BY DEF TripOf
  <2> HIDE DEF c, out
  <2>. QED
    BY <1>3, <2>1, <2>2
<1>6. /\ CarOf(e)!People = Passengers /\ CarOf(e)!NoTrip = NotHere
      /\ CarOf(e)!Alighting(c, TripOf(e)) = out
      /\ CarOf(e)!AfterDropoff(c, TripOf(e)) = AfterDropoff(c, requests)
  BY SameOperators, OwnTrips DEF LineInv
<1> HIDE DEF out
<1>. QED
  BY <1>1, <1>4, <1>5, <1>6 DEF CarOf!Dropoff

LEMMA MoveOfOne ==
  ASSUME LineInv, [Next]_vars, Move, NEW e \in Elevators
  PROVE  CarOf(e)!Move
<1>1. PICK target \in Floors \cup {None} :
        /\ target \in MoveChoices(elevators[e], requests)
        /\ elevators'[e] = AfterMove(elevators[e], target)
        /\ elevators'[e].passengers = elevators[e].passengers
        /\ elevators'[e].assigned_requests = elevators[e].assigned_requests
  BY MoveStep DEF LineInv
<1>2. /\ PhaseOfTick = "MOVE" /\ PhaseOfTick' = "DISPATCH" /\ assigned_time' = assigned_time
  BY DEF Move, PhaseOfTick, passengerVars
<1>3. TripOf(e)' = TripOf(e) /\ LineOf(e)' = LineOf(e)
  BY <1>1, <1>2, TripsKept, LineKept
<1>4. /\ CarOf(e)!MoveChoices(elevators[e], TripOf(e)) = MoveChoices(elevators[e], requests)
      /\ CarOf(e)!AfterMove(elevators[e], target) = AfterMove(elevators[e], target)
  BY SameOperators, OwnTrips DEF LineInv
<1>. QED
  BY <1>1, <1>2, <1>3, <1>4 DEF CarOf!Move

\* Those who board are the first of the line, as many as there is room for.
LEMMA BoardingIsFirst ==
  ASSUME LineInv, NEW e \in Elevators, NEW boarding, Boards(boarding, e),
         NEW here, Listing(here, WaitingHere(e), InLine)
  PROVE  LET n == IF Len(here) <= Room(elevators[e]) THEN Len(here)
                  ELSE Room(elevators[e])
         IN  Range(SubSeq(here, 1, n)) = boarding
<1> DEFINE W == WaitingHere(e)
           room == Room(elevators[e])
           n == IF Len(here) <= room THEN Len(here) ELSE room
           k == Cardinality(boarding)
<1>1. W \subseteq Passengers /\ IsFiniteSet(W)
  <2>1. W \in SUBSET Passengers
    BY CarTypes DEF WaitingHere, LineInv, TypeOK
  <2> HIDE DEF W
  <2>. QED
    BY <2>1, FinitePassengers DEF LineInv
<1>2. Orders(InLine, W) /\ Listing(here, W, InLine)
  <2>1. Orders(InLine, Passengers)
    BY DEF LineInv, LinesInOrder
  <2> HIDE DEF W
  <2>2. Orders(InLine, W)
    BY <1>1, <2>1 DEF Orders
  <2>. QED
    BY <2>2 DEF W
<1>3. /\ Len(here) = Cardinality(W) /\ Len(here) \in Nat /\ here \in Seq(W)
  <2> HIDE DEF W
  <2>. QED
    BY <1>1, <1>2, ListingLength, FS_CardinalityType DEF Listing
<1>4. room \in Nat
  <2>1. elevators[e].passengers \in SUBSET Passengers
    BY CarTypes DEF LineInv, TypeOK
  <2>2. Cardinality(elevators[e].passengers) \in Nat
    BY <2>1, FinitePassengers DEF LineInv
  <2>. QED
    BY <2>2, CarAssumption DEF Room, LineInv, CapacityRespected
<1>5. /\ boarding \subseteq W
      /\ boarding # {} => k <= room
      /\ boarding = W \/ k >= room
      /\ \A p \in boarding, q \in W \ boarding : <<p, q>> \in InLine
  BY <1>1 DEF Boards, InLine
<1>6. k \in Nat /\ k <= Cardinality(W) /\ (k = Cardinality(W) => boarding = W)
      /\ (boarding = {} => k = 0)
  <2> HIDE DEF W
  <2>. QED
    BY <1>1, <1>5, FS_Subset, FS_CardinalityType, FS_EmptySet
<1>7. k = n
  <2>1. k <= room
    BY <1>4, <1>5, <1>6
  <2>2. k = Len(here) \/ k >= room
    BY <1>3, <1>5
  <2> HIDE DEF k, room, W
  <2>. QED
    BY <1>3, <1>4, <1>6, <2>1, <2>2
<1>8. boarding = {here[i] : i \in 1..n}
  <2>1. k <= Len(here) /\ boarding \in SUBSET W
    BY <1>3, <1>5, <1>6
  <2>2. boarding = {here[i] : i \in 1..k}
    <3> HIDE DEF W, n
    <3>. QED
      BY <1>2, <1>5, <2>1, FirstOfListing DEF k
  <2> HIDE DEF n, k
  <2>. QED
    BY <1>7, <2>2
<1>9. Range(SubSeq(here, 1, n)) = {here[i] : i \in 1..n}
  <2>1. n \in Nat /\ n <= Len(here)
    BY <1>3, <1>4
  <2> HIDE DEF n, W
  <2>2. DOMAIN SubSeq(here, 1, n) = 1..n /\ \A i \in 1..n : SubSeq(here, 1, n)[i] = here[i]
    BY <1>3, <2>1
  <2>. QED
    BY <2>2 DEF Range
<1>. QED
  <2> HIDE DEF n
  <2>. QED
    BY <1>8, <1>9 DEF n

LEMMA PickupOfOne ==
  ASSUME LineInv, LinesInOrder', [Next]_vars, Pickup, NEW e \in Elevators
  PROVE  CarOf(e)!Pickup
<1> DEFINE c == elevators[e]
           S == c.assigned_requests
           W == WaitingHere(e)
           atFloor == {p \in Passengers : TripOf(e)[p].source = c.current_floor}
           here == Among(atFloor, LineOf(e))
           n == IF Len(here) <= Room(c) THEN Len(here) ELSE Room(c)
<1>1. PICK boarding \in SUBSET UNION {WaitingHere(f) : f \in Elevators} :
        /\ \A f \in Elevators : Boards(boarding \cap WaitingHere(f), f)
        /\ elevators' = [f \in Elevators |->
                           AfterPickup(elevators[f], boarding \cap WaitingHere(f))]
  BY DEF Pickup
<1> DEFINE B == boarding \cap W
<1>2. /\ c \in Car(Passengers) /\ S \subseteq Passengers /\ c.passengers \subseteq Passengers
      /\ W \subseteq S /\ B \subseteq W
      /\ elevators'[e] = AfterPickup(c, B) /\ Boards(B, e)
  BY <1>1, CarTypes DEF LineInv, TypeOK, WaitingHere
<1>3. /\ elevators'[e].passengers = c.passengers \cup B
      /\ elevators'[e].assigned_requests = S \ B
  <2>1. B \in SUBSET Passengers
    BY <1>2
  <2> HIDE DEF B
  <2>. QED
    BY <1>2, <2>1, PickupFields
<1>4. TripOf(e)' = TripOf(e)
  <2>1. elevators'[e].passengers \cup elevators'[e].assigned_requests = c.passengers \cup S
    BY <1>2, <1>3
  <2>. QED
    BY <2>1, TripsKept
<1>5. /\ requests' = requests /\ assigned_time' = assigned_time /\ Passengers' = Passengers
      /\ PhaseOfTick = "PICKUP" /\ PhaseOfTick' = "MOVE"
  BY ConstantRequests DEF Pickup, PhaseOfTick
<1>6. /\ Orders(InLine, Passengers) /\ Listing(LineOf(e), S, InLine)
      /\ Listing(LineOf(e)', S \ B, InLine)
  <2>1. InLine' = InLine
    BY <1>5 DEF InLine, InLineBefore, Earlier
  <2>. QED
    BY <1>3, <2>1 DEF LineInv, LinesInOrder
<1>7. Listing(here, W, InLine)
  <2>1. S \cap atFloor = W
    <3>1. \A p \in S : /\ p \in Passengers /\ status[p] = "ASSIGNED"
                       /\ TripOf(e)[p].source = requests[p].source
      BY <1>2, OwnTrips DEF LineInv, Bookkeeping
    <3>. QED
      BY <3>1 DEF WaitingHere
  <2>2. Listing(here, S \cap atFloor, InLine)
    <3> HIDE DEF S, atFloor
    <3>. QED
      BY <1>6, AmongListing
  <2> HIDE DEF S, atFloor, here, W
  <2>. QED
    BY <2>1, <2>2
<1>8. Range(SubSeq(here, 1, n)) = B
  <2> HIDE DEF here, B
  <2>. QED
    BY <1>2, <1>7, BoardingIsFirst
<1>9. LineOf(e)' = Among(Passengers \ B, LineOf(e))
  <2>1. Listing(Among(Passengers \ B, LineOf(e)), S \cap (Passengers \ B), InLine)
    <3> HIDE DEF S, B
    <3>. QED
      BY <1>6, AmongListing
  <2>2. S \cap (Passengers \ B) = S \ B
    BY <1>2
  <2>3. Orders(InLine, S \ B)
    <3> HIDE DEF S, B
    <3>. QED
      BY <1>2, <1>6 DEF Orders
  <2> HIDE DEF S, B
  <2>. QED
    BY <1>6, <2>1, <2>2, <2>3, ListingUnique
<1>10. /\ CarOf(e)!People = Passengers
       /\ CarOf(e)!Among(atFloor, LineOf(e)) = here
       /\ CarOf(e)!Among(Passengers \ B, LineOf(e)) = LineOf(e)'
       /\ CarOf(e)!Room(c) = Room(c)
       /\ CarOf(e)!AfterPickup(c, B) = elevators'[e]
       /\ CarOf(e)!Range(SubSeq(here, 1, n)) = B
  <2>1. CarOf(e)!Range(SubSeq(here, 1, n)) = Range(SubSeq(here, 1, n))
    BY DEF CarOf!Range, Range
  <2> HIDE DEF here, n, B, W, S, atFloor
  <2>. QED
    BY <1>2, <1>8, <1>9, <2>1, SameOperators DEF here
<1>11. /\ elevators'[e] = CarOf(e)!AfterPickup(c,
              CarOf(e)!Range(SubSeq(here, 1, IF Len(here) <= CarOf(e)!Room(c) THEN Len(here)
                                             ELSE CarOf(e)!Room(c))))
       /\ LineOf(e)' = CarOf(e)!Among(Passengers \
              CarOf(e)!Range(SubSeq(here, 1, IF Len(here) <= CarOf(e)!Room(c) THEN Len(here)
                                             ELSE CarOf(e)!Room(c))), LineOf(e))
  <2> HIDE DEF here, B, W, S, atFloor
  <2>. QED
    BY <1>10
<1>. QED
  <2>1. /\ here = CarOf(e)!Among({p \in CarOf(e)!People :
                                    TripOf(e)[p].source = elevators[e].current_floor},
                                 LineOf(e))
    BY <1>10
  <2> HIDE DEF here
  <2>. QED
    BY <1>4, <1>5, <1>10, <1>11, <2>1 DEF CarOf!Pickup

LEMMA StepSingleCars ==
  ASSUME LineInv, LinesInOrder', [Next]_vars
  PROVE  \A e \in Elevators : [CarOf(e)!Next]_(CarOf(e)!carVars)
<1> SUFFICES ASSUME NEW e \in Elevators
             PROVE  [CarOf(e)!Next]_(CarOf(e)!carVars)
  OBVIOUS
<1>1. CASE Dispatch
  BY <1>1, DispatchCalls
<1>2. CASE Dropoff
  BY <1>2, DropoffOfOne DEF CarOf!Next
<1>3. CASE Pickup
  BY <1>3, PickupOfOne DEF CarOf!Next
<1>4. CASE Move
  BY <1>4, MoveOfOne DEF CarOf!Next
<1>5. CASE EndDispatch
  <2>1. /\ elevators' = elevators /\ assigned_time' = assigned_time
        /\ PhaseOfTick = "DISPATCH" /\ PhaseOfTick' = "DROPOFF"
    BY <1>5 DEF EndDispatch, passengerVars, PhaseOfTick
  <2>2. TripOf(e)' = TripOf(e) /\ LineOf(e)' = LineOf(e)
    BY <2>1, TripsKept, LineKept
  <2>. QED
    BY <2>1, <2>2 DEF CarOf!Next, CarOf!EndDispatch
<1>6. CASE Validate \/ Ingest \/ Record \/ UNCHANGED vars
  <2>1. /\ elevators' = elevators /\ assigned_time' = assigned_time
        /\ PhaseOfTick' = PhaseOfTick
    <3>1. elevators' = elevators /\ assigned_time' = assigned_time
      BY <1>6 DEF Validate, Ingest, Record, vars, passengerVars
    <3>2. \/ phase' = phase
          \/ /\ phase \in {"START", "INGEST", "RECORD"}
             /\ phase' \in {"INGEST", "INVALID_REQUEST", "DISPATCH", "COMPLETED", "MAX_TICKS"}
      BY <1>6 DEF Validate, Ingest, Record, vars
    <3>. QED
      BY <3>1, <3>2 DEF PhaseOfTick
  <2>2. TripOf(e)' = TripOf(e) /\ LineOf(e)' = LineOf(e)
    BY <2>1, TripsKept, LineKept
  <2>. QED
    BY <2>1, <2>2 DEF CarOf!carVars
<1>. QED
  BY <1>1, <1>2, <1>3, <1>4, <1>5, <1>6 DEF Next, Terminated

LEMMA LinesHold == Spec => [](LineInv /\ LinesInOrder)
<1>1. Spec => []LinesInOrder
  BY LinesListed, TypeCorrect, PTL
<1>. QED
  BY <1>1, TypeCorrect, BookkeepingHolds, CapacityHolds, ValidatedHolds,
     AssignedInTurnHolds, PTL DEF LineInv

\* Every car of the engine is the single car with its list
\* (ImplementsSingleCars): the sets and times of assignment the engine is
\* modelled with make pickup() walk its list from the front.
THEOREM SingleCarsImplemented == Spec => ImplementsSingleCars
<1>1. Spec => [][\A e \in Elevators : [CarOf(e)!Next]_(CarOf(e)!carVars)]_vars
  BY StepSingleCars, LinesHold, PTL DEF Spec
<1>. QED
  BY <1>1, SingleCarInit, PTL DEF Spec, ImplementsSingleCars
=============================================================================
