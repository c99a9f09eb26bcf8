---------------------------- MODULE PassengerProofs ----------------------------
(***************************************************************************)
(* Proofs about the passengers of a run: their times are ordered and the   *)
(* line at a floor is served in its order; nobody is passed by for         *)
(* nothing; there is one of them for each id, and all of them once their   *)
(* time has come; cars stop where they should; the ticks of a run are      *)
(* enough for a load that is spread; and the rotation of                   *)
(* RoundRobinStrategy is even.                                             *)
(***************************************************************************)
EXTENDS SimulationProofs

\* Everything the engine may write about a passenger in one step.
LEMMA PassengerStep ==
  ASSUME TypeOK, Bookkeeping, DispatchQueue, [Next]_vars, NEW p \in Passengers
  PROVE  \/ /\ status'[p] = status[p]
            /\ assigned_time'[p] = assigned_time[p]
            /\ assigned_elevator'[p] = assigned_elevator[p]
            /\ pickup_time'[p] = pickup_time[p]
            /\ delivery_time'[p] = delivery_time[p]
         \/ /\ status[p] = "ABSENT" /\ status'[p] = "WAITING"
            /\ requests[p].request_time = tick
            /\ assigned_time'[p] = assigned_time[p]
            /\ pickup_time'[p] = pickup_time[p]
            /\ delivery_time'[p] = delivery_time[p]
            /\ Ingest
         \/ /\ status[p] = "WAITING" /\ status'[p] = "ASSIGNED"
            /\ assigned_time'[p] = tick
            /\ pickup_time'[p] = pickup_time[p]
            /\ delivery_time'[p] = delivery_time[p]
            /\ Dispatch
         \/ /\ status[p] = "ASSIGNED" /\ status'[p] = "RIDING"
            /\ assigned_time'[p] = assigned_time[p]
            /\ assigned_elevator'[p] = assigned_elevator[p]
            /\ pickup_time'[p] = tick
            /\ delivery_time'[p] = delivery_time[p]
            /\ Pickup
         \/ /\ status[p] = "RIDING" /\ status'[p] = "DELIVERED"
            /\ assigned_time'[p] = assigned_time[p]
            /\ assigned_elevator'[p] = assigned_elevator[p]
            /\ pickup_time'[p] = pickup_time[p]
            /\ delivery_time'[p] = tick
            /\ Dropoff
<1>1. CASE Ingest
  <2>1. Arriving(p) => status[p] = "ABSENT" /\ requests[p].request_time = tick
    BY DEF Arriving
  <2>. QED
    BY <1>1, <2>1 DEF Ingest
<1>2. CASE Dispatch
  BY <1>2, DispatchKeeps
<1>3. CASE Dropoff
  BY <1>3, DropoffStep DEF Dropoff
<1>4. CASE Pickup
  <2>1. PICK boarding \in SUBSET Passengers :
          /\ \A q \in boarding : status[q] = "ASSIGNED"
          /\ status' = [q \in Passengers |->
                         IF q \in boarding THEN "RIDING" ELSE status[q]]
          /\ pickup_time' = [q \in Passengers |->
                              IF q \in boarding THEN tick ELSE pickup_time[q]]
    BY <1>4, PickupStep, ZenonT(30)
  <2>2. UNCHANGED <<assigned_elevator, assigned_time, delivery_time>>
    BY <1>4 DEF Pickup
  <2>. QED
    BY <1>4, <2>1, <2>2
<1>5. CASE Validate \/ EndDispatch \/ Move \/ Record
  BY <1>5 DEF Validate, EndDispatch, Move, Record, passengerVars
<1>6. CASE UNCHANGED vars
  BY <1>6 DEF vars, passengerVars
<1>. QED
  BY <1>1, <1>2, <1>3, <1>4, <1>5, <1>6 DEF Next, Terminated

LEMMA TimeAdvances ==
  ASSUME TypeOK, [Next]_vars
  PROVE  tick' \in {tick, tick + 1}
  BY DEF Next, vars, Validate, Ingest, Dispatch, EndDispatch, Dropoff, Pickup, Move,
         Record, Terminated

-----------------------------------------------------------------------------
(* The orders of the lists *)

\* The order of the dict self.passengers ...
InDict == {d \in Passengers \X Passengers : Earlier(d[1], d[2])}

\* ... and the one pickup() finds the passengers of a car in.
InLine == {d \in Passengers \X Passengers : InLineBefore(d[1], d[2])}

LEMMA OrderedTimes ==
  ASSUME TypeOK, NEW p \in Passengers
  PROVE  /\ p \in Int /\ requests[p].request_time \in Int
         /\ assigned_time[p] \in Int /\ pickup_time[p] \in Int
<1>1. Passengers = 1..Len(requests) /\ Len(requests) \in Nat
  BY DEF TypeOK, Passengers
<1>2. requests[p] \in Request
  BY <1>1 DEF TypeOK
<1>3. assigned_time[p] \in Int /\ pickup_time[p] \in Int
  BY DEF TypeOK, None
<1>. QED
  BY <1>1, <1>2, <1>3 DEF Request

LEMMA InDictOrders == TypeOK => Orders(InDict, Passengers)
<1> SUFFICES ASSUME TypeOK PROVE Orders(InDict, Passengers)
  OBVIOUS
<1>1. \A p, q \in Passengers : <<p, q>> \in InDict <=> Earlier(p, q)
  BY DEF InDict
<1>2. \A p \in Passengers : ~Earlier(p, p)
  BY OrderedTimes DEF Earlier
<1>3. \A p, q, r \in Passengers : Earlier(p, q) /\ Earlier(q, r) => Earlier(p, r)
  BY OrderedTimes DEF Earlier
<1>4. \A p, q \in Passengers : p # q => Earlier(p, q) \/ Earlier(q, p)
  BY OrderedTimes DEF Earlier
<1>. QED
  BY <1>1, <1>2, <1>3, <1>4 DEF Orders

LEMMA InLineOrders == TypeOK => Orders(InLine, Passengers)
<1> SUFFICES ASSUME TypeOK PROVE Orders(InLine, Passengers)
  OBVIOUS
<1>1. \A p, q \in Passengers : <<p, q>> \in InLine <=> InLineBefore(p, q)
  BY DEF InLine
<1>2. \A p \in Passengers : ~InLineBefore(p, p)
  BY OrderedTimes DEF InLineBefore, Earlier
<1>3. \A p, q, r \in Passengers :
        InLineBefore(p, q) /\ InLineBefore(q, r) => InLineBefore(p, r)
  BY OrderedTimes DEF InLineBefore, Earlier
<1>4. \A p, q \in Passengers : p # q => InLineBefore(p, q) \/ InLineBefore(q, p)
  BY OrderedTimes DEF InLineBefore, Earlier
<1>. QED
  BY <1>1, <1>2, <1>3, <1>4 DEF Orders

LEMMA InDictListed ==
  ASSUME TypeOK, NEW S \in SUBSET Passengers
  PROVE  Orders(InDict, S) /\ Listing(InOrder(S, Earlier), S, InDict)
<1> DEFINE one(i) == CHOOSE p \in S : Rank(S, InDict, p) = i - 1
           two(i) == CHOOSE p \in S : Cardinality({q \in S : Earlier(q, p)}) = i - 1
<1>1. IsFiniteSet(S) /\ Orders(InDict, S)
  BY FinitePassengers, InDictOrders DEF Orders
<1>2. InOrder(S, Earlier) = [i \in 1..Cardinality(S) |-> two(i)]
  BY DEF InOrder
<1>3. \A i : one(i) = two(i)
  <2>1. \A p \in S : {q \in S : <<q, p>> \in InDict} = {q \in S : Earlier(q, p)}
    BY DEF InDict
  <2>2. \A p \in S : Rank(S, InDict, p) = Cardinality({q \in S : Earlier(q, p)})
    BY <2>1 DEF Rank
  <2>. QED
    BY <2>2
<1>4. InOrder(S, Earlier) = [i \in 1..Cardinality(S) |-> one(i)]
  <2> HIDE DEF one, two
  <2>. QED
    BY <1>2, <1>3
<1>5. Listing([i \in 1..Cardinality(S) |-> one(i)], S, InDict)
  BY <1>1, ChosenByRank
<1> HIDE DEF one
<1>. QED
  BY <1>1, <1>4, <1>5

LEMMA InLineListed ==
  ASSUME TypeOK, NEW S \in SUBSET Passengers
  PROVE  Orders(InLine, S) /\ Listing(InOrder(S, InLineBefore), S, InLine)
<1> DEFINE one(i) == CHOOSE p \in S : Rank(S, InLine, p) = i - 1
           two(i) == CHOOSE p \in S : Cardinality({q \in S : InLineBefore(q, p)}) = i - 1
<1>1. IsFiniteSet(S) /\ Orders(InLine, S)
  BY FinitePassengers, InLineOrders DEF Orders
<1>2. InOrder(S, InLineBefore) = [i \in 1..Cardinality(S) |-> two(i)]
  BY DEF InOrder
<1>3. \A i : one(i) = two(i)
  <2>1. \A p \in S : {q \in S : <<q, p>> \in InLine} = {q \in S : InLineBefore(q, p)}
    BY DEF InLine
  <2>2. \A p \in S : Rank(S, InLine, p) = Cardinality({q \in S : InLineBefore(q, p)})
    BY <2>1 DEF Rank
  <2>. QED
    BY <2>2
<1>4. InOrder(S, InLineBefore) = [i \in 1..Cardinality(S) |-> one(i)]
  <2> HIDE DEF one, two
  <2>. QED
    BY <1>2, <1>3
<1>5. Listing([i \in 1..Cardinality(S) |-> one(i)], S, InLine)
  BY <1>1, ChosenByRank
<1> HIDE DEF one
<1>. QED
  BY <1>1, <1>4, <1>5

-----------------------------------------------------------------------------
(* TimesOrdered *)

LEMMA StepTimesOrdered ==
  ASSUME TypeOK, Bookkeeping, DispatchQueue, Validated, RideProgress, RidingInTime,
         TimesOrdered, [Next]_vars
  PROVE  TimesOrdered'
<1> SUFFICES ASSUME NEW p \in Passengers
             PROVE
    /\ status'[p] # "ABSENT" => requests[p].request_time <= tick'
    /\ status'[p] \in {"ASSIGNED", "RIDING", "DELIVERED"} =>
         requests[p].request_time <= assigned_time'[p] /\ assigned_time'[p] <= tick'
    /\ status'[p] \in {"RIDING", "DELIVERED"} =>
         assigned_time'[p] <= pickup_time'[p] /\ pickup_time'[p] <= tick'
    /\ status'[p] = "DELIVERED" =>
         pickup_time'[p] < delivery_time'[p] /\ delivery_time'[p] <= tick'
  BY ConstantRequests DEF TimesOrdered
<1>1. /\ tick \in Int /\ requests[p].request_time \in Int /\ assigned_time[p] \in Int
      /\ pickup_time[p] \in Int /\ delivery_time[p] \in Int
      /\ status[p] \in PassengerStatus
  <2>1. requests[p] \in Request
    BY DEF TypeOK, Passengers
  <2>2. requests[p].request_time \in Int
    BY <2>1 DEF Request
  <2>. QED
    BY <2>2 DEF TypeOK, None
<1>2. tick' \in {tick, tick + 1}
  BY TimeAdvances
<1>3. /\ status[p] # "ABSENT" => requests[p].request_time <= tick
      /\ status[p] \in {"ASSIGNED", "RIDING", "DELIVERED"} =>
           requests[p].request_time <= assigned_time[p] /\ assigned_time[p] <= tick
      /\ status[p] \in {"RIDING", "DELIVERED"} =>
           assigned_time[p] <= pickup_time[p] /\ pickup_time[p] <= tick
      /\ status[p] = "DELIVERED" =>
           pickup_time[p] < delivery_time[p] /\ delivery_time[p] <= tick
  BY DEF TimesOrdered
<1>4. Dropoff /\ status[p] = "RIDING" /\ status'[p] = "DELIVERED" => pickup_time[p] < tick
  BY DeliveredAtDropoff, AlightingInTime DEF Dropoff
<1>. QED
  BY <1>1, <1>2, <1>3, <1>4, PassengerStep DEF PassengerStatus

\* Request, assignment, pickup and delivery come in this order, and nobody is
\* delivered in the tick of the pickup (TimesOrdered).
THEOREM TimesHold == Spec => []TimesOrdered
<1>1. Init => TimesOrdered
  BY DEF Init, TimesOrdered
<1>2. Spec => []RidingInTime
  BY RidingBounded, TypeCorrect, BookkeepingHolds, ValidatedHolds, RideProgressHolds, PTL
<1>. QED
  BY <1>1, <1>2, StepTimesOrdered, TypeCorrect, BookkeepingHolds, ValidatedHolds,
     RideProgressHolds, PTL DEF Spec

-----------------------------------------------------------------------------
(* FirstAssignedFirstServed *)

\* Those on board in the dispatch and in the pickup phase have boarded before.
LEMMA OnBoardBefore ==
  ASSUME TypeOK, Bookkeeping, RideProgress, TimesOrdered, phase \in {"DISPATCH", "PICKUP"},
         NEW p \in Passengers, status[p] \in {"RIDING", "DELIVERED"}
  PROVE  pickup_time[p] < tick
<1>1. /\ tick \in Int /\ pickup_time[p] \in Int /\ delivery_time[p] \in Int
  BY DEF TypeOK, None
<1>2. CASE status[p] = "RIDING"
  BY <1>1, <1>2 DEF RideProgress, RideOnTrack
<1>3. CASE status[p] = "DELIVERED"
  BY <1>1, <1>3 DEF TimesOrdered
<1>. QED
  BY <1>2, <1>3

LEMMA StepFirstServed ==
  ASSUME TypeOK, Bookkeeping, DispatchQueue, RideProgress, TimesOrdered,
         FirstAssignedFirstServed, [Next]_vars
  PROVE  FirstAssignedFirstServed'
<1> SUFFICES ASSUME NEW p \in Passengers, NEW q \in Passengers,
                    status'[p] = "ASSIGNED",
                    status'[q] \in {"RIDING", "DELIVERED"},
                    assigned_elevator'[p] = assigned_elevator'[q],
                    requests[p].source = requests[q].source
             PROVE  InLineBefore(q, p)' \/ pickup_time'[q] < assigned_time'[p]
  BY ConstantRequests DEF FirstAssignedFirstServed
<1>1. requests' = requests
  BY ConstantRequests
<1>2. status[q] \in {"ASSIGNED", "RIDING", "DELIVERED"}
  BY PassengerStep
<1>3. CASE /\ status[p] = "ASSIGNED" /\ status[q] \in {"RIDING", "DELIVERED"}
  <2>1. /\ assigned_time'[p] = assigned_time[p] /\ assigned_time'[q] = assigned_time[q]
        /\ assigned_elevator'[p] = assigned_elevator[p]
        /\ assigned_elevator'[q] = assigned_elevator[q]
        /\ pickup_time'[q] = pickup_time[q]
    BY <1>3, PassengerStep
  <2>. QED
    BY <1>1, <1>3, <2>1 DEF FirstAssignedFirstServed, InLineBefore, Earlier
<1>4. CASE status[p] # "ASSIGNED"
  <2>1. Dispatch /\ assigned_time'[p] = tick
    BY <1>4, PassengerStep
  <2>2. status[q] \in {"RIDING", "DELIVERED"} /\ pickup_time'[q] = pickup_time[q]
    BY <2>1, DispatchKeeps
  <2>3. pickup_time[q] < tick
    BY <2>1, <2>2, OnBoardBefore DEF Dispatch
  <2>. QED
    BY <2>1, <2>2, <2>3
<1>5. CASE status[p] = "ASSIGNED" /\ status[q] = "ASSIGNED"
  <2>1. Pickup
    BY <1>5, PassengerStep
  <2>2. PICK boarding \in SUBSET Passengers :
          /\ \A r \in boarding : /\ assigned_elevator[r] \in Elevators
                                 /\ r \in WaitingHere(assigned_elevator[r])
          /\ \A e \in Elevators : Boards(boarding \cap WaitingHere(e), e)
          /\ status' = [r \in Passengers |->
                          IF r \in boarding THEN "RIDING" ELSE status[r]]
    BY <2>1, PickupStep
  <2>3. assigned_time' = assigned_time /\ assigned_elevator' = assigned_elevator
    BY <2>1 DEF Pickup
  <2>4. q \in boarding /\ p \notin boarding
    BY <1>5, <2>2
  <2>. DEFINE e == assigned_elevator[q]
  <2>5. e \in Elevators /\ q \in WaitingHere(e)
    BY <2>2, <2>4
  <2>6. p \in elevators[e].assigned_requests
    BY <1>5, <2>3, <2>5 DEF Bookkeeping
  <2>7. p \in WaitingHere(e)
    BY <1>5, <2>5, <2>6 DEF WaitingHere
  <2>8. InLineBefore(q, p)
    BY <2>2, <2>4, <2>5, <2>7 DEF Boards
  <2>. QED
    BY <1>1, <2>3, <2>8 DEF InLineBefore, Earlier
<1>. QED
  BY <1>2, <1>3, <1>4, <1>5

\* The line of a car at a floor is served in its order, through every refusal
\* by a full car (FirstAssignedFirstServed).
THEOREM FirstServedHolds == Spec => []FirstAssignedFirstServed
<1>1. Init => FirstAssignedFirstServed
  BY DEF Init, FirstAssignedFirstServed
<1>. QED
  BY <1>1, StepFirstServed, TypeCorrect, BookkeepingHolds, RideProgressHolds, TimesHold,
     PTL DEF Spec

-----------------------------------------------------------------------------
(* The times of a passenger *)

\* A time is there from the event on that it is the time of.
TimesRecorded ==
  \A p \in Passengers :
    /\ assigned_time[p] # None <=> status[p] \in {"ASSIGNED", "RIDING", "DELIVERED"}
    /\ pickup_time[p] # None <=> status[p] \in {"RIDING", "DELIVERED"}
    /\ delivery_time[p] # None <=> status[p] = "DELIVERED"

LEMMA StepTimesRecorded ==
  ASSUME TypeOK, Bookkeeping, DispatchQueue, TimesRecorded, [Next]_vars
  PROVE  TimesRecorded'
<1> SUFFICES ASSUME NEW p \in Passengers
             PROVE  /\ assigned_time'[p] # None <=> status'[p] \in {"ASSIGNED", "RIDING", "DELIVERED"}
                    /\ pickup_time'[p] # None <=> status'[p] \in {"RIDING", "DELIVERED"}
                    /\ delivery_time'[p] # None <=> status'[p] = "DELIVERED"
  BY ConstantRequests DEF TimesRecorded
<1>1. tick # None
  BY DEF TypeOK, None
<1>. QED
  BY <1>1, PassengerStep DEF TimesRecorded

LEMMA TimesRecordedHold == Spec => []TimesRecorded
<1>1. Init => TimesRecorded
  BY DEF Init, TimesRecorded, None
<1>. QED
  BY <1>1, StepTimesRecorded, TypeCorrect, BookkeepingHolds, PTL DEF Spec

-----------------------------------------------------------------------------
(* The turn of a waiting passenger comes *)

LEMMA WaiterFacts ==
  ASSUME TypeOK, Bookkeeping, TimesRecorded, NEW p \in Passengers, status[p] = "ASSIGNED"
  PROVE  /\ assigned_elevator[p] \in Elevators
         /\ p \in elevators[assigned_elevator[p]].assigned_requests
         /\ elevators[assigned_elevator[p]] \in Car(Passengers)
         /\ elevators[assigned_elevator[p]].current_floor \in Int
         /\ tick \in Int /\ assigned_time[p] \in Int
<1>1. assigned_elevator[p] \in Elevators /\ p \in elevators[assigned_elevator[p]].assigned_requests
  BY DEF Bookkeeping, TypeOK
<1>2. elevators[assigned_elevator[p]] \in Car(Passengers)
  BY <1>1 DEF TypeOK
<1>3. elevators[assigned_elevator[p]].current_floor \in Int
  BY <1>2, CarTypes, CarAssumption DEF Floors
<1>4. tick \in Int /\ assigned_time[p] \in Int
  BY DEF TypeOK, None
<1>. QED
  BY <1>1, <1>2, <1>3, <1>4

\* The rounds grow with those who go first, and by one with every full load.
LEMMA RoundsGrow ==
  ASSUME TypeOK, NEW S \in SUBSET Passengers, NEW T \in SUBSET Passengers, S \subseteq T
  PROVE  /\ Rounds(S) \in Nat /\ Rounds(T) \in Nat /\ Rounds(S) <= Rounds(T)
         /\ Rounds(S) * Round \in Nat /\ Round <= Rounds(S) * Round
         /\ Rounds(S) * Round <= Rounds(T) * Round
         /\ \A X \in SUBSET (T \ S) : Cardinality(X) >= MaxCapacity =>
              Rounds(S) * Round + Round <= Rounds(T) * Round
<1>1. /\ IsFiniteSet(S) /\ Cardinality(S) \in Nat
      /\ IsFiniteSet(T) /\ Cardinality(T) \in Nat
  BY FinitePassengers
<1>2. Cardinality(S) <= Cardinality(T)
  BY <1>1, FS_Subset
<1>3. MaxCapacity \in Nat /\ MaxCapacity >= 1
  BY CarAssumption
<1>4. /\ Rounds(S) \in Nat /\ Rounds(S) >= 1 /\ Rounds(T) \in Nat
      /\ Rounds(S) <= Rounds(T)
  <2>1. /\ Cardinality(S) \div MaxCapacity \in Nat
        /\ Cardinality(T) \div MaxCapacity \in Nat
        /\ Cardinality(S) \div MaxCapacity <= Cardinality(T) \div MaxCapacity
    BY <1>1, <1>2, <1>3, QuotientBounds, QuotientGrows
  <2>. QED
    BY <2>1 DEF Rounds
<1>5. Round \in Nat
  BY CarAssumption DEF Round
<1>6. /\ Rounds(S) * Round \in Nat /\ 1 * Round <= Rounds(S) * Round /\ 1 * Round = Round
      /\ Rounds(S) * Round <= Rounds(T) * Round
  BY <1>4, <1>5, TimesGrow
<1>7. ASSUME NEW X \in SUBSET (T \ S), Cardinality(X) >= MaxCapacity
      PROVE  Rounds(S) * Round + Round <= Rounds(T) * Round
  <2>1. IsFiniteSet(X) /\ Cardinality(X) \in Nat
    BY FinitePassengers
  <2>2. Cardinality(S \cup X) = Cardinality(S) + Cardinality(X)
    <3>1. S \cap X = {}
      OBVIOUS
    <3>2. Cardinality(S \cap X) = 0
      BY <3>1, FS_EmptySet
    <3>3. Cardinality(S \cup X) = Cardinality(S) + Cardinality(X) - Cardinality(S \cap X)
      BY <1>1, <2>1, FS_Union
    <3>. QED
      BY <1>1, <2>1, <3>2, <3>3
  <2>3. Cardinality(S \cup X) <= Cardinality(T)
    <3>1. S \cup X \subseteq T
      OBVIOUS
    <3>. QED
      BY <1>1, <3>1, FS_Subset
  <2>4. Cardinality(S) + MaxCapacity <= Cardinality(T)
    BY <1>1, <1>3, <1>7, <2>1, <2>2, <2>3
  <2>5. (Cardinality(S) \div MaxCapacity) + 1 <= Cardinality(T) \div MaxCapacity
    BY <1>1, <1>3, <2>4, QuotientGrows
  <2>6. /\ Cardinality(S) \div MaxCapacity \in Nat
        /\ Cardinality(T) \div MaxCapacity \in Nat
    BY <1>1, <1>3, QuotientBounds
  <2>7. Rounds(S) + 1 <= Rounds(T)
    BY <2>5, <2>6 DEF Rounds
  <2>8. (Rounds(S) + 1) * Round <= Rounds(T) * Round
    BY <1>4, <1>5, <2>7, TimesGrow
  <2>9. (Rounds(S) + 1) * Round = Rounds(S) * Round + Round
    BY <1>4, <1>5
  <2>. QED
    BY <2>8, <2>9
<1>. QED
  BY <1>4, <1>6, <1>7

\* Outside of MOVE, nobody who has made way is in the way again.
LEMMA MadeWayGrows ==
  ASSUME TypeOK, Bookkeeping, DispatchQueue, [Next]_vars,
         NEW p \in Passengers, status[p] = "ASSIGNED", status'[p] = "ASSIGNED",
         elevators'[assigned_elevator[p]].current_floor
           = elevators[assigned_elevator[p]].current_floor,
         elevators'[assigned_elevator[p]].direction
           = elevators[assigned_elevator[p]].direction
  PROVE  /\ MovesToPass(elevators[assigned_elevator[p]], requests[p].source)'
              = MovesToPass(elevators[assigned_elevator[p]], requests[p].source)
         /\ MadeWay(p) \subseteq MadeWay(p)'
<1> DEFINE e == assigned_elevator[p]
<1>1. requests' = requests /\ Passengers' = Passengers
  BY ConstantRequests
<1>2. assigned_elevator'[p] = e
  BY PassengerStep
<1>3. /\ MovesToPass(elevators'[e], requests[p].source)
           = MovesToPass(elevators[e], requests[p].source)
      /\ \A t : MovesToReach(elevators'[e], t) = MovesToReach(elevators[e], t)
  BY DEF MovesToPass, MovesToReach
<1>4. ASSUME NEW q \in MadeWay(p) PROVE q \in MadeWay(p)'
  <2>1. /\ q \in Passengers /\ q # p
        /\ assigned_elevator[q] = e /\ status[q] \in {"RIDING", "DELIVERED"}
        /\ status[q] = "RIDING" =>
             MovesToReach(elevators[e], requests[q].dest)
               <= MovesToPass(elevators[e], requests[p].source)
    BY DEF MadeWay, BoardedAhead
  <2>2. /\ assigned_elevator'[q] = e /\ status'[q] \in {"RIDING", "DELIVERED"}
        /\ status'[q] = "RIDING" => status[q] = "RIDING"
    BY <2>1, PassengerStep
  <2>3. q \in BoardedAhead(p)'
    BY <1>1, <1>2, <2>1, <2>2 DEF BoardedAhead
  <2>4. status'[q] = "RIDING" =>
          MovesToReach(elevators'[e], requests[q].dest)
            <= MovesToPass(elevators'[e], requests[p].source)
    BY <1>3, <2>1, <2>2
  <2>. QED
    BY <1>1, <1>2, <2>3, <2>4 DEF MadeWay
<1>. QED
  BY <1>1, <1>2, <1>3, <1>4

\* In MOVE the turn of a passenger comes nearer: the car does, or it is full,
\* and makes way the whole load it passes by with.
LEMMA MoveTurn ==
  ASSUME TypeOK, Bookkeeping, TimesRecorded, Validated, NothingLeftToDoHere, Move,
         NEW p \in Passengers, status[p] = "ASSIGNED", TurnComes(p)
  PROVE  TurnComes(p)'
<1> DEFINE e == assigned_elevator[p]
           car == elevators[e]
           after == elevators'[e]
           s == requests[p].source
           T == TargetFloors(car, requests)
           wait == tick - assigned_time[p]
<1>1. /\ e \in Elevators /\ car \in Car(Passengers) /\ p \in car.assigned_requests
      /\ tick \in Int /\ assigned_time[p] \in Int
  BY WaiterFacts
<1>2. /\ phase = "MOVE" /\ phase' = "RECORD" /\ requests' = requests /\ Passengers' = Passengers
      /\ UNCHANGED <<tick, status, assigned_elevator, assigned_time>>
  BY ConstantRequests DEF Move, passengerVars, Next
<1>3. s \in Floors
  BY <1>2 DEF Validated, ValidRequest
<1>4. T \in SUBSET Floors /\ car.current_floor \notin T
  BY <1>1, <1>2, TargetsInBuilding DEF NothingLeftToDoHere
<1>5. IsFull(car) \/ s \in T
  BY <1>1 DEF TargetFloors
<1>6. T # {}
  <2>1. CASE IsFull(car)
    <3>1. Cardinality(car.passengers) >= MaxCapacity
      BY <2>1 DEF IsFull
    <3>2. car.passengers # {}
      <4>1. Cardinality({}) = 0
        BY FS_EmptySet
      <4>. QED
        BY <3>1, <4>1, CarAssumption
    <3>3. \A q \in car.passengers : requests[q].dest \in T
      BY DEF TargetFloors
    <3>. QED
      BY <3>2, <3>3
  <2>. QED
    BY <1>5, <2>1
<1>7. PICK target \in NextTargets(car, T) : after = AfterMove(car, target)
  <2>1. PICK choice \in [Elevators -> Floors \cup {None}] :
          /\ choice[e] \in MoveChoices(car, requests)
          /\ after = AfterMove(car, choice[e])
    BY <1>1, MoveStep
  <2>. QED
    BY <1>6, <2>1 DEF MoveChoices
<1>8. /\ after.direction # "IDLE"
      /\ MovesToPass(after, s) <= Round - 1
      /\ car.direction # "IDLE" /\ ~PassesBy(car, target, s) =>
           /\ MovesToPass(after, s) <= MovesToPass(car, s) - 1
           /\ \A t \in T : MovesToReach(car, t) <= MovesToPass(car, s) =>
                             MovesToReach(after, t) <= MovesToPass(after, s)
      /\ PassesBy(car, target, s) =>
           /\ s \notin T
           /\ \A t \in T : /\ ~(MovesToReach(car, t) <= MovesToPass(car, s))
                           /\ MovesToReach(after, t) <= MovesToPass(after, s)
  BY <1>1, <1>3, <1>4, <1>7, ScanPasses
<1>9. MovesToPass(car, s) \in Nat /\ MovesToPass(after, s) \in Nat
  <2>1. after \in Car(Passengers)
    BY <1>1, MoveStep, MoveFields
  <2>. QED
    BY <1>1, <1>3, <2>1, MovesToPassType
<1>10. Round \in Nat
  BY CarAssumption DEF Round
<1>11. MadeWay(p) \in SUBSET Passengers /\ MadeWay(p)' \in SUBSET Passengers
  BY <1>2 DEF MadeWay, BoardedAhead
<1>12. BoardedAhead(p)' = BoardedAhead(p)
  BY <1>2 DEF BoardedAhead
<1>13. \A q \in BoardedAhead(p) : status[q] = "RIDING" => q \in car.passengers /\ requests[q].dest \in T
  <2>1. \A q \in BoardedAhead(p) : status[q] = "RIDING" => q \in car.passengers
    BY <1>1 DEF BoardedAhead, Bookkeeping
  <2>. QED
    BY <2>1 DEF TargetFloors
<1>14. MadeWay(p)' = {q \in BoardedAhead(p) : status[q] = "RIDING" =>
                        MovesToReach(after, requests[q].dest) <= MovesToPass(after, s)}
  BY <1>2, <1>12 DEF MadeWay
<1>15. MadeWay(p) = {q \in BoardedAhead(p) : status[q] = "RIDING" =>
                        MovesToReach(car, requests[q].dest) <= MovesToPass(car, s)}
  BY DEF MadeWay
<1>16. /\ Rounds(MadeWay(p)) * Round \in Nat
       /\ Rounds(MadeWay(p)') * Round \in Nat
       /\ Round <= Rounds(MadeWay(p)') * Round
  BY <1>11, RoundsGrow
<1>17. wait + 1 >= 1 /\ wait + 1 + MovesToPass(after, s) <= Rounds(MadeWay(p)') * Round
  <2>1. CASE assigned_time[p] = tick
    BY <1>1, <1>8, <1>9, <1>10, <1>16, <2>1
  <2>2. CASE /\ wait >= 1 /\ car.direction # "IDLE"
             /\ wait + MovesToPass(car, s) <= Rounds(MadeWay(p)) * Round
    <3>1. CASE ~PassesBy(car, target, s)
      <4>1. MadeWay(p) \subseteq MadeWay(p)'
        BY <1>8, <1>13, <1>14, <1>15, <2>2, <3>1
      <4>2. Rounds(MadeWay(p)) * Round <= Rounds(MadeWay(p)') * Round
        BY <1>11, <4>1, RoundsGrow
      <4>3. MovesToPass(after, s) <= MovesToPass(car, s) - 1
        BY <1>8, <2>2, <3>1
      <4>. QED
        BY <1>1, <1>9, <1>16, <2>2, <4>2, <4>3
    <3>2. CASE PassesBy(car, target, s)
      <4>1. /\ s \notin T
            /\ \A t \in T : /\ ~(MovesToReach(car, t) <= MovesToPass(car, s))
                            /\ MovesToReach(after, t) <= MovesToPass(after, s)
        BY <1>8, <3>2
      <4>2. Cardinality(car.passengers) >= MaxCapacity
        BY <1>5, <4>1 DEF IsFull
      <4>3. MadeWay(p) \subseteq MadeWay(p)'
        BY <1>13, <1>14, <1>15, <4>1
      <4>4. car.passengers \in SUBSET (MadeWay(p)' \ MadeWay(p))
        <5>1. \A q \in car.passengers :
                /\ q \in Passengers /\ status[q] = "RIDING" /\ assigned_elevator[q] = e
          BY <1>1, CarTypes DEF Bookkeeping
        <5>2. \A q \in car.passengers : q \in BoardedAhead(p)
          BY <5>1 DEF BoardedAhead
        <5>3. \A q \in car.passengers : requests[q].dest \in T
          BY DEF TargetFloors
        <5>. QED
          BY <1>14, <1>15, <4>1, <5>1, <5>2, <5>3
      <4>5. Rounds(MadeWay(p)) * Round + Round <= Rounds(MadeWay(p)') * Round
        BY <1>11, <4>2, <4>3, <4>4, RoundsGrow
      <4>. QED
        BY <1>1, <1>8, <1>9, <1>10, <1>16, <2>2, <4>5
    <3>. QED
      BY <3>1, <3>2
  <2>3. wait + 0 = wait
    BY <1>1
  <2>. QED
    BY <1>2, <2>1, <2>2, <2>3 DEF TurnComes
<1>. QED
  BY <1>1, <1>2, <1>8, <1>17 DEF TurnComes

LEMMA StepWaitProgress ==
  ASSUME TypeOK, Bookkeeping, DispatchQueue, TimesRecorded, Validated, NothingLeftToDoHere,
         WaitProgress, [Next]_vars
  PROVE  WaitProgress'
<1> SUFFICES ASSUME NEW p \in Passengers, status'[p] = "ASSIGNED"
             PROVE  TurnComes(p)'
  BY ConstantRequests DEF WaitProgress
<1>1. requests' = requests /\ Passengers' = Passengers
  BY ConstantRequests
<1>2. CASE status[p] # "ASSIGNED"
  <2>1. Dispatch /\ assigned_time'[p] = tick
    BY <1>2, PassengerStep
  <2>2. phase' = "DISPATCH" /\ tick' = tick
    BY <2>1 DEF Dispatch
  <2>. QED
    BY <2>1, <2>2 DEF TurnComes
<1>3. CASE status[p] = "ASSIGNED"
  <2> DEFINE e == assigned_elevator[p]
             s == requests[p].source
  <2>1. /\ e \in Elevators /\ elevators[e] \in Car(Passengers)
        /\ tick \in Int /\ assigned_time[p] \in Int
    BY <1>3, WaiterFacts
  <2>2. assigned_elevator'[p] = e /\ assigned_time'[p] = assigned_time[p]
    BY <1>3, PassengerStep
  <2>3. TurnComes(p)
    BY <1>3 DEF WaitProgress
  <2>4. CASE Move
    BY <1>3, <2>3, <2>4, MoveTurn
  <2>5. CASE Validate
    BY <1>3, <2>5 DEF Validate, Validated
  <2>6. CASE ~Move /\ ~Validate
    <3>1. /\ elevators'[e].current_floor = elevators[e].current_floor
          /\ elevators'[e].direction = elevators[e].direction
      <4>1. CASE Ingest \/ EndDispatch \/ Record \/ UNCHANGED vars
        BY <4>1 DEF Ingest, EndDispatch, Record, vars
      <4>2. CASE Dispatch
        BY <2>1, <4>2, DispatchKeeps
      <4>3. CASE Dropoff
        BY <2>1, <4>3, DropoffStep
      <4>4. CASE Pickup
        BY <2>1, <4>4, PickupStep
      <4>. QED
        BY <2>6, <4>1, <4>2, <4>3, <4>4 DEF Next, Terminated
    <3>2. /\ MovesToPass(elevators'[e], s) = MovesToPass(elevators[e], s)
          /\ MadeWay(p) \subseteq MadeWay(p)'
      BY <1>1, <1>3, <2>2, <3>1, MadeWayGrows
    <3>3. Rounds(MadeWay(p)) * Round <= Rounds(MadeWay(p)') * Round
          /\ Rounds(MadeWay(p)) * Round \in Nat /\ Rounds(MadeWay(p)') * Round \in Nat
      <4>1. MadeWay(p) \in SUBSET Passengers /\ MadeWay(p)' \in SUBSET Passengers
        BY <1>1 DEF MadeWay, BoardedAhead
      <4>. QED
        BY <3>2, <4>1, RoundsGrow
    <3>4. MovesToPass(elevators[e], s) \in Nat
      <4>1. s \in Floors
        <5>1. phase # "START" /\ phase # "INVALID_REQUEST"
          BY <1>3 DEF Validated
        <5>. QED
          BY <5>1 DEF Validated, ValidRequest
      <4>. QED
        BY <2>1, <4>1, MovesToPassType
    <3> DEFINE moved == IF phase = "RECORD" THEN 1 ELSE 0
               wait == tick - assigned_time[p] + moved
    <3>5. \/ phase \in {"DISPATCH", "DROPOFF", "PICKUP", "MOVE"} /\ assigned_time[p] = tick
          \/ /\ wait >= 1 /\ elevators[e].direction # "IDLE"
             /\ wait + MovesToPass(elevators[e], s) <= Rounds(MadeWay(p)) * Round
      BY <2>3 DEF TurnComes
    <3>6. CASE Record
      <4>1. ~Finished
        BY <1>3 DEF Finished, Registered
      <4>2. phase = "RECORD" /\ tick' = tick + 1 /\ phase' \in {"INGEST", "MAX_TICKS"}
        BY <3>6, <4>1 DEF Record
      <4>3. tick' - assigned_time'[p] + 0 = wait
        BY <2>1, <2>2, <4>2
      <4>4. wait + MovesToPass(elevators'[e], s) <= Rounds(MadeWay(p)') * Round
        BY <2>1, <3>2, <3>3, <3>4, <3>5, <4>2
      <4>. QED
        BY <1>1, <2>2, <3>1, <3>5, <4>2, <4>3, <4>4 DEF TurnComes
    <3>7. CASE ~Record
      <4>1. /\ tick' = tick
            /\ phase' = "RECORD" <=> phase = "RECORD"
            /\ phase \in {"DISPATCH", "DROPOFF", "PICKUP", "MOVE"} =>
                 phase' \in {"DISPATCH", "DROPOFF", "PICKUP", "MOVE"}
        BY <2>6, <3>7 DEF Next, Ingest, Dispatch, EndDispatch, Dropoff, Pickup, vars, Terminated
      <4>2. wait + MovesToPass(elevators[e], s) <= Rounds(MadeWay(p)) * Round =>
              wait + MovesToPass(elevators'[e], s) <= Rounds(MadeWay(p)') * Round
        BY <2>1, <3>2, <3>3, <3>4
      <4>. QED
        BY <1>1, <2>2, <3>1, <3>5, <4>1, <4>2 DEF TurnComes
    <3>. QED
      BY <3>6, <3>7
  <2>. QED
    BY <2>4, <2>5, <2>6
<1>. QED
  BY <1>2, <1>3

-----------------------------------------------------------------------------
(* WaitBound, those still waiting and those on board or delivered apart *)

WaitingInTime ==
  \A p \in Passengers : status[p] = "ASSIGNED" =>
    tick - assigned_time[p] <= Rounds(BoardedAhead(p)) * Round

BoardedInTime ==
  \A p \in Passengers : status[p] \in {"RIDING", "DELIVERED"} =>
    pickup_time[p] - assigned_time[p] <= Rounds(BoardedAhead(p)) * Round

LEMMA WaitingBounded ==
  TypeOK /\ Bookkeeping /\ TimesRecorded /\ Validated /\ WaitProgress => WaitingInTime
<1> SUFFICES ASSUME TypeOK, Bookkeeping, TimesRecorded, Validated, WaitProgress,
                    NEW p \in Passengers, status[p] = "ASSIGNED"
             PROVE  tick - assigned_time[p] <= Rounds(BoardedAhead(p)) * Round
  BY DEF WaitingInTime
<1> DEFINE car == elevators[assigned_elevator[p]]
           s == requests[p].source
           moved == IF phase = "RECORD" THEN 1 ELSE 0
           wait == tick - assigned_time[p]
<1>1. car \in Car(Passengers) /\ tick \in Int /\ assigned_time[p] \in Int
  BY WaiterFacts
<1>2. s \in Floors
  <2>1. phase # "START" /\ phase # "INVALID_REQUEST"
    BY DEF Validated
  <2>. QED
    BY <2>1 DEF Validated, ValidRequest
<1>3. MovesToPass(car, s) \in Nat
  BY <1>1, <1>2, MovesToPassType
<1>4. /\ Rounds(MadeWay(p)) * Round <= Rounds(BoardedAhead(p)) * Round
      /\ Rounds(MadeWay(p)) * Round \in Nat /\ Rounds(BoardedAhead(p)) * Round \in Nat
  <2>1. /\ MadeWay(p) \in SUBSET Passengers /\ BoardedAhead(p) \in SUBSET Passengers
        /\ MadeWay(p) \subseteq BoardedAhead(p)
    BY DEF MadeWay, BoardedAhead
  <2>. QED
    BY <2>1, RoundsGrow
<1>5. \/ wait = 0
      \/ wait + moved + MovesToPass(car, s) <= Rounds(MadeWay(p)) * Round
  BY <1>1 DEF WaitProgress, TurnComes
<1>6. moved \in Nat
  OBVIOUS
<1> HIDE DEF car, s, moved
<1>. QED
  BY <1>1, <1>3, <1>4, <1>5, <1>6

LEMMA StepBoardedInTime ==
  ASSUME TypeOK, Bookkeeping, DispatchQueue, RideProgress, TimesOrdered,
         WaitingInTime, BoardedInTime, [Next]_vars
  PROVE  BoardedInTime'
<1> SUFFICES ASSUME NEW p \in Passengers, status'[p] \in {"RIDING", "DELIVERED"}
             PROVE  pickup_time'[p] - assigned_time'[p] <= Rounds(BoardedAhead(p)') * Round
  BY ConstantRequests DEF BoardedInTime, Rounds, Round
<1>1. requests' = requests /\ Passengers' = Passengers
  BY ConstantRequests
<1>2. BoardedAhead(p) \in SUBSET Passengers /\ BoardedAhead(p)' \in SUBSET Passengers
  BY <1>1 DEF BoardedAhead
<1>3. \A q \in BoardedAhead(p) :
        /\ q \in Passengers /\ q # p /\ assigned_elevator[q] = assigned_elevator[p]
        /\ status[q] \in {"RIDING", "DELIVERED"}
        /\ status'[q] \in {"RIDING", "DELIVERED"}
        /\ assigned_elevator'[q] = assigned_elevator[q]
        /\ pickup_time'[q] = pickup_time[q]
  <2>1. \A q \in BoardedAhead(p) :
          /\ q \in Passengers /\ q # p /\ assigned_elevator[q] = assigned_elevator[p]
          /\ status[q] \in {"RIDING", "DELIVERED"}
    BY DEF BoardedAhead
  <2>. QED
    BY <2>1, PassengerStep
<1>4. /\ pickup_time'[p] - assigned_time'[p] <= Rounds(BoardedAhead(p)) * Round
      /\ BoardedAhead(p) \subseteq BoardedAhead(p)'
  <2>1. CASE status[p] \in {"RIDING", "DELIVERED"}
    <3>1. /\ pickup_time'[p] = pickup_time[p] /\ assigned_time'[p] = assigned_time[p]
          /\ assigned_elevator'[p] = assigned_elevator[p] /\ status'[p] # "ASSIGNED"
      BY <2>1, PassengerStep
    <3>2. BoardedAhead(p) \subseteq BoardedAhead(p)'
      <4>1. \A q \in BoardedAhead(p) : pickup_time[q] < pickup_time[p]
        BY <2>1 DEF BoardedAhead
      <4>. QED
        BY <1>1, <1>3, <3>1, <4>1 DEF BoardedAhead
    <3>. QED
      BY <2>1, <3>1, <3>2 DEF BoardedInTime
  <2>2. CASE status[p] \notin {"RIDING", "DELIVERED"}
    <3>1. /\ status[p] = "ASSIGNED" /\ Pickup
          /\ pickup_time'[p] = tick /\ assigned_time'[p] = assigned_time[p]
          /\ assigned_elevator'[p] = assigned_elevator[p]
      BY <2>2, PassengerStep
    <3>2. phase = "PICKUP"
      BY <3>1 DEF Pickup
    <3>3. BoardedAhead(p) \subseteq BoardedAhead(p)'
      <4>1. \A q \in BoardedAhead(p) : pickup_time[q] < tick
        BY <1>3, <3>2, OnBoardBefore
      <4>. QED
        BY <1>1, <1>3, <3>1, <4>1 DEF BoardedAhead
    <3>. QED
      BY <3>1, <3>3 DEF WaitingInTime
  <2>. QED
    BY <2>1, <2>2
<1>5. /\ Rounds(BoardedAhead(p)) * Round <= Rounds(BoardedAhead(p)') * Round
      /\ Rounds(BoardedAhead(p)) * Round \in Nat /\ Rounds(BoardedAhead(p)') * Round \in Nat
  BY <1>2, <1>4, RoundsGrow
<1>6. pickup_time'[p] - assigned_time'[p] \in Int
  <2>1. tick \in Int /\ pickup_time[p] \in Int /\ assigned_time[p] \in Int
    BY DEF TypeOK, None
  <2>. QED
    BY <2>1, PassengerStep
<1>. QED
  BY <1>4, <1>5, <1>6

\* Whenever a car goes past somebody who waits for it, it is full of people who
\* all get off before it comes by again (WaitProgress).
THEOREM WaitProgressHolds == Spec => []WaitProgress
<1>1. Init => WaitProgress
  BY DEF Init, WaitProgress
<1>. QED
  BY <1>1, StepWaitProgress, TypeCorrect, BookkeepingHolds, TimesRecordedHold, ValidatedHolds,
     NothingLeftHolds, PTL DEF Spec

LEMMA WaitWithinBound == WaitingInTime /\ BoardedInTime => WaitBound
  BY DEF WaitingInTime, BoardedInTime, WaitBound

\* Hence nobody waits longer than a round of the building for every full load of
\* others that boarded before, and one more (WaitBound): for every strategy and
\* workload, however the stops of the car come and go.
THEOREM WaitBoundHolds == Spec => []WaitBound
<1>1. Init => BoardedInTime
  BY DEF Init, BoardedInTime
<1>2. Spec => []WaitingInTime
  BY WaitingBounded, TypeCorrect, BookkeepingHolds, TimesRecordedHold, ValidatedHolds,
     WaitProgressHolds, PTL
<1>3. Spec => []BoardedInTime
  BY <1>1, <1>2, StepBoardedInTime, TypeCorrect, BookkeepingHolds, RideProgressHolds,
     TimesHold, PTL DEF Spec
<1>. QED
  BY <1>2, <1>3, WaitWithinBound, PTL

-----------------------------------------------------------------------------
(* IInv *)

\* The safety properties and what carries them hold together in every
\* reachable state (IInv).
THEOREM InvariantHolds == Spec => []IInv
  BY TypeCorrect, BookkeepingHolds, CapacityHolds, PolicyHolds, ValidatedHolds,
     StopClearedHolds, NothingLeftHolds, IdleHolds, RideProgressHolds, RideBoundHolds,
     TimesHold, FirstServedHolds, WaitProgressHolds, WaitBoundHolds, PTL DEF IInv

-----------------------------------------------------------------------------
(* StopsAtServedFloors *)

LEMMA StepStops ==
  ASSUME TypeOK, Bookkeeping, DispatchQueue, PolicyRespected, [Next]_vars
  PROVE  StopsAreServed
<1> SUFFICES ASSUME NEW p \in Passengers
             PROVE  /\ status[p] # "RIDING" /\ status'[p] = "RIDING" =>
                         LET e == assigned_elevator'[p]
                         IN  /\ elevators[e].current_floor = requests[p].source
                             /\ requests[p].source \in ServedFloors(e)
                    /\ status[p] # "DELIVERED" /\ status'[p] = "DELIVERED" =>
                         LET e == assigned_elevator'[p]
                         IN  /\ elevators[e].current_floor = requests[p].dest
                             /\ requests[p].dest \in ServedFloors(e)
  BY DEF StopsAreServed
<1> DEFINE e == assigned_elevator'[p]
<1>1. CASE status[p] # "RIDING" /\ status'[p] = "RIDING"
  <2>1. Pickup /\ status[p] = "ASSIGNED" /\ e = assigned_elevator[p]
    BY <1>1, PassengerStep
  <2>2. p \in WaitingHere(e)
    BY <1>1, <2>1, PickupStep
  <2>3. e \in Elevators /\ p \in elevators[e].assigned_requests
    BY <2>1 DEF Bookkeeping, TypeOK
  <2>. QED
    BY <1>1, <2>2, <2>3 DEF WaitingHere, PolicyRespected
<1>2. CASE status[p] # "DELIVERED" /\ status'[p] = "DELIVERED"
  <2>1. Dropoff /\ status[p] = "RIDING" /\ e = assigned_elevator[p]
    BY <1>2, PassengerStep
  <2>2. requests[p].dest = elevators[e].current_floor
    BY <1>2, <2>1, DropoffStep
  <2>3. e \in Elevators /\ p \in elevators[e].passengers
    BY <2>1 DEF Bookkeeping, TypeOK
  <2>. QED
    BY <1>2, <2>2, <2>3 DEF PolicyRespected
<1>. QED
  BY <1>1, <1>2

\* Boarding and leaving happen at the passenger's floors, and only where the
\* policy of the car lets it stop, although an express car passes other floors
\* and service_policy_respected() is called too late to see it.
THEOREM StopsHold == Spec => StopsAtServedFloors
  BY StepStops, TypeCorrect, BookkeepingHolds, PolicyHolds, PTL
     DEF Spec, StopsAtServedFloors

-----------------------------------------------------------------------------
(* Every id is registered when its time has come *)

SameId(p, q) == requests[p].passenger_id = requests[q].passenger_id

\* INGEST has seen the requests of time t.
Ingested(t) ==
  \/ t < tick
  \/ t = tick /\ phase \notin {"INGEST", "MAX_TICKS"}

IdsRegistered ==
  /\ phase = "START" => tick = 0
  /\ phase \notin {"START", "INVALID_REQUEST"} =>
       \A p \in Passengers : Ingested(requests[p].request_time) =>
         \E q \in Passengers : SameId(p, q) /\ status[q] # "ABSENT"

LEMMA RequestTimes ==
  ASSUME TypeOK
  PROVE  tick \in Int /\ \A p \in Passengers : requests[p].request_time \in Int
<1> SUFFICES ASSUME NEW p \in Passengers
             PROVE  tick \in Int /\ requests[p].request_time \in Int
  BY DEF TypeOK
<1>1. requests[p] \in Request
  BY DEF TypeOK, Passengers
<1>. QED
  BY <1>1 DEF Request, TypeOK

LEMMA StaysRegistered ==
  ASSUME TypeOK, Bookkeeping, DispatchQueue, [Next]_vars,
         NEW p \in Passengers, status[p] # "ABSENT"
  PROVE  status'[p] # "ABSENT"
  BY PassengerStep

LEMMA IngestRegisters ==
  ASSUME TypeOK, Bookkeeping, DispatchQueue, Ingest,
         NEW p \in Passengers, requests[p].request_time = tick
  PROVE  \E q \in Passengers : SameId(p, q) /\ status'[q] # "ABSENT"
<1>1. CASE \E q \in Passengers : SameId(p, q) /\ status[q] # "ABSENT"
  BY <1>1, StaysRegistered DEF Next
<1>2. CASE \A q \in Passengers : SameId(p, q) => status[q] = "ABSENT"
  <2> DEFINE S == {q \in Passengers : SameId(p, q) /\ requests[q].request_time = tick}
  <2>1. S \subseteq Nat /\ p \in S
    BY DEF SameId, TypeOK, Passengers
  <2>2. PICK m \in S : \A q \in S : m <= q
    BY <2>1, LeastElement
  <2>3. Arriving(m)
    BY <1>2, <2>2 DEF Arriving, SameId
  <2>. QED
    BY <2>2, <2>3 DEF Ingest
<1>. QED
  BY <1>1, <1>2

LEMMA StepIdsRegistered ==
  ASSUME TypeOK, Bookkeeping, DispatchQueue, Validated, IdsRegistered, [Next]_vars
  PROVE  IdsRegistered'
<1>1. requests' = requests /\ Passengers' = Passengers
  BY ConstantRequests
<1>2. tick \in Int /\ \A p \in Passengers : requests[p].request_time \in Int
  BY RequestTimes
<1>3. \A p \in Passengers : status[p] # "ABSENT" => status'[p] # "ABSENT"
  BY StaysRegistered
<1>4. CASE Validate
  <2>1. tick = 0 /\ tick' = 0 /\ phase' \in {"INGEST", "INVALID_REQUEST"}
    BY <1>4 DEF Validate, IdsRegistered
  <2>2. phase' = "INGEST" => \A p \in Passengers : requests[p].request_time >= 0
    BY <1>4 DEF Validate, ValidRequest
  <2>. QED
    BY <1>1, <1>2, <2>1, <2>2 DEF IdsRegistered, Ingested
<1>5. CASE Ingest
  <2>1. phase = "INGEST" /\ phase' = "DISPATCH" /\ tick' = tick
    BY <1>5 DEF Ingest
  <2>2. \A p \in Passengers : requests[p].request_time = tick =>
          \E q \in Passengers : SameId(p, q) /\ status'[q] # "ABSENT"
    BY <1>5, IngestRegisters
  <2>3. \A p \in Passengers : requests[p].request_time < tick =>
          \E q \in Passengers : SameId(p, q) /\ status'[q] # "ABSENT"
    BY <1>3, <2>1 DEF IdsRegistered, Ingested
  <2>. QED
    BY <1>1, <2>1, <2>2, <2>3 DEF IdsRegistered, Ingested, SameId
<1>6. CASE Dispatch \/ EndDispatch \/ Dropoff \/ Pickup \/ Move \/ UNCHANGED vars
  <2>1. /\ tick' = tick
        /\ \/ phase' = phase
           \/ /\ phase \notin {"START", "INGEST", "INVALID_REQUEST", "MAX_TICKS"}
              /\ phase' \notin {"START", "INGEST", "INVALID_REQUEST", "MAX_TICKS"}
    BY <1>6 DEF Dispatch, EndDispatch, Dropoff, Pickup, Move, vars
  <2>. QED
    BY <1>1, <1>3, <2>1 DEF IdsRegistered, Ingested, SameId
<1>7. CASE Record
  <2>1. phase = "RECORD"
    BY <1>7 DEF Record
  <2>2. \/ phase' = "COMPLETED" /\ tick' = tick
        \/ phase' \in {"INGEST", "MAX_TICKS"} /\ tick' = tick + 1
    BY <1>7 DEF Record
  <2>3. \A p \in Passengers : requests[p].request_time <= tick =>
          \E q \in Passengers : SameId(p, q) /\ status'[q] # "ABSENT"
    BY <1>2, <1>3, <2>1 DEF IdsRegistered, Ingested
  <2>. QED
    BY <1>1, <1>2, <2>2, <2>3 DEF IdsRegistered, Ingested, SameId
<1>. QED
  BY <1>4, <1>5, <1>6, <1>7 DEF Next, Terminated

LEMMA IdsRegisteredHolds == Spec => []IdsRegistered
<1>1. Init => IdsRegistered
  BY DEF Init, IdsRegistered
<1>. QED
  BY <1>1, StepIdsRegistered, TypeCorrect, BookkeepingHolds, ValidatedHolds, PTL DEF Spec

-----------------------------------------------------------------------------
(* OnePassengerPerId *)

LEMMA StepOnePerId ==
  ASSUME TypeOK, Bookkeeping, DispatchQueue, IdsRegistered, OnePassengerPerId, [Next]_vars
  PROVE  OnePassengerPerId'
<1> SUFFICES ASSUME NEW p \in Passengers, NEW q \in Passengers, SameId(p, q), Earlier(p, q)
             PROVE  status'[q] = "ABSENT"
  BY ConstantRequests DEF OnePassengerPerId, SameId, Earlier
<1>1. status[q] = "ABSENT"
  BY DEF OnePassengerPerId, SameId
<1>2. CASE Ingest /\ Arriving(q)
  <2>1. requests[q].request_time = tick /\ phase = "INGEST"
    BY <1>2 DEF Arriving, Ingest
  <2>2. \A r \in Passengers : SameId(q, r) =>
          status[r] = "ABSENT" /\ (requests[r].request_time = tick => q <= r)
    BY <1>2 DEF Arriving, SameId
  <2>3. p \in Nat /\ q \in Nat /\ requests[p].request_time \in Int /\ tick \in Int
    BY RequestTimes DEF TypeOK, Passengers
  <2>4. requests[p].request_time < tick
    BY <2>1, <2>2, <2>3 DEF Earlier, SameId
  <2>5. \E r \in Passengers : SameId(p, r) /\ status[r] # "ABSENT"
    BY <2>1, <2>4 DEF IdsRegistered, Ingested
  <2>. QED
    BY <2>2, <2>5 DEF SameId
<1>3. CASE ~(Ingest /\ Arriving(q))
  <2>1. Ingest => status'[q] = status[q]
    BY <1>3 DEF Ingest
  <2>. QED
    BY <1>1, <2>1, PassengerStep
<1>. QED
  BY <1>2, <1>3

\* Two requests with one id are one passenger, the first of them by time and
\* place in the list, whenever the second comes in (OnePassengerPerId).
THEOREM OnePerIdHolds == Spec => []OnePassengerPerId
<1>1. Init => OnePassengerPerId
  BY DEF Init, OnePassengerPerId
<1>. QED
  BY <1>1, StepOnePerId, TypeCorrect, BookkeepingHolds, IdsRegisteredHolds, PTL DEF Spec

-----------------------------------------------------------------------------
(* The end of a run *)

DistinctIds == \A p, q \in Passengers : SameId(p, q) => p = q

\* A new tick begins only if the last one did not finish the run.
NotFinished == phase = "INGEST" /\ Registered # {} => ~Finished

LEMMA StepNotFinished ==
  ASSUME TypeOK, Validated, NotFinished, [Next]_vars
  PROVE  NotFinished'
<1>1. CASE Validate
  BY <1>1 DEF Validate, passengerVars, NotFinished, Registered, Validated, Passengers
<1>2. CASE Record
  BY <1>2 DEF Record, passengerVars, NotFinished, Finished, Registered, Passengers
<1>3. CASE UNCHANGED vars
  BY <1>3 DEF vars, passengerVars, NotFinished, Finished, Registered, Passengers
<1>4. CASE Ingest \/ Dispatch \/ EndDispatch \/ Dropoff \/ Pickup \/ Move
  BY <1>4 DEF Ingest, Dispatch, EndDispatch, Dropoff, Pickup, Move, NotFinished
<1>. QED
  BY <1>1, <1>2, <1>3, <1>4 DEF Next, Terminated

LEMMA CardinalityOfPassengers ==
  ASSUME TypeOK
  PROVE  IsFiniteSet(Passengers) /\ Cardinality(Passengers) = Len(requests)
<1>1. Passengers = 1..Len(requests) /\ Len(requests) \in Nat
  BY DEF Passengers, TypeOK
<1>. QED
  BY <1>1, FS_Interval, SMTT(30)

LEMMA AllIngested ==
  ASSUME TypeOK, DistinctIds, IdsRegistered, NotFinished
  PROVE  StopsWhenDone
<1> SUFFICES ASSUME phase = "INGEST", Registered # {},
                    \A p \in Passengers : requests[p].request_time < tick,
                    \A p \in Registered : status[p] = "DELIVERED"
             PROVE  FALSE
  BY DEF StopsWhenDone
<1>1. Registered = Passengers
  BY DEF IdsRegistered, Ingested, DistinctIds, Registered
<1>2. Finished
  BY <1>1, CardinalityOfPassengers DEF Finished, TypeOK
<1>. QED
  BY <1>2 DEF NotFinished

\* If no id is repeated, the loop stops in the tick in which the last passenger
\* is delivered and never runs on over an empty building (StopsWhenDone).
THEOREM StopsWhenDoneHolds == Spec => [](DistinctIds => StopsWhenDone)
<1>1. Init => NotFinished
  BY DEF Init, NotFinished
<1>2. Spec => []NotFinished
  BY <1>1, StepNotFinished, TypeCorrect, ValidatedHolds, PTL DEF Spec
<1>. QED
  BY <1>2, AllIngested, TypeCorrect, IdsRegisteredHolds, PTL

CompletedHasDelivered ==
  phase = "COMPLETED" => \A p \in Passengers : status[p] = "DELIVERED"

LEMMA StepCompleted ==
  ASSUME TypeOK, CompletedHasDelivered, [Next]_vars
  PROVE  CompletedHasDelivered'
<1>1. CASE Record /\ Finished
  <2>1. Registered \subseteq Passengers /\ Cardinality(Registered) >= Len(requests)
    BY <1>1 DEF Registered, Finished
  <2>2. Registered = Passengers
    <3>1. IsFiniteSet(Passengers) /\ Cardinality(Passengers) = Len(requests)
      BY CardinalityOfPassengers
    <3>2. /\ Cardinality(Registered) <= Cardinality(Passengers)
          /\ Cardinality(Passengers) = Cardinality(Registered) => Passengers = Registered
      BY <2>1, <3>1, FS_Subset
    <3>3. Cardinality(Registered) \in Nat
      BY <2>1, <3>1, FS_Subset, FS_CardinalityType
    <3>4. Len(requests) \in Nat
      BY DEF TypeOK
    <3>. QED
      BY <2>1, <3>1, <3>2, <3>3, <3>4
  <2>. QED
    BY <1>1, <2>2, ConstantRequests
       DEF Record, Finished, passengerVars, CompletedHasDelivered, Next
<1>2. CASE UNCHANGED vars
  BY <1>2 DEF vars, passengerVars, CompletedHasDelivered, Passengers
<1>3. CASE Validate \/ Ingest \/ Dispatch \/ EndDispatch \/ Dropoff \/ Pickup \/ Move
           \/ (Record /\ ~Finished)
  <2>1. phase' # "COMPLETED"
    BY <1>3 DEF Validate, Ingest, Dispatch, EndDispatch, Dropoff, Pickup, Move, Record
  <2>. QED
    BY <2>1 DEF CompletedHasDelivered
<1>. QED
  BY <1>1, <1>2, <1>3 DEF Next, Terminated

\* A run that ends before its bound has delivered every single request, those
\* that came last and those with a car hard to get included: the early exit of
\* the loop forgets nobody (what all_passengers_delivered() would check).
THEOREM CompletedRunsDelivered == Spec => []CompletedHasDelivered
<1>1. Init => CompletedHasDelivered
  BY DEF Init, CompletedHasDelivered
<1>. QED
  BY <1>1, StepCompleted, TypeCorrect, PTL DEF Spec

-----------------------------------------------------------------------------
\* A new tick finds all deliveries in the past.
DeliveredBefore ==
  phase \in {"INGEST", "MAX_TICKS"} =>
    \A p \in Passengers : status[p] = "DELIVERED" => delivery_time[p] < tick

LEMMA StepDeliveredBefore ==
  ASSUME TypeOK, Bookkeeping, DispatchQueue, Validated, TimesOrdered, DeliveredBefore, [Next]_vars
  PROVE  DeliveredBefore'
<1>1. CASE Validate
  BY <1>1, ConstantRequests DEF Validate, passengerVars, Validated, DeliveredBefore
<1>2. CASE Record
  <2>1. phase' \in {"INGEST", "MAX_TICKS"} => tick' = tick + 1
    BY <1>2 DEF Record
  <2>2. UNCHANGED <<status, delivery_time, requests>> /\ Passengers' = Passengers
    BY <1>2, ConstantRequests DEF Record, passengerVars
  <2>3. \A p \in Passengers : status[p] = "DELIVERED" => delivery_time[p] <= tick
    BY DEF TimesOrdered
  <2>4. tick \in Int /\ \A p \in Passengers : delivery_time[p] \in Int
    BY DEF TypeOK, None
  <2>. QED
    BY <2>1, <2>2, <2>3, <2>4 DEF DeliveredBefore
<1>3. CASE UNCHANGED vars
  BY <1>3 DEF vars, passengerVars, DeliveredBefore, Passengers
<1>4. CASE Ingest \/ Dispatch \/ EndDispatch \/ Dropoff \/ Pickup \/ Move
  BY <1>4 DEF Ingest, Dispatch, EndDispatch, Dropoff, Pickup, Move, DeliveredBefore
<1>. QED
  BY <1>1, <1>2, <1>3, <1>4 DEF Next, Terminated

-----------------------------------------------------------------------------
(* Dispatch is prompt *)

LEMMA ConstantEligible ==
  [Next]_vars => strategy' = strategy /\ \A p : Eligible(p)' = Eligible(p)
<1> SUFFICES ASSUME [Next]_vars PROVE strategy' = strategy /\ \A p : Eligible(p)' = Eligible(p)
  OBVIOUS
<1>1. strategy' = strategy
  BY DEF Next, vars, Validate, Ingest, Dispatch, EndDispatch, Dropoff, Pickup, Move,
         Record, Terminated
<1>. QED
  BY <1>1, ConstantRequests DEF Eligible, ServedFloors

\* The car of a passenger may serve the trip, to the end.
AssignedEligible ==
  \A p \in Passengers :
    status[p] \in {"ASSIGNED", "RIDING", "DELIVERED"} => assigned_elevator[p] \in Eligible(p)

LEMMA StepAssignedEligible ==
  ASSUME TypeOK, Bookkeeping, DispatchQueue, AssignedEligible, [Next]_vars
  PROVE  AssignedEligible'
<1> SUFFICES ASSUME NEW p \in Passengers, status'[p] \in {"ASSIGNED", "RIDING", "DELIVERED"}
             PROVE  assigned_elevator'[p] \in Eligible(p)
  BY ConstantRequests, ConstantEligible DEF AssignedEligible
<1>1. CASE status[p] = "WAITING" /\ status'[p] = "ASSIGNED" /\ Dispatch
  <2>1. PICK q \in unassigned :
          /\ q \in Passengers
          /\ LeaveWaiting \/ \E e \in Elevators : e \in Eligible(q) /\ Assign(q, e)
    BY <1>1, DispatchStep
  <2>2. ~LeaveWaiting
    BY <1>1 DEF LeaveWaiting
  <2>3. PICK e \in Elevators : e \in Eligible(q) /\ Assign(q, e)
    BY <2>1, <2>2
  <2>4. p = q
    BY <1>1, <2>3 DEF Assign, TypeOK
  <2>. QED
    BY <2>3, <2>4 DEF Assign, TypeOK
<1>2. CASE ~(status[p] = "WAITING" /\ status'[p] = "ASSIGNED" /\ Dispatch)
  BY <1>2, PassengerStep DEF AssignedEligible
<1>. QED
  BY <1>1, <1>2

\* Whom some car may serve is assigned in the tick of the request.
PromptlyAssigned ==
  strategy # "any_or_error" =>
    \A p \in Passengers :
      /\ status[p] \in {"ASSIGNED", "RIDING", "DELIVERED"} =>
           assigned_time[p] = requests[p].request_time
      /\ status[p] = "WAITING" /\ Eligible(p) # {} =>
           phase = "DISPATCH" /\ requests[p].request_time = tick

LEMMA StepPromptlyAssigned ==
  ASSUME TypeOK, Bookkeeping, DispatchQueue, PassedInVain, AssignedEligible,
         PromptlyAssigned, [Next]_vars
  PROVE  PromptlyAssigned'
<1> SUFFICES ASSUME strategy # "any_or_error", NEW p \in Passengers
             PROVE  /\ status'[p] \in {"ASSIGNED", "RIDING", "DELIVERED"} =>
                         assigned_time'[p] = requests[p].request_time
                    /\ status'[p] = "WAITING" /\ Eligible(p) # {} =>
                         phase' = "DISPATCH" /\ requests[p].request_time = tick'
  BY ConstantRequests, ConstantEligible DEF PromptlyAssigned
<1>1. CASE Ingest
  <2>1. phase = "INGEST" /\ phase' = "DISPATCH" /\ tick' = tick
    BY <1>1 DEF Ingest
  <2>. QED
    BY <2>1, PassengerStep, <1>1 DEF PromptlyAssigned, Ingest
<1>2. CASE Dispatch
  <2>1. phase = "DISPATCH" /\ phase' = "DISPATCH" /\ tick' = tick
    BY <1>2 DEF Dispatch
  <2>2. CASE status[p] = "WAITING" /\ status'[p] = "ASSIGNED"
    <3>1. assigned_elevator'[p] \in Eligible(p)
      BY <2>2, StepAssignedEligible, ConstantRequests, ConstantEligible DEF AssignedEligible
    <3>2. assigned_time'[p] = tick
      BY <1>2, <2>2, DispatchKeeps
    <3>. QED
      BY <2>2, <3>1, <3>2 DEF PromptlyAssigned
  <2>3. CASE status'[p] = status[p] /\ assigned_time'[p] = assigned_time[p]
    BY <2>1, <2>3 DEF PromptlyAssigned
  <2>. QED
    BY <1>2, <2>2, <2>3, DispatchKeeps
<1>3. CASE ~Ingest /\ ~Dispatch
  <2>1. /\ status'[p] \in {"ASSIGNED", "RIDING", "DELIVERED"} =>
             /\ status[p] \in {"ASSIGNED", "RIDING", "DELIVERED"}
             /\ assigned_time'[p] = assigned_time[p]
        /\ status'[p] = "WAITING" => status[p] = "WAITING"
    BY <1>3, PassengerStep
  <2>2. ASSUME status[p] = "WAITING", Eligible(p) # {}
        PROVE  phase' = "DISPATCH" /\ requests[p].request_time = tick'
    <3>1. phase = "DISPATCH" /\ requests[p].request_time = tick
      BY <2>2 DEF PromptlyAssigned
    <3>2. unassigned # {}
      BY <2>2, <3>1 DEF PassedInVain
    <3>3. UNCHANGED <<phase, tick>>
      BY <1>3, <3>1, <3>2 DEF Next, vars, Validate, EndDispatch, Dropoff, Pickup, Move, Record,
                              Terminated
    <3>. QED
      BY <3>1, <3>3
  <2>. QED
    BY <2>1, <2>2 DEF PromptlyAssigned
<1>. QED
  BY <1>1, <1>2, <1>3

-----------------------------------------------------------------------------
(* The bound of the loop *)

\* Together the batches carry everybody.
LEMMA BatchesCarryAll ==
  ASSUME TypeOK
  PROVE  /\ FleetCapacity \in Nat /\ FleetCapacity >= 1
         /\ Batches \in Nat /\ Len(requests) <= Batches * FleetCapacity
<1> DEFINE n == Len(requests)
           c == FleetCapacity
           x == n + c - 1
<1>1. c \in Nat /\ c >= 1
  <2>1. NumElevators * MaxCapacity \in Nat /\ NumElevators * MaxCapacity >= 1 * MaxCapacity
    BY CarAssumption, FleetAssumption, TimesGrow
  <2>. QED
    BY <2>1, CarAssumption DEF FleetCapacity
<1>2. n \in Nat
  BY DEF TypeOK
<1>. HIDE DEF n, c
<1>3. x \in Nat
  BY <1>1, <1>2
<1>4. x \div c \in Nat /\ x < (x \div c) * c + c
  <2>. HIDE DEF x
  <2>. QED
    BY <1>1, <1>3, QuotientBounds
<1>5. (x \div c) * c \in Int
  <2>. HIDE DEF x
  <2>. QED
    BY <1>1, <1>4
<1>6. n <= (x \div c) * c
  <2> DEFINE m == (x \div c) * c
  <2>1. m \in Int /\ n + c - 1 < m + c
    BY <1>4, <1>5
  <2>. HIDE DEF m
  <2>2. n <= m
    BY <1>1, <1>2, <2>1
  <2>. QED
    BY <2>2 DEF m
<1>7. Batches = x \div c
  BY DEF Batches, n, c
<1>. HIDE DEF x
<1>. QED
  BY <1>1, <1>4, <1>6, <1>7 DEF n, c

LEMMA LatestRequest ==
  ASSUME TypeOK, Passengers # {}
  PROVE  /\ MaxRequestTime \in Int
         /\ \A p \in Passengers : requests[p].request_time <= MaxRequestTime
<1> DEFINE times == {requests[p].request_time : p \in Passengers}
           n == Len(requests)
<1>1. Passengers = 1..n /\ n \in Nat /\ IsFiniteSet(Passengers)
  BY CardinalityOfPassengers DEF Passengers, TypeOK
<1>2. requests # <<>>
  BY <1>1 DEF Passengers
<1>3. IsFiniteSet(times) /\ times \subseteq Int /\ times # {}
  <2> DEFINE f == [p \in Passengers |-> requests[p].request_time]
  <2>1. f \in Surjection(Passengers, times)
    BY DEF Surjection
  <2>. QED
    BY <1>1, <2>1, RequestTimes, FS_Surjection
<1>4. PICK t \in times : \A u \in times : u <= t
  <2> HIDE DEF times
  <2>. QED
    BY <1>3, GreatestElement
<1>5. MaxRequestTime \in times /\ \A p \in Passengers : requests[p].request_time <= MaxRequestTime
  <2>1. \A p \in Passengers : requests[p].request_time <= t
    BY <1>4
  <2>. QED
    BY <1>2, <2>1 DEF MaxRequestTime
<1>. QED
  BY <1>3, <1>5

\* A run that is cut off has gone on for so long.
OverTheBound == phase = "MAX_TICKS" => ~(tick <= MaxTicks)

LEMMA StepOverTheBound ==
  ASSUME TypeOK, OverTheBound, [Next]_vars
  PROVE  OverTheBound'
<1>1. MaxTicks' = MaxTicks
  <2>1. MaxRequestTime' = MaxRequestTime
    <3> DEFINE Latest(r) == IF r = <<>> THEN 0
                            ELSE CHOOSE t \in {r[p].request_time : p \in DOMAIN r} :
                                   \A p \in DOMAIN r : r[p].request_time <= t
    <3>1. MaxRequestTime = Latest(requests) /\ MaxRequestTime' = Latest(requests')
      BY DEF MaxRequestTime, Passengers
    <3>2. requests' = requests
      BY ConstantRequests
    <3>. HIDE DEF Latest
    <3>. QED
      BY <3>1, <3>2
  <2>. QED
    BY <2>1, ConstantRequests DEF MaxTicks, Batches, FleetCapacity
<1>2. CASE Record
  <2>1. phase' = "MAX_TICKS" => tick' = tick + 1 /\ ~(tick + 1 <= MaxTicks)
    BY <1>2 DEF Record
  <2>. QED
    BY <1>1, <2>1 DEF OverTheBound
<1>3. CASE ~Record
  <2>1. phase' = "MAX_TICKS" => phase = "MAX_TICKS" /\ tick' = tick
    BY <1>3 DEF Next, vars, Validate, Ingest, Dispatch, EndDispatch, Dropoff, Pickup, Move,
                Terminated
  <2>. QED
    BY <1>1, <2>1 DEF OverTheBound
<1>. QED
  BY <1>2, <1>3

\* After every request there was time for the rounds of all batches, for
\* one batch at least, and for one ride more.
LEMMA RoomInTheBound ==
  ASSUME TypeOK, OverTheBound, phase = "MAX_TICKS", NEW p \in Passengers
  PROVE  /\ Batches \in Nat /\ Batches * Round \in Nat /\ Round <= Batches * Round
         /\ tick > requests[p].request_time + Batches * Round + 2 * NumFloors
<1>1. /\ MaxRequestTime \in Int /\ requests[p].request_time <= MaxRequestTime
      /\ requests[p].request_time \in Int /\ tick \in Int
  BY LatestRequest, RequestTimes
<1>2. Batches \in Nat /\ Batches >= 1
  <2>1. Len(requests) \in Nat /\ Len(requests) >= 1
    BY DEF TypeOK, Passengers
  <2>2. /\ FleetCapacity \in Nat /\ FleetCapacity >= 1
        /\ Batches \in Nat /\ Len(requests) <= Batches * FleetCapacity
    BY BatchesCarryAll
  <2>3. Batches # 0
    <3>1. 0 * FleetCapacity = 0
      BY <2>2
    <3>. QED
      BY <2>1, <2>2, <3>1
  <2>. QED
    BY <2>2, <2>3
<1>3. Round \in Nat
  BY CarAssumption DEF Round
<1>4. Batches * Round \in Nat /\ 1 * Round <= Batches * Round /\ 1 * Round = Round
  BY <1>2, <1>3, TimesGrow
<1>5. Batches * Round <= Batches * NumFloors * 2
  <2>1. Round * Batches <= (NumFloors * 2) * Batches
    <3>1. Round <= NumFloors * 2 /\ NumFloors * 2 \in Int
      BY CarAssumption DEF Round
    <3>. QED
      BY <1>2, <1>3, <3>1, TimesGrow
  <2>2. Round * Batches = Batches * Round
    BY <1>2, <1>3
  <2>3. (NumFloors * 2) * Batches = Batches * NumFloors * 2
    BY <1>2, CarAssumption
  <2>. QED
    BY <2>1, <2>2, <2>3
<1>6. Batches * NumFloors * 2 \in Int /\ NumFloors \in Int
  BY <1>2, CarAssumption
<1>7. tick > MaxRequestTime + Batches * NumFloors * 2 + NumFloors * 2
  <2> DEFINE b == Batches * NumFloors * 2
  <2>1. b \in Int /\ ~(tick <= MaxRequestTime + b + NumFloors * 2)
    BY <1>6 DEF OverTheBound, MaxTicks
  <2>. HIDE DEF b
  <2>2. tick > MaxRequestTime + b + NumFloors * 2
    BY <1>1, <1>6, <2>1
  <2>. QED
    BY <2>2 DEF b
<1>8. tick > requests[p].request_time + Batches * Round + 2 * NumFloors
  <2> DEFINE a == Batches * Round
             b == Batches * NumFloors * 2
  <2>1. a \in Nat /\ b \in Int /\ a <= b /\ tick > MaxRequestTime + b + NumFloors * 2
    BY <1>4, <1>5, <1>6, <1>7
  <2>. HIDE DEF a, b
  <2>2. tick > requests[p].request_time + a + 2 * NumFloors
    BY <1>1, <1>6, <2>1
  <2>. QED
    BY <2>2 DEF a
<1>. QED
  BY <1>2, <1>4, <1>8

-----------------------------------------------------------------------------
(* EnoughTicks *)

\* In a load that is spread, a passenger waits no more rounds than there are
\* batches.
LEMMA RoundsOfSpreadLoad ==
  ASSUME TypeOK, LoadSpread, NEW p \in Passengers, assigned_elevator[p] \in Elevators
  PROVE  Rounds(BoardedAhead(p)) * Round <= Batches * Round
<1> DEFINE B == BoardedAhead(p)
           S == {q \in Passengers : assigned_elevator[q] = assigned_elevator[p]}
<1>1. /\ IsFiniteSet(B) /\ Cardinality(B) \in Nat /\ B \in SUBSET Passengers
      /\ IsFiniteSet(S) /\ Cardinality(S) \in Nat
  <2>1. B \in SUBSET Passengers /\ S \in SUBSET Passengers
    BY DEF BoardedAhead
  <2>. QED
    BY <2>1, FinitePassengers
<1>2. Cardinality(B) + 1 <= Cardinality(S)
  <2>1. B \cup {p} \subseteq S /\ p \notin B
    BY DEF BoardedAhead
  <2>. HIDE DEF B, S
  <2>2. Cardinality(B \cup {p}) = Cardinality(B) + 1
    BY <1>1, <2>1, FS_AddElement
  <2>3. Cardinality(B \cup {p}) <= Cardinality(S)
    BY <1>1, <2>1, FS_Subset
  <2>. QED
    BY <2>2, <2>3
<1>3. Cardinality(S) <= Batches * MaxCapacity
  BY DEF LoadSpread
<1>4. /\ MaxCapacity \in Nat /\ MaxCapacity >= 1 /\ Batches \in Nat /\ Round \in Nat
  BY BatchesCarryAll, CarAssumption DEF Round
<1> DEFINE k == Cardinality(B) \div MaxCapacity
<1>. HIDE DEF S, B
<1>5. k \in Nat /\ k * MaxCapacity <= Cardinality(B)
  BY <1>1, <1>4, QuotientBounds
<1>. HIDE DEF k
<1>6. k + 1 <= Batches
  <2> SUFFICES ASSUME Batches <= k PROVE FALSE
    BY <1>4, <1>5
  <2>1. Batches * MaxCapacity <= k * MaxCapacity
    BY <1>4, <1>5, TimesGrow
  <2>2. Batches * MaxCapacity \in Int /\ k * MaxCapacity \in Int
    BY <1>4, <1>5
  <2>. QED
    BY <1>1, <1>2, <1>3, <1>5, <2>1, <2>2
<1>7. Rounds(B) = 1 + k
  BY DEF Rounds, k
<1>8. (1 + k) * Round <= Batches * Round
  BY <1>4, <1>5, <1>6, TimesGrow
<1>. QED
  BY <1>7, <1>8 DEF B

LEMMA ServedByTheEnd ==
  ASSUME TypeOK, Bookkeeping, Validated, IdsRegistered, CompletedHasDelivered,
         PromptlyAssigned, OverTheBound, WaitBound, RidingInTime
  PROVE  EnoughTicks
<1> SUFFICES ASSUME phase \in {"COMPLETED", "MAX_TICKS"}, strategy # "any_or_error", LoadSpread,
                    NEW p \in Passengers, Eligible(p) # {}, status[p] # "DELIVERED"
             PROVE  /\ status[p] = "ABSENT"
                    /\ \E q \in Registered : requests[q].passenger_id = requests[p].passenger_id
  BY DEF EnoughTicks, ServedInTime
<1> DEFINE all == Batches * Round
<1>1. phase = "MAX_TICKS"
  BY DEF CompletedHasDelivered
<1>2. all \in Nat /\ tick > requests[p].request_time + all + 2 * NumFloors
  BY <1>1, RoomInTheBound
<1>3. /\ tick \in Int /\ requests[p].request_time \in Int /\ NumFloors \in Nat
      /\ pickup_time[p] \in Int /\ assigned_time[p] \in Int
  BY RequestTimes, CarAssumption DEF TypeOK, None
<1>4. status[p] # "WAITING"
  BY <1>1 DEF PromptlyAssigned
<1>5. ASSUME status[p] \in {"ASSIGNED", "RIDING"}
      PROVE  /\ assigned_time[p] = requests[p].request_time
             /\ Rounds(BoardedAhead(p)) * Round \in Int
             /\ Rounds(BoardedAhead(p)) * Round <= all
  <2>1. assigned_elevator[p] \in Elevators
    BY <1>5 DEF Bookkeeping, TypeOK
  <2>2. BoardedAhead(p) \in SUBSET Passengers
    BY DEF BoardedAhead
  <2>3. Rounds(BoardedAhead(p)) * Round \in Int
    BY <2>2, RoundsGrow
  <2>. QED
    BY <1>5, <2>1, <2>3, RoundsOfSpreadLoad DEF PromptlyAssigned
<1>6. status[p] # "ASSIGNED"
  <2> SUFFICES ASSUME status[p] = "ASSIGNED" PROVE FALSE
    OBVIOUS
  <2>1. tick - assigned_time[p] <= Rounds(BoardedAhead(p)) * Round
    BY DEF WaitBound
  <2>. HIDE DEF all
  <2>. QED
    BY <1>2, <1>3, <1>5, <2>1
<1>7. status[p] # "RIDING"
  <2> SUFFICES ASSUME status[p] = "RIDING" PROVE FALSE
    OBVIOUS
  <2>1. pickup_time[p] - assigned_time[p] <= Rounds(BoardedAhead(p)) * Round
    BY DEF WaitBound
  <2>2. tick - pickup_time[p] <= 2 * NumFloors - 3
    BY DEF RidingInTime
  <2>. HIDE DEF all
  <2>. QED
    BY <1>2, <1>3, <1>5, <2>1, <2>2
<1>8. status[p] = "ABSENT"
  BY <1>4, <1>6, <1>7 DEF TypeOK, PassengerStatus
<1>9. Ingested(requests[p].request_time)
  <2>. HIDE DEF all
  <2>. QED
    BY <1>2, <1>3 DEF Ingested
<1>. QED
  BY <1>1, <1>8, <1>9 DEF IdsRegistered, SameId, Registered

LEMMA PromptHolds ==
  Spec => [](AssignedEligible /\ PassedInVain /\ PromptlyAssigned)
<1>1. Init => AssignedEligible /\ PassedInVain /\ PromptlyAssigned
  BY DEF Init, AssignedEligible, PassedInVain, PromptlyAssigned
<1>2. Spec => [](AssignedEligible /\ PassedInVain)
  BY <1>1, StepAssignedEligible, StepPassedInVain, TypeCorrect, BookkeepingHolds, PTL DEF Spec
<1>. QED
  BY <1>1, <1>2, StepPromptlyAssigned, TypeCorrect, BookkeepingHolds, PTL DEF Spec

LEMMA OverTheBoundHolds == Spec => []OverTheBound
<1>1. Init => OverTheBound
  BY DEF Init, OverTheBound
<1>. QED
  BY <1>1, StepOverTheBound, TypeCorrect, PTL DEF Spec

LEMMA RidingInTimeHolds == Spec => []RidingInTime
  BY RidingBounded, TypeCorrect, BookkeepingHolds, ValidatedHolds, RideProgressHolds, PTL

\* What max_ticks is computed for comes true: if no car gets more than its share
\* of the batches, whoever some car may serve is delivered when the loop ends,
\* early or at its bound (EnoughTicks), under every strategy that may not refuse.
THEOREM EnoughTicksHolds == Spec => []EnoughTicks
  BY ServedByTheEnd, TypeCorrect, BookkeepingHolds, ValidatedHolds, IdsRegisteredHolds,
     CompletedRunsDelivered, PromptHolds, OverTheBoundHolds, WaitBoundHolds,
     RidingInTimeHolds, PTL

-----------------------------------------------------------------------------
(* The first to board *)

NobodyBoarded == \A p \in Passengers : status[p] \notin {"RIDING", "DELIVERED"}

\* While nobody has boarded, nobody waits longer than a round.
LEMMA FirstWaitBounded ==
  ASSUME TypeOK, NobodyBoarded, WaitBound, NEW p \in Passengers, status[p] = "ASSIGNED"
  PROVE  tick - assigned_time[p] <= Round
<1>1. BoardedAhead(p) = {}
  BY DEF BoardedAhead, NobodyBoarded
<1>2. Rounds({}) = 1
  <2> DEFINE k == 0 \div MaxCapacity
  <2>1. MaxCapacity \in Nat /\ MaxCapacity >= 1
    BY CarAssumption
  <2>2. k \in Nat /\ k * MaxCapacity <= 0
    BY <2>1, QuotientBounds
  <2>. HIDE DEF k
  <2>3. k = 0
    <3> SUFFICES ASSUME 1 <= k PROVE FALSE
      BY <2>2
    <3>1. 1 * MaxCapacity <= k * MaxCapacity /\ 1 * MaxCapacity = MaxCapacity
      BY <2>1, <2>2, TimesGrow
    <3>2. k * MaxCapacity \in Int
      BY <2>1, <2>2
    <3>. QED
      BY <2>1, <2>2, <3>1, <3>2
  <2>. QED
    BY <2>3, FS_EmptySet DEF Rounds, k
<1>3. 1 * Round = Round
  BY CarAssumption DEF Round
<1>. QED
  BY <1>1, <1>2, <1>3 DEF WaitBound

\* The first to board has not waited longer, either.
FirstRideEarly ==
  ~NobodyBoarded /\ strategy # "any_or_error" =>
    \E p \in Passengers :
      /\ status[p] \in {"RIDING", "DELIVERED"}
      /\ pickup_time[p] - requests[p].request_time <= Round

LEMMA StepFirstRideEarly ==
  ASSUME TypeOK, Bookkeeping, DispatchQueue, PromptlyAssigned, WaitBound, FirstRideEarly,
         [Next]_vars
  PROVE  FirstRideEarly'
<1> SUFFICES ASSUME ~NobodyBoarded', strategy # "any_or_error"
             PROVE  \E p \in Passengers :
                      /\ status'[p] \in {"RIDING", "DELIVERED"}
                      /\ pickup_time'[p] - requests[p].request_time <= Round
  BY ConstantRequests, ConstantEligible DEF FirstRideEarly, Round
<1>1. CASE ~NobodyBoarded
  <2>1. PICK p \in Passengers :
          /\ status[p] \in {"RIDING", "DELIVERED"}
          /\ pickup_time[p] - requests[p].request_time <= Round
    BY <1>1 DEF FirstRideEarly
  <2>2. status'[p] \in {"RIDING", "DELIVERED"} /\ pickup_time'[p] = pickup_time[p]
    BY <2>1, PassengerStep
  <2>. QED
    BY <2>1, <2>2
<1>2. CASE NobodyBoarded
  <2>1. PICK p \in Passengers : status'[p] \in {"RIDING", "DELIVERED"}
    BY ConstantRequests DEF NobodyBoarded
  <2>2. status[p] = "ASSIGNED" /\ status'[p] = "RIDING" /\ pickup_time'[p] = tick
    BY <1>2, <2>1, PassengerStep DEF NobodyBoarded
  <2>3. tick - assigned_time[p] <= Round
    BY <1>2, <2>2, FirstWaitBounded
  <2>4. assigned_time[p] = requests[p].request_time
    BY <2>2 DEF PromptlyAssigned
  <2>. QED
    BY <2>2, <2>3, <2>4
<1>. QED
  BY <1>1, <1>2

\* If some car may serve some request, somebody is delivered by the end of the
\* run, and otherwise nobody ever is.
SomebodyDelivered ==
  phase \in {"COMPLETED", "MAX_TICKS"} /\ strategy # "any_or_error" =>
    ((\E p \in Passengers : Eligible(p) # {}) <=> \E p \in Passengers : status[p] = "DELIVERED")

LEMMA DeliveredByTheEnd ==
  ASSUME TypeOK, DistinctIds, IdsRegistered, CompletedHasDelivered, AssignedEligible,
         PromptlyAssigned, OverTheBound, WaitBound, FirstRideEarly, RidingInTime
  PROVE  SomebodyDelivered
<1> SUFFICES ASSUME phase \in {"COMPLETED", "MAX_TICKS"}, strategy # "any_or_error"
             PROVE  (\E p \in Passengers : Eligible(p) # {})
                      <=> \E p \in Passengers : status[p] = "DELIVERED"
  BY DEF SomebodyDelivered
<1>1. ASSUME NEW p \in Passengers, status[p] = "DELIVERED"
      PROVE  Eligible(p) # {}
  BY <1>1 DEF AssignedEligible
<1>2. ASSUME NEW p \in Passengers, Eligible(p) # {}
      PROVE  \E q \in Passengers : status[q] = "DELIVERED"
  <2>1. CASE phase = "COMPLETED"
    BY <2>1 DEF CompletedHasDelivered
  <2>2. CASE phase = "MAX_TICKS"
    <3>1. \A q \in Passengers : tick > requests[q].request_time + Round + 2 * NumFloors
      <4>1. ASSUME NEW q \in Passengers
            PROVE  tick > requests[q].request_time + Round + 2 * NumFloors
        <5>1. /\ Batches * Round \in Nat /\ Round <= Batches * Round
              /\ tick > requests[q].request_time + Batches * Round + 2 * NumFloors
          BY <2>2, RoomInTheBound
        <5>2. tick \in Int /\ requests[q].request_time \in Int /\ Round \in Int
          BY RequestTimes, CarAssumption DEF Round
        <5>. QED
          BY <5>1, <5>2, CarAssumption
      <4>. QED
        BY <4>1
    <3>2. /\ tick \in Int /\ \A q \in Passengers : requests[q].request_time \in Int
          /\ Round \in Nat
      BY RequestTimes, CarAssumption DEF Round
    <3>3. status[p] # "ABSENT"
      <4>1. Ingested(requests[p].request_time)
        BY <3>1, <3>2, CarAssumption DEF Ingested
      <4>. QED
        BY <2>2, <4>1 DEF IdsRegistered, DistinctIds
    <3>4. status[p] # "WAITING"
      BY <1>2, <2>2 DEF PromptlyAssigned
    <3>5. CASE NobodyBoarded
      <4>1. status[p] = "ASSIGNED"
        BY <3>3, <3>4, <3>5 DEF NobodyBoarded, TypeOK, PassengerStatus
      <4>2. tick - assigned_time[p] <= Round
        BY <3>5, <4>1, FirstWaitBounded
      <4>3. assigned_time[p] = requests[p].request_time
        BY <4>1 DEF PromptlyAssigned
      <4>. QED
        BY <3>1, <3>2, <4>2, <4>3, CarAssumption
    <3>6. CASE ~NobodyBoarded
      <4>1. PICK q \in Passengers :
              /\ status[q] \in {"RIDING", "DELIVERED"}
              /\ pickup_time[q] - requests[q].request_time <= Round
        BY <3>6 DEF FirstRideEarly
      <4>2. pickup_time[q] \in Int
        BY DEF TypeOK, None
      <4>3. status[q] # "RIDING"
        <5>1. ASSUME status[q] = "RIDING" PROVE tick - pickup_time[q] <= 2 * NumFloors - 3
          BY <5>1 DEF RidingInTime
        <5>. QED
          BY <3>1, <3>2, <4>1, <4>2, <5>1, CarAssumption
      <4>. QED
        BY <4>1, <4>3
    <3>. QED
      BY <3>5, <3>6
  <2>. QED
    BY <2>1, <2>2
<1>. QED
  BY <1>1, <1>2

\* The first rider of a run is picked up within one round of the building and
\* delivered within another, and the loop goes on for that long.  Hence: if no
\* id is repeated and some car may serve some request, every strategy that
\* may not refuse has delivered somebody when the run ends, at the bound of the
\* loop or before; if no car may serve any request, nobody is delivered.
THEOREM SomebodyDeliveredHolds == Spec => [](DistinctIds => SomebodyDelivered)
<1>1. Init => FirstRideEarly
  BY DEF Init, FirstRideEarly, NobodyBoarded
<1>2. Spec => []FirstRideEarly
  BY <1>1, StepFirstRideEarly, TypeCorrect, BookkeepingHolds, PromptHolds, WaitBoundHolds,
     PTL DEF Spec
<1>. QED
  BY <1>2, DeliveredByTheEnd, TypeCorrect, IdsRegisteredHolds, CompletedRunsDelivered, PromptHolds,
     OverTheBoundHolds, WaitBoundHolds, RidingInTimeHolds, PTL

-----------------------------------------------------------------------------
(* The rotation of RoundRobinStrategy *)

\* No express cars.
FullService == \A e \in Elevators : ServedFloors(e) = Floors

TakenBy(e) == {p \in Passengers : Eligible(p) = Elevators /\ assigned_elevator[p] = e}

Taken == {p \in Passengers : Eligible(p) = Elevators /\ assigned_elevator[p] # None}

\* The rotation has come round q times, and once more for the cars before the
\* one whose turn it is.
RotationEven ==
  strategy = "round_robin" /\ FullService =>
    /\ next_index \in Elevators
    /\ \E q \in Nat :
         /\ \A e \in Elevators :
              Cardinality(TakenBy(e)) = IF e < next_index THEN q + 1 ELSE q
         /\ Cardinality(Taken) = NumElevators * q + next_index

LEMMA InitRotationEven == Init => RotationEven
<1> SUFFICES ASSUME Init PROVE RotationEven
  OBVIOUS
<1>1. \A e \in Elevators : TakenBy(e) = {}
  BY DEF Init, TakenBy, Elevators, None
<1>2. \A e \in Elevators : Cardinality(TakenBy(e)) = 0 /\ ~(e < 0)
  BY <1>1, FS_EmptySet DEF Elevators
<1>3. next_index = 0 /\ 0 \in Elevators
  BY FleetAssumption DEF Init, Elevators
<1>4. Cardinality(Taken) = 0
  <2>1. Taken = {}
    BY DEF Init, Taken
  <2>. QED
    BY <2>1, FS_EmptySet
<1>5. NumElevators * 0 + 0 = 0
  BY FleetAssumption
<1>. QED
  BY <1>2, <1>3, <1>4, <1>5 DEF RotationEven

\* With every car eligible the car picked is the one with the index itself.
LEMMA PickOfAll ==
  ASSUME NEW n \in Elevators
  PROVE  /\ \A e \in RoundRobinPick(Elevators, n) : e = n
         /\ RoundRobinAdvance(Elevators, n) = IF n + 1 = NumElevators THEN 0 ELSE n + 1
<1>1. NumElevators \in Nat /\ NumElevators >= 1 /\ n \in 0..(NumElevators - 1)
  BY FleetAssumption DEF Elevators
<1>2. Cardinality(Elevators) = NumElevators
  <2>1. 0 \in Int /\ NumElevators - 1 \in Int /\ ~(0 > NumElevators - 1)
        /\ (NumElevators - 1) - 0 + 1 = NumElevators
    BY <1>1
  <2>. QED
    BY <2>1, FS_Interval DEF Elevators
<1>3. ASSUME NEW e \in Elevators
      PROVE  Cardinality({x \in Elevators : x < e}) = e
  <2>1. e \in Nat /\ e <= NumElevators - 1
    BY <1>1 DEF Elevators
  <2>2. {x \in Elevators : x < e} = 0..(e - 1)
    BY <1>1, <2>1 DEF Elevators
  <2>3. 0 \in Int /\ e - 1 \in Int /\ (0 > e - 1 => e = 0) /\ (e - 1) - 0 + 1 = e
    BY <2>1
  <2>4. Cardinality(0..(e - 1)) = e
    BY <2>3, FS_Interval
  <2>. QED
    BY <2>2, <2>4
<1>4. n % NumElevators = n /\ (n + 1) % NumElevators = IF n + 1 = NumElevators THEN 0 ELSE n + 1
  BY <1>1
<1>. QED
  BY <1>2, <1>3, <1>4 DEF RoundRobinPick, RoundRobinAdvance

LEMMA StepRotationEven ==
  ASSUME TypeOK, Bookkeeping, DispatchQueue, Validated, RotationEven, [Next]_vars
  PROVE  RotationEven'
<1> SUFFICES ASSUME strategy' = "round_robin", FullService
             PROVE  /\ next_index' \in Elevators
                    /\ \E q \in Nat :
                         /\ \A e \in Elevators :
                              Cardinality(TakenBy(e)') = IF e < next_index' THEN q + 1 ELSE q
                         /\ Cardinality(Taken') = NumElevators * q + next_index'
  BY DEF RotationEven, FullService, ServedFloors
<1>1. strategy = "round_robin" /\ Passengers' = Passengers /\ \A p : Eligible(p)' = Eligible(p)
  BY ConstantEligible, ConstantRequests
<1>2. next_index \in Elevators
  BY <1>1 DEF RotationEven
<1>3. PICK q \in Nat :
        /\ \A e \in Elevators :
             Cardinality(TakenBy(e)) = IF e < next_index THEN q + 1 ELSE q
        /\ Cardinality(Taken) = NumElevators * q + next_index
  BY <1>1 DEF RotationEven
<1>4. CASE Dispatch
  <2>1. PICK p \in unassigned :
          IF Eligible(p) = {} THEN LeaveWaiting /\ UNCHANGED next_index
          ELSE /\ \E e \in SelectElevator(strategy, elevators, Eligible(p),
                                          requests[p], next_index) :
                    IF e = None THEN LeaveWaiting ELSE Assign(p, e)
               /\ next_index' = RoundRobinAdvance(Eligible(p), next_index)
    BY <1>1, <1>4 DEF Dispatch
  <2>2. p \in Passengers /\ status[p] = "WAITING" /\ assigned_elevator[p] = None
    BY DEF TypeOK, DispatchQueue, Bookkeeping
  <2>3. Eligible(p) = Elevators /\ Elevators # {}
    <3>1. ValidRequest(requests[p])
      BY <1>4, <2>2 DEF Validated, Dispatch
    <3>. QED
      BY <1>2, <3>1 DEF FullService, Eligible, ValidRequest
  <2>4. Assign(p, next_index)
        /\ next_index' = IF next_index + 1 = NumElevators THEN 0 ELSE next_index + 1
    <3>1. /\ \E e \in RoundRobinPick(Elevators, next_index) :
                    IF e = None THEN LeaveWaiting ELSE Assign(p, e)
          /\ next_index' = RoundRobinAdvance(Elevators, next_index)
      BY <1>1, <2>1, <2>3 DEF SelectElevator
    <3>2. next_index # None
      BY <1>2, FleetAssumption DEF Elevators, None
    <3>. QED
      BY <1>2, <3>1, <3>2, PickOfAll
  <2>5. /\ assigned_elevator'[p] = next_index
        /\ \A r \in Passengers : r # p => assigned_elevator'[r] = assigned_elevator[r]
    BY <2>2, <2>4 DEF Assign, TypeOK
  <2>6. \A e \in Elevators : TakenBy(e)' = IF e = next_index THEN TakenBy(e) \cup {p} ELSE TakenBy(e)
    <3>1. \A e \in Elevators : e # None
      BY FleetAssumption DEF Elevators, None
    <3>. QED
      BY <1>1, <2>2, <2>3, <2>5, <3>1 DEF TakenBy
  <2>7. \A e \in Elevators : p \notin TakenBy(e) /\ IsFiniteSet(TakenBy(e))
    <3>1. \A e \in Elevators : e # None
      BY FleetAssumption DEF Elevators, None
    <3>2. \A e \in Elevators : TakenBy(e) \in SUBSET Passengers
      BY DEF TakenBy
    <3>3. IsFiniteSet(Passengers)
      BY CardinalityOfPassengers
    <3>. QED
      BY <2>2, <3>1, <3>2, <3>3, FS_Subset DEF TakenBy
  <2>8. \A e \in Elevators :
          Cardinality(TakenBy(e)') = IF e <= next_index THEN q + 1 ELSE q
    <3>1. Cardinality(TakenBy(next_index) \cup {p}) = Cardinality(TakenBy(next_index)) + 1
      BY <1>2, <2>7, FS_AddElement
    <3>2. Cardinality(TakenBy(next_index)) = q
      BY <1>2, <1>3 DEF Elevators
    <3>3. \A e \in Elevators : e \in Int /\ next_index \in Int
      BY <1>2 DEF Elevators
    <3>4. \A e \in Elevators : Cardinality(TakenBy(e)) = IF e < next_index THEN q + 1 ELSE q
      BY <1>3
    <3>. QED
      BY <1>2, <2>6, <3>1, <3>2, <3>3, <3>4
  <2>9. Cardinality(Taken') = NumElevators * q + next_index + 1
    <3>1. next_index # None
      BY <1>2, FleetAssumption DEF Elevators, None
    <3>2. Taken' = Taken \cup {p} /\ p \notin Taken
      BY <1>1, <2>2, <2>3, <2>5, <3>1 DEF Taken
    <3>3. Taken \in SUBSET Passengers
      BY DEF Taken
    <3>4. Cardinality(Taken \cup {p}) = Cardinality(Taken) + 1
      BY <3>2, <3>3, FinitePassengers, FS_AddElement
    <3>. QED
      BY <1>3, <3>2, <3>4
  <2>10. CASE next_index + 1 = NumElevators
    <3>1. next_index' = 0 /\ q + 1 \in Nat
      BY <2>4, <2>10
    <3>4. Cardinality(Taken') = NumElevators * (q + 1) + 0
      <4>1. NumElevators * (q + 1) + 0 = NumElevators * q + NumElevators
        BY FleetAssumption
      <4>2. NumElevators * q \in Int /\ NumElevators \in Int /\ next_index \in Int
        BY <1>2, FleetAssumption DEF Elevators
      <4>. QED
        BY <2>10, <2>9, <4>1, <4>2
    <3>2. \A e \in Elevators : e <= next_index /\ ~(e < 0)
      BY <1>2, <2>10, FleetAssumption DEF Elevators
    <3>3. 0 \in Elevators
      BY FleetAssumption DEF Elevators
    <3>. QED
      BY <2>8, <3>1, <3>2, <3>3, <3>4
  <2>11. CASE next_index + 1 # NumElevators
    <3>1. next_index' = next_index + 1 /\ next_index + 1 \in Elevators
      BY <1>2, <2>4, <2>11, FleetAssumption DEF Elevators
    <3>2. \A e \in Elevators : e <= next_index <=> e < next_index + 1
      BY <1>2 DEF Elevators
    <3>3. Cardinality(Taken') = NumElevators * q + next_index'
      <4>1. NumElevators * q \in Int /\ next_index \in Int
        BY <1>2, FleetAssumption DEF Elevators
      <4>. QED
        BY <2>9, <3>1, <4>1
    <3>. QED
      BY <2>8, <3>1, <3>2, <3>3
  <2>. QED
    BY <2>10, <2>11
<1>5. CASE ~Dispatch
  <2>1. UNCHANGED <<assigned_elevator, next_index>>
    BY <1>5 DEF Next, vars, passengerVars, Validate, Ingest, EndDispatch, Dropoff, Pickup,
                Move, Record, Terminated
  <2>2. Taken' = Taken /\ \A e : TakenBy(e)' = TakenBy(e)
    BY <1>1, <2>1 DEF Taken, TakenBy
  <2>. QED
    BY <1>2, <1>3, <2>1, <2>2
<1>. QED
  BY <1>4, <1>5

LEMMA RotationImpliesEven ==
  ASSUME RotationEven, FullService
  PROVE  EvenDistribution
<1> SUFFICES ASSUME strategy = "round_robin", NEW e \in Elevators, NEW f \in Elevators
             PROVE  Cardinality(TakenBy(e)) <= Cardinality(TakenBy(f)) + 1
  BY DEF EvenDistribution, TakenBy
<1>. QED
  BY DEF RotationEven

\* A load that is even is spread: if a car had more than its share of the
\* batches, there would be more passengers than the batches carry.
LEMMA EvenLoadIsSpread ==
  ASSUME TypeOK, Bookkeeping, Validated, RotationEven, strategy = "round_robin", FullService
  PROVE  LoadSpread
<1> SUFFICES ASSUME NEW e \in Elevators
             PROVE  Cardinality({p \in Passengers : assigned_elevator[p] = e})
                      <= Batches * MaxCapacity
  BY DEF LoadSpread
<1>1. {p \in Passengers : assigned_elevator[p] = e} = TakenBy(e)
  <2>1. ASSUME NEW p \in Passengers, assigned_elevator[p] = e PROVE Eligible(p) = Elevators
    <3>1. e # None
      BY FleetAssumption DEF Elevators, None
    <3>2. status[p] # "ABSENT"
      BY <2>1, <3>1 DEF Bookkeeping
    <3>3. ValidRequest(requests[p])
      BY <3>2 DEF Validated
    <3>. QED
      BY <3>3 DEF FullService, Eligible, ValidRequest
  <2>. QED
    BY <2>1 DEF TakenBy
<1>2. PICK q \in Nat :
        /\ Cardinality(TakenBy(e)) = IF e < next_index THEN q + 1 ELSE q
        /\ Cardinality(Taken) = NumElevators * q + next_index
  BY DEF RotationEven
<1> DEFINE n == Len(requests)
           share == Batches * MaxCapacity
<1>3. /\ e \in Nat /\ next_index \in Nat /\ NumElevators \in Nat /\ NumElevators >= 1
      /\ MaxCapacity \in Nat
  BY FleetAssumption, CarAssumption DEF RotationEven, Elevators
<1>4. Cardinality(Taken) <= n /\ n \in Nat
  <2>1. Taken \in SUBSET Passengers
    BY DEF Taken
  <2>. QED
    BY <2>1, CardinalityOfPassengers, FS_Subset DEF TypeOK
<1>5. share \in Nat /\ n <= share * NumElevators
  <2>1. FleetCapacity \in Nat /\ Batches \in Nat /\ n <= Batches * FleetCapacity
    BY BatchesCarryAll
  <2>2. Batches * FleetCapacity = share * NumElevators
    BY <1>3, <2>1 DEF FleetCapacity
  <2>. QED
    BY <1>3, <2>1, <2>2
<1>. HIDE DEF n, share
<1>6. q * NumElevators + next_index <= share * NumElevators
  <2>1. NumElevators * q = q * NumElevators /\ q * NumElevators \in Nat
        /\ share * NumElevators \in Nat
    BY <1>3, <1>5
  <2>. QED
    BY <1>2, <1>3, <1>4, <1>5, <2>1
<1>7. Cardinality(TakenBy(e)) <= share
  <2>1. CASE e < next_index
    <3> SUFFICES ASSUME share <= q PROVE FALSE
      BY <1>2, <1>5, <2>1
    <3>1. share * NumElevators <= q * NumElevators
      BY <1>3, <1>5, TimesGrow
    <3>2. share * NumElevators \in Int /\ q * NumElevators \in Int
      BY <1>3, <1>5
    <3>. QED
      BY <1>3, <1>6, <2>1, <3>1, <3>2
  <2>2. CASE ~(e < next_index)
    <3> SUFFICES ASSUME share < q PROVE FALSE
      BY <1>2, <1>5, <2>2
    <3>1. share * NumElevators < q * NumElevators
      BY <1>3, <1>5, TimesGrow
    <3>2. share * NumElevators \in Int /\ q * NumElevators \in Int
      BY <1>3, <1>5
    <3>. QED
      BY <1>3, <1>6, <3>1, <3>2
  <2>. QED
    BY <2>1, <2>2
<1>. QED
  BY <1>1, <1>7 DEF share

LEMMA RotationEvenHolds == Spec => []RotationEven
  BY InitRotationEven, StepRotationEven, TypeCorrect, BookkeepingHolds, ValidatedHolds, PTL
     DEF Spec

\* Without express cars RoundRobinStrategy keeps its promise (EvenDistribution)
\* for any number of cars and requests, in any order of their coming.
THEOREM EvenDistributionHolds == Spec => [](FullService => EvenDistribution)
<1>1. RotationEven => (FullService => EvenDistribution)
  BY RotationImpliesEven
<1>. QED
  BY <1>1, RotationEvenHolds, PTL

LEMMA EvenSpreadInTime ==
  ASSUME TypeOK, Bookkeeping, Validated, RotationEven, EnoughTicks
  PROVE  RoundRobinInTime
<1> SUFFICES ASSUME phase \in {"COMPLETED", "MAX_TICKS"}, strategy = "round_robin", FullService
             PROVE  ServedInTime
  BY DEF RoundRobinInTime, FullService
<1>1. LoadSpread
  BY EvenLoadIsSpread
<1>. QED
  BY <1>1 DEF EnoughTicks

\* Hence round robin always has ticks enough where every car serves every floor
\* (RoundRobinInTime), for any number of cars, seats and floors.
THEOREM RoundRobinInTimeHolds == Spec => []RoundRobinInTime
  BY EvenSpreadInTime, TypeCorrect, BookkeepingHolds, ValidatedHolds, RotationEvenHolds,
     EnoughTicksHolds, PTL
=============================================================================
