------------------------------- MODULE LogProofs -------------------------------
(***************************************************************************)
(* Proofs about the event list and the position log of EventLog: they only *)
(* watch the engine, they agree about where its cars have been, and the    *)
(* events alone give its whole state back.                                 *)
(***************************************************************************)
EXTENDS EventLog, PassengerProofs

-----------------------------------------------------------------------------
(* The logs only watch *)

LEMMA LogStepIsStep == [LogStep]_logVars => [Next]_vars
  BY DEF LogStep, logVars, Next

\* The engine with its event list and position log is the engine: appending to
\* them changes nothing else (a refinement, with the logs forgotten).
THEOREM LogsOnlyWatch == LogSpec => Spec
<1>1. LogInit => Init
  BY DEF LogInit
<1>. QED
  BY <1>1, LogStepIsStep, PTL DEF LogSpec, Spec

-----------------------------------------------------------------------------
(* What a phase appends *)

IsList(list) == \E S : list \in Seq(S)

IsMoveOf(event, e) == event.event_type = "ELEVATOR_MOVED" /\ event.elevator = e

\* All events of a phase carry the tick of the clock; those of a car that has
\* moved, and of no other, include one that says where it is now.
ReportOf(list) ==
  /\ IsList(list)
  /\ \A i \in 1..Len(list) : list[i].tick = tick
  /\ \A i \in 1..Len(list), e \in Elevators :
       IsMoveOf(list[i], e) => list[i].to_floor = elevators'[e].current_floor
  /\ \A e \in Elevators : elevators'[e].current_floor # elevators[e].current_floor =>
       \E i \in 1..Len(list) : IsMoveOf(list[i], e)

\* The events of a phase in which no car moves.
NoMoveIn(list) ==
  /\ IsList(list)
  /\ \A i \in 1..Len(list) :
       list[i].tick = tick /\ list[i].event_type # "ELEVATOR_MOVED"

LEMMA EventsOfList ==
  ASSUME NEW n, n \in Nat, NEW list, list = [i \in 1..n |-> list[i]],
         \A i \in 1..n : list[i].tick = tick /\ list[i].event_type # "ELEVATOR_MOVED"
  PROVE  NoMoveIn(list)
<1> DEFINE E == {list[i] : i \in 1..n}
<1>1. \A i \in 1..n : list[i] \in E
  OBVIOUS
<1> HIDE DEF E
<1>2. list \in Seq(E) /\ Len(list) = n
  BY <1>1
<1>. QED
  BY <1>2 DEF NoMoveIn, IsList

\* What the cars report, put together.
LEMMA FlattenLists ==
  ASSUME NEW n, n \in Nat, n >= 1, NEW lists, lists = [i \in 1..n |-> lists[i]],
         \A i \in 1..n : IsList(lists[i]), NEW flat, flat = FlattenSeq(lists)
  PROVE  IsList(flat) /\ Flat(flat, lists, n)
<1> DEFINE E == {lists[i][k] : i \in 1..n, k \in UNION {1..Len(lists[j]) : j \in 1..n}}
<1>1. \A i \in 1..n : lists[i] \in Seq(E)
  <2> TAKE i \in 1..n
  <2>1. PICK S : lists[i] \in Seq(S)
    BY DEF IsList
  <2>2. Len(lists[i]) \in Nat /\ lists[i] = [k \in 1..Len(lists[i]) |-> lists[i][k]]
    BY <2>1
  <2>3. \A k \in 1..Len(lists[i]) : lists[i][k] \in E
    OBVIOUS
  <2> HIDE DEF E
  <2>. QED
    BY <2>2, <2>3
<1>2. lists \in [1..n -> Seq(E)]
  <2> DEFINE T == Seq(E)
  <2>1. \A i \in 1..n : lists[i] \in T
    BY <1>1
  <2> HIDE DEF T, E
  <2>2. lists \in [1..n -> T]
    BY <2>1
  <2>. QED
    BY <2>2 DEF T
<1> HIDE DEF E
<1>3. flat \in Seq(E) /\ Flat(flat, lists, n)
  BY <1>2, FlattenEntries
<1>. QED
  BY <1>3 DEF IsList

LEMMA NoMoveByAnyCar ==
  ASSUME NEW lists, lists = [i \in 1..NumElevators |-> lists[i]],
         \A i \in 1..NumElevators : NoMoveIn(lists[i]),
         NEW flat, flat = FlattenSeq(lists)
  PROVE  NoMoveIn(flat)
<1>1. NumElevators \in Nat /\ NumElevators >= 1
  BY FleetAssumption
<1>2. \A i \in 1..NumElevators : IsList(lists[i])
  BY DEF NoMoveIn
<1>3. IsList(flat) /\ Flat(flat, lists, NumElevators)
  BY <1>1, <1>2, FlattenLists
<1>4. ASSUME NEW j \in 1..Len(flat)
      PROVE  flat[j].tick = tick /\ flat[j].event_type # "ELEVATOR_MOVED"
  <2>1. PICK i \in 1..NumElevators : \E k \in 1..Len(lists[i]) : flat[j] = lists[i][k]
    BY <1>3 DEF Flat
  <2>2. PICK k \in 1..Len(lists[i]) : flat[j] = lists[i][k]
    BY <2>1
  <2>. QED
    BY <2>2 DEF NoMoveIn
<1>. QED
  BY <1>3, <1>4 DEF NoMoveIn

LEMMA DropoffReport ==
  ASSUME TypeOK
  PROVE  NoMoveIn(CarByCar(DropoffEvents))
<1> DEFINE lists == [i \in 1..NumElevators |-> DropoffEvents(i - 1)]
<1>1. \A i \in 1..NumElevators : NoMoveIn(DropoffEvents(i - 1))
  <2> TAKE i \in 1..NumElevators
  <2> DEFINE S == Alighting(elevators[i - 1], requests)
             order == InOrder(S, BoardedBefore)
             list == [k \in DOMAIN order |-> PassengerDelivered(order[k], i - 1)]
  <2>1. IsFiniteSet(S)
    <3>1. i - 1 \in Elevators
      BY FleetAssumption DEF Elevators
    <3>2. S \in SUBSET Passengers
      BY <3>1, CarTypes DEF TypeOK, Alighting
    <3>. QED
      BY <3>2, FinitePassengers
  <2>2. DOMAIN order = 1..Cardinality(S)
    BY DEF InOrder
  <2>3. DropoffEvents(i - 1) = list
    BY DEF DropoffEvents
  <2>4. \A k \in DOMAIN order : /\ list[k].tick = tick
                               /\ list[k].event_type # "ELEVATOR_MOVED"
    BY DEF PassengerDelivered
  <2>5. list = [k \in DOMAIN order |-> list[k]]
    OBVIOUS
  <2>6. Cardinality(S) \in Nat
    BY <2>1, FS_CardinalityType
  <2> DEFINE n == Cardinality(S)
  <2> HIDE DEF S, order, list, n
  <2>7. n \in Nat /\ list = [k \in 1..n |-> list[k]]
    BY <2>2, <2>5, <2>6 DEF n
  <2>8. \A k \in 1..n : list[k].tick = tick /\ list[k].event_type # "ELEVATOR_MOVED"
    BY <2>2, <2>4 DEF n
  <2>. QED
    BY <2>3, <2>7, <2>8, EventsOfList
<1>2. CarByCar(DropoffEvents) = FlattenSeq(lists)
  BY DEF CarByCar
<1>3. lists = [i \in 1..NumElevators |-> lists[i]] /\ \A i \in 1..NumElevators : NoMoveIn(lists[i])
  BY <1>1
<1> HIDE DEF lists
<1>. QED
  BY <1>2, <1>3, NoMoveByAnyCar

LEMMA PickupReport ==
  ASSUME TypeOK
  PROVE  NoMoveIn(CarByCar(PickupEvents))
<1> DEFINE lists == [i \in 1..NumElevators |-> PickupEvents(i - 1)]
<1>1. \A i \in 1..NumElevators : NoMoveIn(PickupEvents(i - 1))
  <2> TAKE i \in 1..NumElevators
  <2> DEFINE S == {p \in WaitingHere(i - 1) : status'[p] = "RIDING"}
             order == InOrder(S, InLineBefore)
             list == [k \in DOMAIN order |-> PassengerPickedUp(order[k], i - 1)]
  <2>1. IsFiniteSet(S)
    <3>1. i - 1 \in Elevators
      BY FleetAssumption DEF Elevators
    <3>2. S \in SUBSET Passengers
      BY <3>1, CarTypes DEF TypeOK, WaitingHere
    <3>. QED
      BY <3>2, FinitePassengers
  <2>2. DOMAIN order = 1..Cardinality(S)
    BY DEF InOrder
  <2>3. PickupEvents(i - 1) = list
    BY DEF PickupEvents
  <2>4. \A k \in DOMAIN order : /\ list[k].tick = tick
                               /\ list[k].event_type # "ELEVATOR_MOVED"
    BY DEF PassengerPickedUp
  <2>5. list = [k \in DOMAIN order |-> list[k]]
    OBVIOUS
  <2>6. Cardinality(S) \in Nat
    BY <2>1, FS_CardinalityType
  <2> DEFINE n == Cardinality(S)
  <2> HIDE DEF S, order, list, n
  <2>7. n \in Nat /\ list = [k \in 1..n |-> list[k]]
    BY <2>2, <2>5, <2>6 DEF n
  <2>8. \A k \in 1..n : list[k].tick = tick /\ list[k].event_type # "ELEVATOR_MOVED"
    BY <2>2, <2>4 DEF n
  <2>. QED
    BY <2>3, <2>7, <2>8, EventsOfList
<1>2. CarByCar(PickupEvents) = FlattenSeq(lists)
  BY DEF CarByCar
<1>3. lists = [i \in 1..NumElevators |-> lists[i]] /\ \A i \in 1..NumElevators : NoMoveIn(lists[i])
  BY <1>1
<1> HIDE DEF lists
<1>. QED
  BY <1>2, <1>3, NoMoveByAnyCar

LEMMA IngestReport ==
  ASSUME TypeOK
  PROVE  NoMoveIn(IngestEvents)
<1> DEFINE S == {p \in Passengers : Arriving(p)}
           order == InOrder(S, Earlier)
           list == [k \in DOMAIN order |-> PassengerRequested(order[k])]
<1>1. Cardinality(S) \in Nat
  <2>1. S \in SUBSET Passengers
    OBVIOUS
  <2>. QED
    BY <2>1, FinitePassengers
<1>2. DOMAIN order = 1..Cardinality(S)
  BY DEF InOrder
<1>3. IngestEvents = list
  BY DEF IngestEvents
<1>4. \A k \in DOMAIN order : list[k].tick = tick /\ list[k].event_type # "ELEVATOR_MOVED"
  BY DEF PassengerRequested
<1>5. list = [k \in DOMAIN order |-> list[k]]
  OBVIOUS
<1> DEFINE n == Cardinality(S)
<1> HIDE DEF S, order, list, n
<1>6. n \in Nat /\ list = [k \in 1..n |-> list[k]]
  BY <1>1, <1>2, <1>5 DEF n
<1>7. \A k \in 1..n : list[k].tick = tick /\ list[k].event_type # "ELEVATOR_MOVED"
  BY <1>2, <1>4 DEF n
<1>. QED
  BY <1>3, <1>6, <1>7, EventsOfList

LEMMA DispatchReport ==
  ASSUME TypeOK
  PROVE  NoMoveIn(DispatchEvents)
<1> DEFINE S == {p \in Passengers : status[p] # status'[p]}
           order == InOrder(S, Earlier)
           list == [k \in DOMAIN order |->
                      PassengerAssigned(order[k], assigned_elevator'[order[k]])]
<1>1. Cardinality(S) \in Nat
  <2>1. S \in SUBSET Passengers
    OBVIOUS
  <2>. QED
    BY <2>1, FinitePassengers
<1>2. DOMAIN order = 1..Cardinality(S)
  BY DEF InOrder
<1>3. DispatchEvents = list
  BY DEF DispatchEvents
<1>4. \A k \in DOMAIN order : list[k].tick = tick /\ list[k].event_type # "ELEVATOR_MOVED"
  BY DEF PassengerAssigned
<1>5. list = [k \in DOMAIN order |-> list[k]]
  OBVIOUS
<1> DEFINE n == Cardinality(S)
<1> HIDE DEF S, order, list, n
<1>6. n \in Nat /\ list = [k \in 1..n |-> list[k]]
  BY <1>1, <1>2, <1>5 DEF n
<1>7. \A k \in 1..n : list[k].tick = tick /\ list[k].event_type # "ELEVATOR_MOVED"
  BY <1>2, <1>4 DEF n
<1>. QED
  BY <1>3, <1>6, <1>7, EventsOfList

LEMMA OneOrNone ==
  ASSUME NEW S, NEW x \in S, NEW s, s = <<>> \/ s = <<x>>
  PROVE  s \in Seq(S) /\ (\A i \in 1..Len(s) : s[i] = x) /\ (s = <<x>> => 1 \in 1..Len(s))
<1>1. CASE s = <<>>
  BY <1>1
<1>2. CASE s = <<x>>
  BY <1>2
<1>. QED
  BY <1>1, <1>2

LEMMA MoveReportOfCar ==
  ASSUME NEW e \in Elevators, NEW list, list = MoveEvents(e)
  PROVE  /\ IsList(list)
         /\ \A i \in 1..Len(list) :
              /\ list[i].tick = tick
              /\ list[i].elevator = e
              /\ list[i].event_type = "ELEVATOR_MOVED" =>
                   list[i].to_floor = elevators'[e].current_floor
         /\ elevators'[e].current_floor # elevators[e].current_floor =>
              \E i \in 1..Len(list) : IsMoveOf(list[i], e)
<1> DEFINE moved == ElevatorMoved(e, elevators[e].current_floor, elevators'[e].current_floor)
           turned == ElevatorDirectionChanged(e, elevators[e].direction, elevators'[e].direction)
           first == IF elevators'[e].current_floor = elevators[e].current_floor
                    THEN <<>> ELSE <<moved>>
           second == IF elevators'[e].direction = elevators[e].direction
                     THEN <<>> ELSE <<turned>>
           S == {moved, turned}
<1>1. list = first \o second
  BY DEF MoveEvents
<1>2. /\ moved.tick = tick /\ moved.elevator = e /\ moved.event_type = "ELEVATOR_MOVED"
      /\ moved.to_floor = elevators'[e].current_floor
      /\ turned.tick = tick /\ turned.elevator = e
      /\ turned.event_type # "ELEVATOR_MOVED"
  BY DEF ElevatorMoved, ElevatorDirectionChanged
<1> HIDE DEF moved, turned
<1>3. /\ first = <<>> \/ first = <<moved>>
      /\ second = <<>> \/ second = <<turned>>
      /\ elevators'[e].current_floor # elevators[e].current_floor => first = <<moved>>
  OBVIOUS
<1>4. moved \in S /\ turned \in S
  OBVIOUS
<1> HIDE DEF first, second, S
<1>5. /\ first \in Seq(S) /\ (\A i \in 1..Len(first) : first[i] = moved)
      /\ first = <<moved>> => 1 \in 1..Len(first)
  BY <1>3, <1>4, OneOrNone
<1>6. second \in Seq(S) /\ (\A i \in 1..Len(second) : second[i] = turned)
  BY <1>3, <1>4, OneOrNone
<1>7. list \in Seq(S) /\ Joins(list, first, second)
  BY <1>1, <1>5, <1>6, Concatenation
<1>8. ASSUME NEW i \in 1..Len(list) PROVE list[i] = moved \/ list[i] = turned
  <2>1. CASE i \in 1..Len(first)
    BY <1>5, <1>7, <2>1 DEF Joins
  <2>2. CASE \E k \in 1..Len(second) : i = Len(first) + k
    <3>1. PICK k \in 1..Len(second) : i = Len(first) + k
      BY <2>2
    <3>. QED
      BY <1>6, <1>7, <3>1 DEF Joins
  <2>. QED
    BY <1>7, <2>1, <2>2 DEF Joins
<1>9. elevators'[e].current_floor # elevators[e].current_floor =>
        \E i \in 1..Len(list) : list[i] = moved
  BY <1>3, <1>5, <1>7 DEF Joins
<1>. QED
  BY <1>2, <1>7, <1>8, <1>9 DEF IsList, IsMoveOf

LEMMA MoveReport == ReportOf(CarByCar(MoveEvents))
<1> DEFINE lists == [i \in 1..NumElevators |-> MoveEvents(i - 1)]
           flat == CarByCar(MoveEvents)
<1>1. flat = FlattenSeq(lists)
  BY DEF CarByCar
<1>2. NumElevators \in Nat /\ NumElevators >= 1
  BY FleetAssumption
<1>3. \A i \in 1..NumElevators : i - 1 \in Elevators
  BY <1>2 DEF Elevators
<1>4. \A e \in Elevators : e + 1 \in 1..NumElevators /\ (e + 1) - 1 = e
  BY <1>2 DEF Elevators
<1>5. \A i \in 1..NumElevators :
        /\ IsList(lists[i])
        /\ \A k \in 1..Len(lists[i]) :
             /\ lists[i][k].tick = tick
             /\ lists[i][k].elevator = i - 1
             /\ lists[i][k].event_type = "ELEVATOR_MOVED" =>
                  lists[i][k].to_floor = elevators'[i - 1].current_floor
        /\ elevators'[i - 1].current_floor # elevators[i - 1].current_floor =>
             \E k \in 1..Len(lists[i]) : IsMoveOf(lists[i][k], i - 1)
  BY <1>3, MoveReportOfCar
<1>6. lists = [i \in 1..NumElevators |-> lists[i]]
  OBVIOUS
<1> HIDE DEF lists, flat
<1>7. IsList(flat) /\ Flat(flat, lists, NumElevators)
  BY <1>1, <1>2, <1>5, <1>6, FlattenLists
<1>8. \A j \in 1..Len(flat) : \E i \in 1..NumElevators :
        /\ flat[j].tick = tick
        /\ flat[j].elevator = i - 1
        /\ flat[j].event_type = "ELEVATOR_MOVED" =>
             flat[j].to_floor = elevators'[i - 1].current_floor
  <2> TAKE j \in 1..Len(flat)
  <2>1. PICK i \in 1..NumElevators : \E k \in 1..Len(lists[i]) : flat[j] = lists[i][k]
    BY <1>7 DEF Flat
  <2>2. PICK k \in 1..Len(lists[i]) : flat[j] = lists[i][k]
    BY <2>1
  <2>. QED
    BY <1>5, <2>2
<1>9. \A e \in Elevators : elevators'[e].current_floor # elevators[e].current_floor =>
        \E j \in 1..Len(flat) : IsMoveOf(flat[j], e)
  <2> TAKE e \in Elevators
  <2> SUFFICES ASSUME elevators'[e].current_floor # elevators[e].current_floor
               PROVE  \E j \in 1..Len(flat) : IsMoveOf(flat[j], e)
    OBVIOUS
  <2>1. PICK i \in 1..NumElevators : i - 1 = e
    BY <1>4
  <2>2. PICK k \in 1..Len(lists[i]) : IsMoveOf(lists[i][k], e)
    BY <1>5, <2>1
  <2>. QED
    BY <1>7, <2>2 DEF Flat
<1>10. ReportOf(flat)
  BY <1>7, <1>8, <1>9 DEF ReportOf, IsMoveOf
<1>. QED
  BY <1>10 DEF flat

LEMMA NoMoveReport ==
  ASSUME NEW list, NoMoveIn(list),
         \A e \in Elevators : elevators'[e].current_floor = elevators[e].current_floor
  PROVE  ReportOf(list)
  BY DEF NoMoveIn, ReportOf, IsMoveOf

-----------------------------------------------------------------------------
(* The position log and the moves *)

MovesIn(list, e) == {i \in 1..Len(list) : IsMoveOf(list[i], e)}

\* Where the last of the moves has led.
LedTo(list, moves, start) == IF moves = {} THEN start ELSE list[Max(moves)].to_floor

EventsKept ==
  /\ IsList(events)
  /\ \A i \in 1..Len(events) : events[i].tick \in Nat /\ events[i].tick <= tick

\* The floor of a car is the one its last move has led to.
FloorsKnown ==
  \A e \in Elevators :
    elevators[e].current_floor = LedTo(events, MovesIn(events, e), StartFloor(e))

\* Every row that is counted is kept.
RowsKept ==
  /\ position_rows \in Seq([Elevators -> Floors])
  /\ Len(position_rows) = position_log.rows

LogInv == EventsKept /\ FloorsKnown /\ RowsKept /\ LogsAgree

LEMMA StepRowsKept ==
  ASSUME TypeOK, RowsKept, LogStep
  PROVE  RowsKept'
<1>1. CASE Record /\ AppendRow
  <2>1. Positions \in [Elevators -> Floors]
    BY CarTypes DEF TypeOK, Positions
  <2>2. /\ position_log'.rows = position_log.rows + 1
        /\ position_rows' = Append(position_rows, Positions)
    BY <1>1 DEF Record, AppendRow
  <2>3. /\ position_rows' \in Seq([Elevators -> Floors])
        /\ Len(position_rows') = Len(position_rows) + 1
    <3> DEFINE S == [Elevators -> Floors]
    <3> HIDE DEF S
    <3>. QED
      BY <2>1, <2>2 DEF RowsKept, S
  <2>. QED
    BY <2>2, <2>3 DEF RowsKept
<1>2. CASE UNCHANGED <<position_log, position_rows>>
  BY <1>2 DEF RowsKept
<1>. QED
  BY <1>1, <1>2 DEF LogStep, Validate, Ingest, Dispatch, EndDispatch, Dropoff, Pickup, Move,
                    Emit, EmitNothing

LEMMA ListIndices ==
  ASSUME NEW list, IsList(list)
  PROVE  DOMAIN list = 1..Len(list) /\ Len(list) \in Nat
  BY DEF IsList

LEMMA LastIndex ==
  ASSUME NEW list, IsList(list), NEW moves, moves \subseteq 1..Len(list), moves # {}
  PROVE  Max(moves) \in moves /\ \A i \in moves : i <= Max(moves)
<1>1. Len(list) \in Nat
  BY ListIndices
<1>2. IsFiniteSet(1..Len(list))
  BY <1>1, FS_Interval
<1>3. IsFiniteSet(moves)
  BY <1>2, FS_Subset
<1>4. moves \subseteq Int
  BY <1>1
<1>. QED
  BY <1>3, <1>4, MaxIsGreatest

\* list brings the car to that floor, unless it was there before.
Brings(list, e, floor, before) ==
  /\ \A i \in 1..Len(list) : IsMoveOf(list[i], e) => list[i].to_floor = floor
  /\ MovesIn(list, e) # {} \/ before = floor

\* The last move is among the new events if there is one among them.
LEMMA LedToAfter ==
  ASSUME NEW old, IsList(old), NEW list, IsList(list), NEW new, IsList(new),
         Joins(new, old, list), NEW e, NEW start, NEW floor,
         Brings(list, e, floor, LedTo(old, MovesIn(old, e), start))
  PROVE  LedTo(new, MovesIn(new, e), start) = floor
<1>. USE DEF Brings
<1>1. /\ Len(old) \in Nat /\ Len(list) \in Nat
      /\ \A i \in 1..Len(old) : i \in 1..Len(new) /\ new[i] = old[i]
      /\ \A i \in 1..Len(list) : Len(old) + i \in 1..Len(new) /\ new[Len(old) + i] = list[i]
      /\ \A i \in 1..Len(new) :
           i \in 1..Len(old) \/ \E k \in 1..Len(list) : i = Len(old) + k
  BY DEF Joins
<1>2. CASE MovesIn(list, e) # {}
  <2>1. PICK k \in 1..Len(list) : IsMoveOf(list[k], e)
    BY <1>2 DEF MovesIn
  <2>2. Len(old) + k \in MovesIn(new, e)
    BY <1>1, <2>1 DEF MovesIn
  <2> DEFINE last == Max(MovesIn(new, e))
  <2>3. last \in MovesIn(new, e) /\ Len(old) + k <= last
    BY <2>2, LastIndex DEF MovesIn
  <2> HIDE DEF last
  <2>4. last \in 1..Len(new) /\ IsMoveOf(new[last], e)
    BY <2>3 DEF MovesIn
  <2>5. last \notin 1..Len(old)
    BY <1>1, <2>3, <2>4
  <2>6. PICK m \in 1..Len(list) : last = Len(old) + m
    BY <1>1, <2>4, <2>5
  <2>7. new[last].to_floor = floor
    BY <1>1, <2>4, <2>6
  <2>. QED
    BY <2>2, <2>7 DEF LedTo, last
<1>3. CASE MovesIn(list, e) = {}
  <2>1. \A i \in 1..Len(new) : IsMoveOf(new[i], e) => i \in 1..Len(old)
    BY <1>1, <1>3 DEF MovesIn
  <2>2. MovesIn(new, e) = MovesIn(old, e)
    BY <1>1, <2>1 DEF MovesIn
  <2>3. CASE MovesIn(old, e) = {}
    BY <1>3, <2>2, <2>3 DEF LedTo
  <2>4. CASE MovesIn(old, e) # {}
    <3>1. Max(MovesIn(old, e)) \in 1..Len(old)
      BY <2>4, LastIndex DEF MovesIn
    <3>. QED
      BY <1>1, <1>3, <2>2, <2>4, <3>1 DEF LedTo
  <2>. QED
    BY <2>3, <2>4
<1>. QED
  BY <1>2, <1>3

\* A row is about the ticks before this one: later events do not concern it.
LEMMA RowsStayTrue ==
  ASSUME EventsKept, IsList(events'), NEW list, IsList(list), Joins(events', events, list),
         \A i \in 1..Len(list) : list[i].tick = tick,
         NEW e, NEW t \in Int, t < tick, tick \in Nat
  PROVE  LedTo(events', MovesUpTo(e, t)', StartFloor(e)) = LedTo(events, MovesUpTo(e, t), StartFloor(e))
<1>1. /\ Len(events) \in Nat /\ Len(list) \in Nat
      /\ \A i \in 1..Len(events) : i \in 1..Len(events') /\ events'[i] = events[i]
      /\ \A i \in 1..Len(list) : events'[Len(events) + i] = list[i]
      /\ \A i \in 1..Len(events') :
           i \in 1..Len(events) \/ \E k \in 1..Len(list) : i = Len(events) + k
  BY DEF Joins
<1>2. DOMAIN events = 1..Len(events) /\ DOMAIN events' = 1..Len(events')
  BY ListIndices DEF EventsKept
<1>3. \A i \in 1..Len(events') : events'[i].tick <= t => i \in 1..Len(events)
  <2> TAKE i \in 1..Len(events')
  <2>1. CASE \E k \in 1..Len(list) : i = Len(events) + k
    <3>1. PICK k \in 1..Len(list) : i = Len(events) + k
      BY <2>1
    <3>2. events'[Len(events) + k] = list[k] /\ list[k].tick = tick
      BY <1>1
    <3>3. events'[i].tick = tick
      BY <3>1, <3>2
    <3>. QED
      BY <3>3
  <2>. QED
    BY <1>1, <2>1
<1>4. MovesUpTo(e, t)' = MovesUpTo(e, t)
  BY <1>1, <1>2, <1>3 DEF MovesUpTo
<1>5. CASE MovesUpTo(e, t) = {}
  BY <1>4, <1>5 DEF LedTo
<1>6. CASE MovesUpTo(e, t) # {}
  <2>1. MovesUpTo(e, t) \subseteq 1..Len(events) /\ IsList(events)
    BY <1>2 DEF MovesUpTo, EventsKept
  <2>2. Max(MovesUpTo(e, t)) \in 1..Len(events)
    BY <1>6, <2>1, LastIndex
  <2>. QED
    BY <1>1, <1>4, <1>6, <2>2 DEF LedTo
<1>. QED
  BY <1>5, <1>6

LEMMA InitLogInv == LogInit => LogInv
<1> SUFFICES ASSUME LogInit PROVE LogInv
  OBVIOUS
<1>1. events = <<>> /\ position_rows = <<>> /\ position_log.rows = 0
      /\ \A e \in Elevators : elevators[e].current_floor = StartFloor(e)
  BY DEF LogInit, Init, IdleCar
<1>2. IsList(events) /\ Len(events) = 0
  BY <1>1 DEF IsList
<1>3. EventsKept
  BY <1>2 DEF EventsKept
<1>4. FloorsKnown
  BY <1>1, <1>2 DEF FloorsKnown, MovesIn, LedTo
<1>5. RowsKept /\ LogsAgree
  <2> DEFINE S == [Elevators -> Floors]
  <2>1. position_rows \in Seq(S) /\ Len(position_rows) = 0 /\ DOMAIN position_rows = {}
    <3> HIDE DEF S
    <3>. QED
      BY <1>1
  <2>. QED
    BY <1>1, <2>1 DEF RowsKept, LogsAgree
<1>. QED
  BY <1>3, <1>4, <1>5 DEF LogInv

\* Reporting keeps both logs in agreement.
LEMMA EmitKeepsLogs ==
  ASSUME TypeOK, PositionLogContinuous, LogInv, NEW list, ReportOf(list), Emit(list),
         phase # "COMPLETED", UNCHANGED <<tick, position_log>>
  PROVE  LogInv'
<1>1. IsList(events) /\ IsList(list) /\ tick \in Nat
  BY DEF LogInv, EventsKept, ReportOf, TypeOK
<1>2. IsList(events') /\ Joins(events', events, list)
  <2>1. PICK S : events \in Seq(S)
    BY <1>1 DEF IsList
  <2>2. PICK T : list \in Seq(T)
    BY <1>1 DEF IsList
  <2> DEFINE B == S \cup T
  <2>3. events \in Seq(B) /\ list \in Seq(B)
    BY <2>1, <2>2
  <2> HIDE DEF B
  <2>. QED
    BY <2>3, Concatenation DEF Emit, IsList
<1>3. EventsKept'
  <2>1. \A i \in 1..Len(events') :
          events'[i].tick \in Nat /\ events'[i].tick <= tick
    <3> TAKE i \in 1..Len(events')
    <3>1. CASE i \in 1..Len(events)
      BY <1>2, <3>1 DEF Joins, LogInv, EventsKept
    <3>2. CASE \E k \in 1..Len(list) : i = Len(events) + k
      <4>1. events'[i].tick = tick
        BY <1>2, <3>2 DEF Joins, ReportOf
      <4>. QED
        BY <1>1, <4>1
    <3>. QED
      BY <1>2, <3>1, <3>2 DEF Joins
  <2>. QED
    BY <1>2, <2>1 DEF EventsKept
<1>4. FloorsKnown'
  <2>1. ASSUME NEW e \in Elevators
        PROVE  elevators'[e].current_floor = LedTo(events', MovesIn(events', e), StartFloor(e))
    <3>1. PICK floor : floor = elevators'[e].current_floor
      OBVIOUS
    <3>2. \A i \in 1..Len(list) : IsMoveOf(list[i], e) => list[i].to_floor = floor
      BY <3>1 DEF ReportOf
    <3>3. \/ MovesIn(list, e) # {}
          \/ LedTo(events, MovesIn(events, e), StartFloor(e)) = floor
      <4>1. CASE floor = elevators[e].current_floor
        BY <4>1 DEF LogInv, FloorsKnown
      <4>2. CASE floor # elevators[e].current_floor
        BY <3>1, <4>2 DEF ReportOf, MovesIn
      <4>. QED
        BY <4>1, <4>2
    <3>4. LedTo(events', MovesIn(events', e), StartFloor(e)) = floor
      <4>1. Brings(list, e, floor, LedTo(events, MovesIn(events, e), StartFloor(e)))
        BY <3>2, <3>3 DEF Brings
      <4>. QED
        BY <1>1, <1>2, <4>1, LedToAfter
    <3>. QED
      BY <3>1, <3>4
  <2>. QED
    BY <2>1 DEF FloorsKnown, StartFloor
<1>5. RowsKept' /\ position_rows' = position_rows
  BY DEF Emit, LogInv, RowsKept
<1>6. LogsAgree'
  <2>1. position_log.rows = tick /\ DOMAIN position_rows = 1..Len(position_rows)
        /\ Len(position_rows) = tick
    BY DEF PositionLogContinuous, LogInv, RowsKept
  <2>2. ASSUME NEW row \in DOMAIN position_rows, NEW e \in Elevators
        PROVE  position_rows[row][e] = LedTo(events', MovesUpTo(e, row - 1)', StartFloor(e))
    <3>1. row - 1 \in Int /\ row - 1 < tick
      BY <1>1, <2>1
    <3>2. position_rows[row][e] = LedTo(events, MovesUpTo(e, row - 1), StartFloor(e))
      BY DEF LogInv, LogsAgree, LedTo
    <3>3. \A i \in 1..Len(list) : list[i].tick = tick
      BY DEF ReportOf
    <3> HIDE DEF LedTo
    <3>. QED
      BY <1>1, <1>2, <3>1, <3>2, <3>3, RowsStayTrue DEF LogInv
  <2>. QED
    BY <1>5, <2>2 DEF LogsAgree, LedTo, StartFloor
<1>. QED
  BY <1>3, <1>4, <1>5, <1>6 DEF LogInv

\* The row of a tick is written when all its moves are reported.
LEMMA RecordKeepsLogs ==
  ASSUME TypeOK, PositionLogContinuous, LogInv, Record, AppendRow, UNCHANGED events
  PROVE  LogInv'
<1>1. /\ phase = "RECORD" /\ position_log'.rows = position_log.rows + 1
      /\ position_rows' = Append(position_rows, Positions) /\ UNCHANGED elevators
      /\ tick' = tick \/ tick' = tick + 1
  BY DEF Record, AppendRow
<1>2. tick \in Nat /\ position_log.rows = tick /\ Len(position_rows) = tick
  BY <1>1 DEF TypeOK, PositionLogContinuous, LogInv, RowsKept
<1>3. EventsKept'
  <2>1. tick <= tick' /\ tick' \in Nat
    BY <1>1, <1>2
  <2>. QED
    BY <1>2, <2>1 DEF LogInv, EventsKept
<1>4. FloorsKnown'
  BY <1>1 DEF LogInv, FloorsKnown, StartFloor
<1>5. /\ DOMAIN position_rows = 1..tick /\ DOMAIN position_rows' = 1..(tick + 1)
      /\ \A row \in 1..tick : position_rows'[row] = position_rows[row]
      /\ position_rows'[tick + 1] = Positions
  <2> DEFINE S == [Elevators -> Floors]
  <2>1. Positions \in S
    BY CarTypes DEF TypeOK, Positions
  <2>2. position_rows \in Seq(S)
    BY DEF LogInv, RowsKept
  <2> HIDE DEF S
  <2>. QED
    BY <1>1, <1>2, <2>1, <2>2
<1>6. RowsKept'
  BY StepRowsKept DEF LogInv, LogStep
<1>7. LogsAgree'
  <2>1. ASSUME NEW row \in 1..(tick + 1), NEW e \in Elevators
        PROVE  position_rows'[row][e] = LedTo(events, MovesUpTo(e, row - 1), StartFloor(e))
    <3>1. CASE row \in 1..tick
      BY <1>5, <3>1 DEF LogInv, LogsAgree, LedTo
    <3>2. CASE row = tick + 1
      <4>1. MovesUpTo(e, row - 1) = MovesIn(events, e)
        <5>1. row - 1 = tick /\ DOMAIN events = 1..Len(events)
          BY <1>2, <3>2, ListIndices DEF LogInv, EventsKept
        <5>2. \A i \in 1..Len(events) : events[i].tick <= tick
          BY DEF LogInv, EventsKept
        <5>. QED
          BY <5>1, <5>2 DEF MovesUpTo, MovesIn, IsMoveOf
      <4>2. position_rows'[row][e] = elevators[e].current_floor
        BY <1>5, <3>2 DEF Positions
      <4>. QED
        BY <4>1, <4>2 DEF LogInv, FloorsKnown
    <3>. QED
      BY <1>2, <3>1, <3>2
  <2>2. \A e, t : MovesUpTo(e, t)' = MovesUpTo(e, t)
    BY DEF MovesUpTo
  <2>. QED
    BY <1>5, <2>1, <2>2 DEF LogsAgree, LedTo, StartFloor
<1>. QED
  BY <1>3, <1>4, <1>6, <1>7 DEF LogInv

LEMMA StepLogInv ==
  ASSUME TypeOK, Bookkeeping, DispatchQueue, PositionLogContinuous, LogInv, [LogStep]_logVars
  PROVE  LogInv'
<1>1. CASE Record /\ AppendRow /\ UNCHANGED events
  BY <1>1, RecordKeepsLogs
<1>2. CASE Move /\ Emit(CarByCar(MoveEvents))
  <2>1. phase # "COMPLETED" /\ UNCHANGED <<tick, position_log>>
    BY <1>2 DEF Move
  <2>. QED
    BY <1>2, <2>1, MoveReport, EmitKeepsLogs
<1>3. CASE Pickup /\ Emit(CarByCar(PickupEvents))
  <2>1. phase # "COMPLETED" /\ UNCHANGED <<tick, position_log>>
    BY <1>3 DEF Pickup
  <2>2. \A e \in Elevators : elevators'[e].current_floor = elevators[e].current_floor
    BY <1>3, PickupStep
  <2>3. ReportOf(CarByCar(PickupEvents))
    BY <2>2, PickupReport, NoMoveReport
  <2>. QED
    BY <1>3, <2>1, <2>3, EmitKeepsLogs
<1>4. CASE Dropoff /\ Emit(CarByCar(DropoffEvents))
  <2>1. phase # "COMPLETED" /\ UNCHANGED <<tick, position_log>>
    BY <1>4 DEF Dropoff
  <2>2. \A e \in Elevators : elevators'[e].current_floor = elevators[e].current_floor
    BY <1>4, DropoffStep
  <2>3. ReportOf(CarByCar(DropoffEvents))
    BY <2>2, DropoffReport, NoMoveReport
  <2>. QED
    BY <1>4, <2>1, <2>3, EmitKeepsLogs
<1>5. CASE Dispatch /\ Emit(DispatchEvents)
  <2>1. phase # "COMPLETED" /\ UNCHANGED <<tick, position_log>>
    BY <1>5 DEF Dispatch
  <2>2. \A e \in Elevators : elevators'[e].current_floor = elevators[e].current_floor
    BY <1>5, DispatchKeeps
  <2>3. ReportOf(DispatchEvents)
    BY <2>2, DispatchReport, NoMoveReport
  <2>. QED
    BY <1>5, <2>1, <2>3, EmitKeepsLogs
<1>6. CASE Ingest /\ Emit(IngestEvents)
  <2>1. phase # "COMPLETED" /\ UNCHANGED <<tick, position_log, elevators>>
    BY <1>6 DEF Ingest
  <2>2. ReportOf(IngestEvents)
    BY <2>1, IngestReport, NoMoveReport
  <2>. QED
    BY <1>6, <2>1, <2>2, EmitKeepsLogs
<1>7. CASE (Validate /\ EmitNothing) \/ (EndDispatch /\ EmitNothing) \/ UNCHANGED logVars
  <2>1. UNCHANGED <<tick, elevators, position_log, events, position_rows>>
    BY <1>7 DEF Validate, EndDispatch, EmitNothing, logVars, vars
  <2>2. \A e, t : MovesUpTo(e, t)' = MovesUpTo(e, t)
    BY <2>1 DEF MovesUpTo
  <2>3. \A e : StartFloor(e)' = StartFloor(e)
    BY DEF StartFloor
  <2>4. EventsKept' /\ FloorsKnown' /\ RowsKept'
    BY <2>1, <2>3 DEF LogInv, EventsKept, FloorsKnown, RowsKept
  <2>5. LogsAgree'
    BY <2>1, <2>2, <2>3 DEF LogInv, LogsAgree
  <2>. QED
    BY <2>4, <2>5 DEF LogInv
<1>. QED
  BY <1>1, <1>2, <1>3, <1>4, <1>5, <1>6, <1>7 DEF LogStep

\* The position log and the moves among the events tell the same story
\* (LogsAgree): row by row, each car is where its last move up to that tick has
\* led it, for any number of cars, floors and requests.  The rows are what is
\* written to the file, the events what is not.
THEOREM LogsAgreeHolds == LogSpec => []LogsAgree
<1>1. LogSpec => [](TypeOK /\ Bookkeeping /\ DispatchQueue /\ PositionLogContinuous)
  BY LogsOnlyWatch, TypeCorrect, BookkeepingHolds, LogHolds, InvariantHolds, PTL DEF IInv
<1>2. TypeOK /\ Bookkeeping /\ DispatchQueue /\ PositionLogContinuous /\ LogInv
        /\ [LogStep]_logVars => LogInv'
  BY StepLogInv
<1>3. LogSpec => []LogInv
  BY <1>1, <1>2, InitLogInv, PTL DEF LogSpec
<1>4. LogInv => LogsAgree
  BY DEF LogInv
<1>. QED
  BY <1>3, <1>4, PTL

-----------------------------------------------------------------------------
(* Replaying the log *)

After(known, event) == [Told(known, event) EXCEPT !.sound = @ /\ Credible(known, event)]

\* g has the state after every first part of the list.
Tells(g, list) ==
  g = [n \in 0..Len(list) |-> IF n = 0 THEN BeforeTheLog ELSE After(g[n - 1], list[n])]

\* The part of the engine's state that the events speak of.
Floor == [e \in Elevators |-> elevators[e].current_floor]

Heads == [e \in Elevators |-> elevators[e].direction]

Account(st, ca, as, pi, de, fl, di) ==
  [status |-> st, car |-> ca, assigned_at |-> as, pickup_at |-> pi, delivery_at |-> de,
   floor |-> fl, direction |-> di, sound |-> TRUE]

TrueAccount == Account(status, assigned_elevator, assigned_time, pickup_time, delivery_time,
                 Floor, Heads)

\* Whom, or what about a car, the event is about.
Subject(event) ==
  CASE event.event_type = "ELEVATOR_MOVED" -> <<"floor", event.elevator>>
    [] event.event_type = "ELEVATOR_DIRECTION_CHANGED" -> <<"direction", event.elevator>>
    [] OTHER -> <<"passenger", event.passenger>>

\* The new values for those in D, the old ones for the rest.
Mixed(tag, S, new, old, D) == [x \in S |-> IF <<tag, x>> \in D THEN new[x] ELSE old[x]]

Put(f, x, v) == [f EXCEPT ![x] = v]

\* What is known when, of the step that is being taken, only what is about D has
\* been told.
KnownAfter(D) ==
  Account(Mixed("passenger", Passengers, status', status, D),
          Mixed("passenger", Passengers, assigned_elevator', assigned_elevator, D),
          Mixed("passenger", Passengers, assigned_time', assigned_time, D),
          Mixed("passenger", Passengers, pickup_time', pickup_time, D),
          Mixed("passenger", Passengers, delivery_time', delivery_time, D),
          Mixed("floor", Elevators, Floor', Floor, D),
          Mixed("direction", Elevators, Heads', Heads, D))

\* The events E say all that the step changes, one thing each, and any of them
\* is credible before or after any others.
AllToldBy(E) ==
  /\ \A a, b \in E : Subject(a) = Subject(b) => a = b
  /\ \A a \in E : \A D : Subject(a) \notin D =>
       After(KnownAfter(D), a) = KnownAfter(D \cup {Subject(a)})
  /\ KnownAfter({Subject(a) : a \in E}) = TrueAccount'

\* Whoever reads the events knows the engine's state.
Replayed ==
  /\ IsList(events)
  /\ \A g : Tells(g, events) => g[Len(events)] = TrueAccount

LEMMA SameAfter ==
  ASSUME requests' = requests
  PROVE  /\ \A known, event : After(known, event)' = After(known, event)
         /\ BeforeTheLog' = BeforeTheLog
<1>1. Passengers' = Passengers
  BY DEF Passengers
<1>2. \A known, event : Told(known, event)' = Told(known, event)
  BY DEF Told
<1>3. \A known, e : Aboard(known, e)' = Aboard(known, e)
  BY <1>1 DEF Aboard
<1>4. \A known, event : Credible(known, event)' = Credible(known, event)
  BY <1>3 DEF Credible
<1>5. \A e : StartFloor(e)' = StartFloor(e)
  BY DEF StartFloor
<1>. QED
  BY <1>1, <1>2, <1>4, <1>5 DEF After, BeforeTheLog

LEMMA StepReplayed ==
  ASSUME Replayed, requests' = requests, KnownAfter({}) = TrueAccount,
         NEW E, AllToldBy(E), NEW list, Enumerates(list, E), events' = events \o list
  PROVE  Replayed'
<1> DEFINE n == Len(events)
           m == Len(list)
           told(k) == {Subject(list[i]) : i \in 1..k}
<1>1. PICK S : events \in Seq(S)
  BY DEF Replayed, IsList
<1>2. events' \in Seq(S \cup E) /\ Joins(events', events, list)
  <2> DEFINE B == S \cup E
  <2>1. events \in Seq(B) /\ list \in Seq(B)
    BY <1>1 DEF Enumerates
  <2> HIDE DEF B
  <2>2. events' \in Seq(B) /\ Joins(events', events, list)
    BY <2>1, Concatenation
  <2>. QED
    BY <2>2 DEF B
<1>3. /\ n \in Nat /\ m \in Nat /\ Len(events') = n + m
      /\ \A i \in 1..n : events'[i] = events[i]
      /\ \A k \in 1..m : events'[n + k] = list[k]
  BY <1>1, <1>2 DEF Joins, Enumerates
<1>4. SUFFICES ASSUME NEW g, Tells(g, events)' PROVE g[n + m] = TrueAccount'
  BY <1>2, <1>3 DEF Replayed, IsList
<1>5. g = [i \in 0..(n + m) |-> IF i = 0 THEN BeforeTheLog
                                ELSE After(g[i - 1], events'[i])]
  BY <1>3, <1>4, SameAfter, SMTT(30) DEF Tells
<1>6. g[n] = TrueAccount
  <2> DEFINE h == [i \in 0..n |-> g[i]]
  <2>1. \A i \in 0..n : i \in 0..(n + m) /\ (i # 0 => i - 1 \in 0..n)
    BY <1>3
  <2>2. \A i \in 0..n : g[i] = IF i = 0 THEN BeforeTheLog ELSE After(g[i - 1], events'[i])
    BY <1>5, <2>1
  <2>3. \A i \in 0..n : i # 0 => h[i - 1] = g[i - 1] /\ events'[i] = events[i]
    BY <1>3, <2>1
  <2>4. h = [i \in 0..n |-> IF i = 0 THEN BeforeTheLog ELSE After(h[i - 1], events[i])]
    BY <2>2, <2>3
  <2>5. h[n] = TrueAccount
    <3> HIDE DEF h
    <3>. QED
      BY <2>4 DEF Replayed, Tells
  <2>. QED
    BY <1>3, <2>5
<1>7. \A k \in 1..m : list[k] \in E /\ \A i \in 1..m : list[i] = list[k] => i = k
  <2>1. list \in Seq(E) /\ Distinct(list)
    BY DEF Enumerates
  <2>2. \A k \in 1..m : list[k] \in E
    BY <2>1
  <2>. QED
    BY <2>1, <2>2 DEF Distinct
<1> DEFINE G == {k \in 0..m : g[n + k] = KnownAfter(told(k))}
<1>8. 0 \in G
  <2>1. told(0) = {}
    BY <1>3
  <2>2. n + 0 = n
    BY <1>3
  <2>3. 0 \in 0..m
    BY <1>3
  <2> HIDE DEF told, n, m
  <2>4. g[n + 0] = KnownAfter(told(0))
    BY <1>6, <2>1, <2>2
  <2>. QED
    BY <2>3, <2>4
<1>9. ASSUME NEW k \in 1..m, k - 1 \in G PROVE k \in G
  <2>1. g[n + k] = After(g[n + (k - 1)], list[k])
    <3>1. n + k \in 0..(n + m) /\ n + k # 0 /\ (n + k) - 1 = n + (k - 1)
      BY <1>3
    <3>. QED
      BY <1>3, <1>5, <3>1
  <2>2. g[n + (k - 1)] = KnownAfter(told(k - 1))
    BY <1>9
  <2>3. list[k] \in E /\ Subject(list[k]) \notin told(k - 1)
    <3>1. ASSUME NEW i \in 1..(k - 1), Subject(list[i]) = Subject(list[k]) PROVE FALSE
      <4>1. i \in 1..m /\ i # k
        BY <1>3
      <4>2. list[i] = list[k]
        BY <1>7, <3>1, <4>1 DEF AllToldBy
      <4>. QED
        BY <1>7, <4>1, <4>2
    <3>. QED
      BY <1>7, <3>1
  <2>4. told(k) = told(k - 1) \cup {Subject(list[k])}
    <3>1. 1..k = 1..(k - 1) \cup {k}
      BY <1>3
    <3>. QED
      BY <3>1
  <2>5. After(KnownAfter(told(k - 1)), list[k])
          = KnownAfter(told(k - 1) \cup {Subject(list[k])})
    <3> DEFINE D == told(k - 1)
    <3>1. Subject(list[k]) \notin D
      BY <2>3
    <3> HIDE DEF D
    <3>2. After(KnownAfter(D), list[k]) = KnownAfter(D \cup {Subject(list[k])})
      BY <2>3, <3>1 DEF AllToldBy
    <3>. QED
      BY <3>2 DEF D
  <2> HIDE DEF told
  <2>6. g[n + k] = KnownAfter(told(k))
    BY <2>1, <2>2, <2>4, <2>5
  <2>. QED
    BY <1>3, <2>6
<1>10. m \in G
  <2> HIDE DEF G, m
  <2>. QED
    BY <1>3, <1>8, <1>9, UpTo
<1>11. told(m) = {Subject(a) : a \in E}
  <2>1. \A a \in E : \E i \in 1..m : list[i] = a
    BY DEF Enumerates
  <2>. QED
    BY <1>7, <2>1
<1> HIDE DEF told
<1>. QED
  BY <1>10, <1>11 DEF AllToldBy

LEMMA MixedNone ==
  ASSUME NEW tag, NEW S, NEW old, old = [x \in S |-> old[x]], NEW new
  PROVE  Mixed(tag, S, new, old, {}) = old
  BY DEF Mixed

LEMMA MixedAll ==
  ASSUME NEW tag, NEW S, NEW new, new = [x \in S |-> new[x]], NEW old, NEW D,
         \A x \in S : new[x] # old[x] => <<tag, x>> \in D
  PROVE  Mixed(tag, S, new, old, D) = new
<1>1. \A x \in S : (IF <<tag, x>> \in D THEN new[x] ELSE old[x]) = new[x]
  OBVIOUS
<1>. QED
  BY <1>1 DEF Mixed

LEMMA MixedOne ==
  ASSUME NEW tag, NEW S, NEW new, NEW old, NEW D, NEW x \in S
  PROVE  Mixed(tag, S, new, old, D \cup {<<tag, x>>})
           = Put(Mixed(tag, S, new, old, D), x, new[x])
  BY DEF Mixed, Put

LEMMA FieldsAreFunctions ==
  ASSUME TypeOK
  PROVE  /\ status = [p \in Passengers |-> status[p]]
         /\ assigned_elevator = [p \in Passengers |-> assigned_elevator[p]]
         /\ assigned_time = [p \in Passengers |-> assigned_time[p]]
         /\ pickup_time = [p \in Passengers |-> pickup_time[p]]
         /\ delivery_time = [p \in Passengers |-> delivery_time[p]]
         /\ Floor = [e \in Elevators |-> Floor[e]]
         /\ Heads = [e \in Elevators |-> Heads[e]]
  BY DEF TypeOK, Floor, Heads

LEMMA NothingTold == TypeOK => KnownAfter({}) = TrueAccount
  BY FieldsAreFunctions, MixedNone DEF KnownAfter, TrueAccount

LEMMA EverythingTold ==
  ASSUME TypeOK', Passengers' = Passengers, NEW D,
         \A p \in Passengers : <<"passenger", p>> \notin D =>
           /\ status'[p] = status[p] /\ assigned_elevator'[p] = assigned_elevator[p]
           /\ assigned_time'[p] = assigned_time[p] /\ pickup_time'[p] = pickup_time[p]
           /\ delivery_time'[p] = delivery_time[p],
         \A e \in Elevators :
           /\ <<"floor", e>> \notin D => Floor'[e] = Floor[e]
           /\ <<"direction", e>> \notin D => Heads'[e] = Heads[e]
  PROVE  KnownAfter(D) = TrueAccount'
<1>1. /\ status' = [p \in Passengers |-> status'[p]]
      /\ assigned_elevator' = [p \in Passengers |-> assigned_elevator'[p]]
      /\ assigned_time' = [p \in Passengers |-> assigned_time'[p]]
      /\ pickup_time' = [p \in Passengers |-> pickup_time'[p]]
      /\ delivery_time' = [p \in Passengers |-> delivery_time'[p]]
      /\ Floor' = [e \in Elevators |-> Floor'[e]]
      /\ Heads' = [e \in Elevators |-> Heads'[e]]
  BY DEF TypeOK, Floor, Heads
<1>2. /\ Mixed("passenger", Passengers, status', status, D) = status'
      /\ Mixed("passenger", Passengers, assigned_elevator', assigned_elevator, D)
           = assigned_elevator'
      /\ Mixed("passenger", Passengers, assigned_time', assigned_time, D) = assigned_time'
  BY <1>1, MixedAll
<1>3. /\ Mixed("passenger", Passengers, pickup_time', pickup_time, D) = pickup_time'
      /\ Mixed("passenger", Passengers, delivery_time', delivery_time, D) = delivery_time'
  BY <1>1, MixedAll
<1>4. Mixed("floor", Elevators, Floor', Floor, D) = Floor'
  <2>1. \A e \in Elevators : Floor'[e] # Floor[e] => <<"floor", e>> \in D
    OBVIOUS
  <2>. QED
    BY <1>1, <2>1, MixedAll
<1>5. Mixed("direction", Elevators, Heads', Heads, D) = Heads'
  <2>1. \A e \in Elevators : Heads'[e] # Heads[e] => <<"direction", e>> \in D
    OBVIOUS
  <2>. QED
    BY <1>1, <2>1, MixedAll
<1>. QED
  BY <1>2, <1>3, <1>4, <1>5 DEF KnownAfter, TrueAccount, Account

LEMMA InitReplayed == LogInit => Replayed
<1> SUFFICES ASSUME LogInit PROVE Replayed
  OBVIOUS
<1>1. events = <<>> /\ IsList(events) /\ Len(events) = 0
  BY DEF LogInit, IsList
<1>2. BeforeTheLog = TrueAccount
  <2>1. \A e \in Elevators : /\ elevators[e].current_floor = StartFloor(e)
                              /\ elevators[e].direction = "IDLE"
    BY DEF LogInit, Init, IdleCar
  <2>. QED
    BY <2>1 DEF LogInit, Init, BeforeTheLog, TrueAccount, Account, Floor, Heads
<1>3. \A g : Tells(g, events) => g[0] = BeforeTheLog
  BY <1>1 DEF Tells
<1>. QED
  BY <1>1, <1>2, <1>3 DEF Replayed

\* The recursion of Replay defines a function.
LEMMA TellsExists ==
  ASSUME NEW list, Len(list) \in Nat
  PROVE  \E g : Tells(g, list)
<1> DEFINE next(f, i) == IF i = 0 THEN BeforeTheLog ELSE After(f[i - 1], list[i])
           made(g, k) == g = [i \in 0..k |-> next(g, i)]
           bad == {k \in Nat : ~ \E g : made(g, k)}
<1>1. SUFFICES ASSUME bad # {} PROVE FALSE
  BY DEF Tells
<1>2. PICK k \in bad : \A m \in bad : k <= m
  <2>1. bad \subseteq Nat
    OBVIOUS
  <2> HIDE DEF bad
  <2>. QED
    BY <1>1, <2>1, LeastElement
<1>3. CASE k = 0
  <2> DEFINE g == [i \in 0..0 |-> BeforeTheLog]
  <2>1. g = [i \in 0..0 |-> next(g, i)]
    OBVIOUS
  <2>2. made(g, k)
    BY <1>3, <2>1
  <2>. QED
    BY <1>2, <2>2
<1>4. CASE k # 0
  <2>1. k \in Nat /\ k - 1 \in Nat /\ k - 1 \notin bad
    <3>1. k \in Nat
      OBVIOUS
    <3> HIDE DEF bad
    <3>. QED
      BY <1>2, <1>4, <3>1
  <2>2. PICK g : made(g, k - 1)
    BY <2>1
  <2> DEFINE h == [i \in 0..k |-> IF i = k THEN next(g, k) ELSE g[i]]
  <2>3. \A i \in 0..k : i = k \/ i \in 0..(k - 1)
    BY <2>1
  <2>4. \A i \in 0..k : i # 0 => i - 1 \in 0..k /\ i - 1 # k
    BY <2>1
  <2>5. \A i \in 0..k : i # 0 => h[i - 1] = g[i - 1]
    BY <2>4
  <2>6. \A i \in 0..k : next(h, i) = next(g, i)
    BY <2>5
  <2>7. \A i \in 0..(k - 1) : g[i] = next(g, i)
    <3> HIDE DEF next
    <3>. QED
      BY <2>2
  <2>8. \A i \in 0..k : h[i] = next(h, i)
    <3>1. \A i \in 0..k : h[i] = next(g, i)
      BY <2>3, <2>7
    <3> HIDE DEF next, h
    <3>. QED
      BY <3>1, <2>6
  <2>9. made(h, k)
    <3>1. h = [i \in 0..k |-> h[i]]
      OBVIOUS
    <3> HIDE DEF next, h
    <3>. QED
      BY <3>1, <2>8
  <2>. QED
    BY <1>2, <2>9
<1>. QED
  BY <1>3, <1>4

LEMMA ReplayedAgrees == Replayed => ReplayAgrees
<1> SUFFICES ASSUME Replayed PROVE ReplayAgrees
  OBVIOUS
<1> DEFINE g == CHOOSE f : Tells(f, events)
<1>1. Len(events) \in Nat
  BY DEF Replayed, IsList
<1>2. Tells(g, events)
  BY <1>1, TellsExists
<1>3. Replay = g[Len(events)]
  BY DEF Replay, Tells, After
<1>4. Replay = TrueAccount
  <2> HIDE DEF g
  <2>. QED
    BY <1>2, <1>3 DEF Replayed
<1>. QED
  BY <1>4 DEF ReplayAgrees, TrueAccount, Account, Floor, Heads

\* What is known of somebody, or of a car, the present step has not been told of.
LEMMA NotYetTold ==
  ASSUME NEW D
  PROVE  /\ \A p \in Passengers : <<"passenger", p>> \notin D =>
              KnownAfter(D).status[p] = status[p] /\ KnownAfter(D).car[p] = assigned_elevator[p]
         /\ \A p \in Passengers : <<"passenger", p>> \in D =>
              /\ KnownAfter(D).status[p] = status'[p]
              /\ KnownAfter(D).car[p] = assigned_elevator'[p]
         /\ \A e \in Elevators :
              /\ Floor'[e] = Floor[e] \/ <<"floor", e>> \notin D =>
                   KnownAfter(D).floor[e] = elevators[e].current_floor
              /\ <<"direction", e>> \notin D =>
                   KnownAfter(D).direction[e] = elevators[e].direction
  BY DEF KnownAfter, Account, Mixed, Floor, Heads

\* What has not changed needs no telling.
LEMMA MixedKeeps ==
  ASSUME NEW tag, NEW S, NEW new, NEW old, NEW D, NEW x \in S, new[x] = old[x]
  PROVE  Put(Mixed(tag, S, new, old, D), x, new[x]) = Mixed(tag, S, new, old, D)
  BY DEF Mixed, Put

\* One passenger more.
LEMMA PassengerTold ==
  ASSUME NEW p \in Passengers, NEW D
  PROVE  \E st, ca, as, pi, de, fl, di :
           /\ KnownAfter(D) = Account(st, ca, as, pi, de, fl, di)
           /\ KnownAfter(D \cup {<<"passenger", p>>})
                = Account(Put(st, p, status'[p]),
                          Put(ca, p, assigned_elevator'[p]),
                          Put(as, p, assigned_time'[p]),
                          Put(pi, p, pickup_time'[p]),
                          Put(de, p, delivery_time'[p]), fl, di)
           /\ assigned_elevator'[p] = assigned_elevator[p] =>
                Put(ca, p, assigned_elevator'[p]) = ca
           /\ assigned_time'[p] = assigned_time[p] => Put(as, p, assigned_time'[p]) = as
           /\ pickup_time'[p] = pickup_time[p] => Put(pi, p, pickup_time'[p]) = pi
           /\ delivery_time'[p] = delivery_time[p] => Put(de, p, delivery_time'[p]) = de
<1> DEFINE told == D \cup {<<"passenger", p>>}
           st(d) == Mixed("passenger", Passengers, status', status, d)
           ca(d) == Mixed("passenger", Passengers, assigned_elevator', assigned_elevator, d)
           as(d) == Mixed("passenger", Passengers, assigned_time', assigned_time, d)
           pi(d) == Mixed("passenger", Passengers, pickup_time', pickup_time, d)
           de(d) == Mixed("passenger", Passengers, delivery_time', delivery_time, d)
           fl(d) == Mixed("floor", Elevators, Floor', Floor, d)
           di(d) == Mixed("direction", Elevators, Heads', Heads, d)
<1>1. /\ st(told) = Put(st(D), p, status'[p])
      /\ ca(told) = Put(ca(D), p, assigned_elevator'[p])
      /\ as(told) = Put(as(D), p, assigned_time'[p])
  BY MixedOne
<1>2. /\ pi(told) = Put(pi(D), p, pickup_time'[p])
      /\ de(told) = Put(de(D), p, delivery_time'[p])
  BY MixedOne
<1>3. fl(told) = fl(D) /\ di(told) = di(D)
  <2>1. \A e : /\ <<"floor", e>> \in told <=> <<"floor", e>> \in D
               /\ <<"direction", e>> \in told <=> <<"direction", e>> \in D
    OBVIOUS
  <2> HIDE DEF told
  <2>. QED
    BY <2>1 DEF Mixed
<1>4. \A d : KnownAfter(d) = Account(st(d), ca(d), as(d), pi(d), de(d), fl(d), di(d))
  BY DEF KnownAfter
<1>5. /\ assigned_elevator'[p] = assigned_elevator[p] =>
           Put(ca(D), p, assigned_elevator'[p]) = ca(D)
      /\ assigned_time'[p] = assigned_time[p] => Put(as(D), p, assigned_time'[p]) = as(D)
      /\ pickup_time'[p] = pickup_time[p] => Put(pi(D), p, pickup_time'[p]) = pi(D)
      /\ delivery_time'[p] = delivery_time[p] => Put(de(D), p, delivery_time'[p]) = de(D)
  BY MixedKeeps
<1> HIDE DEF st, ca, as, pi, de, fl, di
<1>6. KnownAfter(told)
        = Account(Put(st(D), p, status'[p]),
                  Put(ca(D), p, assigned_elevator'[p]),
                  Put(as(D), p, assigned_time'[p]),
                  Put(pi(D), p, pickup_time'[p]),
                  Put(de(D), p, delivery_time'[p]), fl(D), di(D))
  BY <1>1, <1>2, <1>3, <1>4
<1> HIDE DEF told
<1>7. KnownAfter(D) = Account(st(D), ca(D), as(D), pi(D), de(D), fl(D), di(D))
  BY <1>4
<1>. QED
  BY <1>5, <1>6, <1>7 DEF told

LEMMA RequestedTold ==
  ASSUME NEW p \in Passengers, NEW D, <<"passenger", p>> \notin D,
         status[p] = "ABSENT", requests[p].request_time = tick, status'[p] = "WAITING",
         UNCHANGED <<assigned_elevator, assigned_time, pickup_time, delivery_time>>
  PROVE  /\ Subject(PassengerRequested(p)) = <<"passenger", p>>
         /\ After(KnownAfter(D), PassengerRequested(p)) = KnownAfter(D \cup {<<"passenger", p>>})
<1> DEFINE a == PassengerRequested(p)
<1>1. a.event_type = "PASSENGER_REQUESTED" /\ a.passenger = p /\ a.tick = tick
  BY DEF PassengerRequested
<1> HIDE DEF a
<1>2. Credible(KnownAfter(D), a)
  BY <1>1, NotYetTold DEF Credible
<1>3. PICK st, ca, as, pi, de, fl, di :
        /\ KnownAfter(D) = Account(st, ca, as, pi, de, fl, di)
        /\ KnownAfter(D \cup {<<"passenger", p>>})
             = Account(Put(st, p, "WAITING"), ca, as, pi, de, fl, di)
  BY PassengerTold
<1>4. After(KnownAfter(D), a) = KnownAfter(D \cup {<<"passenger", p>>})
  <2> DEFINE k == Account(st, ca, as, pi, de, fl, di)
  <2>1. k.sound = TRUE /\ Credible(k, a)
    BY <1>2, <1>3 DEF Account
  <2>2. Told(k, a) = [k EXCEPT !.status[p] = "WAITING"]
    BY <1>1 DEF Told
  <2>3. After(k, a) = Account(Put(st, p, "WAITING"), ca, as, pi, de, fl, di)
    BY <2>1, <2>2, ZenonT(40) DEF After, Account, Put
  <2>4. KnownAfter(D) = k
    BY <1>3
  <2> HIDE DEF k
  <2>. QED
    BY <1>3, <2>3, <2>4
<1>5. Subject(a) = <<"passenger", p>>
  BY <1>1 DEF Subject
<1>. QED
  BY <1>4, <1>5 DEF a

LEMMA AssignedTold ==
  ASSUME NEW p \in Passengers, NEW D, <<"passenger", p>> \notin D,
         status[p] = "WAITING", status'[p] = "ASSIGNED", assigned_time'[p] = tick,
         UNCHANGED <<pickup_time, delivery_time>>, NEW e, assigned_elevator'[p] = e
  PROVE  /\ Subject(PassengerAssigned(p, e)) = <<"passenger", p>>
         /\ After(KnownAfter(D), PassengerAssigned(p, e)) = KnownAfter(D \cup {<<"passenger", p>>})
<1> DEFINE a == PassengerAssigned(p, e)
<1>1. /\ a.event_type = "PASSENGER_ASSIGNED" /\ a.passenger = p /\ a.tick = tick
      /\ a.elevator = e
  BY DEF PassengerAssigned
<1> HIDE DEF a
<1>2. Credible(KnownAfter(D), a)
  BY <1>1, NotYetTold DEF Credible
<1>3. PICK st, ca, as, pi, de, fl, di :
        /\ KnownAfter(D) = Account(st, ca, as, pi, de, fl, di)
        /\ KnownAfter(D \cup {<<"passenger", p>>})
             = Account(Put(st, p, "ASSIGNED"), Put(ca, p, e),
                       Put(as, p, tick), pi, de, fl, di)
  BY PassengerTold
<1>4. After(KnownAfter(D), a) = KnownAfter(D \cup {<<"passenger", p>>})
  <2> DEFINE k == Account(st, ca, as, pi, de, fl, di)
  <2>1. k.sound = TRUE /\ Credible(k, a)
    BY <1>2, <1>3 DEF Account
  <2>2. Told(k, a) = [k EXCEPT !.status[p] = "ASSIGNED", !.car[p] = e, !.assigned_at[p] = tick]
    BY <1>1 DEF Told
  <2>3. After(k, a) = Account(Put(st, p, "ASSIGNED"), Put(ca, p, e), Put(as, p, tick),
                              pi, de, fl, di)
    BY <2>1, <2>2, ZenonT(40) DEF After, Account, Put
  <2>4. KnownAfter(D) = k
    BY <1>3
  <2> HIDE DEF k
  <2>. QED
    BY <1>3, <2>3, <2>4
<1>5. Subject(a) = <<"passenger", p>>
  BY <1>1 DEF Subject
<1>. QED
  BY <1>4, <1>5 DEF a

LEMMA PickedUpTold ==
  ASSUME NEW p \in Passengers, NEW e \in Elevators, NEW D, <<"passenger", p>> \notin D,
         status[p] = "ASSIGNED", assigned_elevator[p] = e,
         requests[p].source = elevators[e].current_floor,
         status'[p] = "RIDING", pickup_time'[p] = tick, Floor' = Floor,
         UNCHANGED <<assigned_elevator, assigned_time, delivery_time>>,
         Cardinality(Aboard(KnownAfter(D), e)) < MaxCapacity
  PROVE  /\ Subject(PassengerPickedUp(p, e)) = <<"passenger", p>>
         /\ After(KnownAfter(D), PassengerPickedUp(p, e)) = KnownAfter(D \cup {<<"passenger", p>>})
<1> DEFINE a == PassengerPickedUp(p, e)
<1>1. /\ a.event_type = "PASSENGER_PICKED_UP" /\ a.passenger = p /\ a.tick = tick
      /\ a.elevator = e /\ a.floor = elevators[e].current_floor
  BY DEF PassengerPickedUp
<1> HIDE DEF a
<1>2. Credible(KnownAfter(D), a)
  BY <1>1, NotYetTold DEF Credible
<1>3. PICK st, ca, as, pi, de, fl, di :
        /\ KnownAfter(D) = Account(st, ca, as, pi, de, fl, di)
        /\ KnownAfter(D \cup {<<"passenger", p>>})
             = Account(Put(st, p, "RIDING"), ca, as, Put(pi, p, tick), de, fl, di)
  BY PassengerTold
<1>4. After(KnownAfter(D), a) = KnownAfter(D \cup {<<"passenger", p>>})
  <2> DEFINE k == Account(st, ca, as, pi, de, fl, di)
  <2>1. k.sound = TRUE /\ Credible(k, a)
    BY <1>2, <1>3 DEF Account
  <2>2. Told(k, a) = [k EXCEPT !.status[p] = "RIDING", !.pickup_at[p] = tick]
    BY <1>1 DEF Told
  <2>3. After(k, a) = Account(Put(st, p, "RIDING"), ca, as, Put(pi, p, tick), de, fl, di)
    BY <2>1, <2>2, ZenonT(40) DEF After, Account, Put
  <2>4. KnownAfter(D) = k
    BY <1>3
  <2> HIDE DEF k
  <2>. QED
    BY <1>3, <2>3, <2>4
<1>5. Subject(a) = <<"passenger", p>>
  BY <1>1 DEF Subject
<1>. QED
  BY <1>4, <1>5 DEF a

LEMMA DeliveredTold ==
  ASSUME NEW p \in Passengers, NEW e \in Elevators, NEW D, <<"passenger", p>> \notin D,
         status[p] = "RIDING", assigned_elevator[p] = e,
         requests[p].dest = elevators[e].current_floor,
         status'[p] = "DELIVERED", delivery_time'[p] = tick, Floor' = Floor,
         UNCHANGED <<assigned_elevator, assigned_time, pickup_time>>
  PROVE  /\ Subject(PassengerDelivered(p, e)) = <<"passenger", p>>
         /\ After(KnownAfter(D), PassengerDelivered(p, e)) = KnownAfter(D \cup {<<"passenger", p>>})
<1> DEFINE a == PassengerDelivered(p, e)
<1>1. /\ a.event_type = "PASSENGER_DELIVERED" /\ a.passenger = p /\ a.tick = tick
      /\ a.elevator = e /\ a.floor = elevators[e].current_floor
  BY DEF PassengerDelivered
<1> HIDE DEF a
<1>2. Credible(KnownAfter(D), a)
  BY <1>1, NotYetTold DEF Credible, Aboard
<1>3. PICK st, ca, as, pi, de, fl, di :
        /\ KnownAfter(D) = Account(st, ca, as, pi, de, fl, di)
        /\ KnownAfter(D \cup {<<"passenger", p>>})
             = Account(Put(st, p, "DELIVERED"), ca, as, pi, Put(de, p, tick), fl, di)
  BY PassengerTold
<1>4. After(KnownAfter(D), a) = KnownAfter(D \cup {<<"passenger", p>>})
  <2> DEFINE k == Account(st, ca, as, pi, de, fl, di)
  <2>1. k.sound = TRUE /\ Credible(k, a)
    BY <1>2, <1>3 DEF Account
  <2>2. Told(k, a) = [k EXCEPT !.status[p] = "DELIVERED", !.delivery_at[p] = tick]
    BY <1>1 DEF Told
  <2>3. After(k, a) = Account(Put(st, p, "DELIVERED"), ca, as, pi, Put(de, p, tick), fl, di)
    BY <2>1, <2>2, ZenonT(40) DEF After, Account, Put
  <2>4. KnownAfter(D) = k
    BY <1>3
  <2> HIDE DEF k
  <2>. QED
    BY <1>3, <2>3, <2>4
<1>5. Subject(a) = <<"passenger", p>>
  BY <1>1 DEF Subject
<1>. QED
  BY <1>4, <1>5 DEF a

\* The floor, or the direction, of one car more.
LEMMA CarTold ==
  ASSUME NEW e \in Elevators, NEW D
  PROVE  \E st, ca, as, pi, de, fl, di :
           /\ KnownAfter(D) = Account(st, ca, as, pi, de, fl, di)
           /\ KnownAfter(D \cup {<<"floor", e>>})
                = Account(st, ca, as, pi, de, Put(fl, e, Floor'[e]), di)
           /\ KnownAfter(D \cup {<<"direction", e>>})
                = Account(st, ca, as, pi, de, fl, Put(di, e, Heads'[e]))
<1> DEFINE here == D \cup {<<"floor", e>>}
           head == D \cup {<<"direction", e>>}
           st(d) == Mixed("passenger", Passengers, status', status, d)
           ca(d) == Mixed("passenger", Passengers, assigned_elevator', assigned_elevator, d)
           as(d) == Mixed("passenger", Passengers, assigned_time', assigned_time, d)
           pi(d) == Mixed("passenger", Passengers, pickup_time', pickup_time, d)
           de(d) == Mixed("passenger", Passengers, delivery_time', delivery_time, d)
           fl(d) == Mixed("floor", Elevators, Floor', Floor, d)
           di(d) == Mixed("direction", Elevators, Heads', Heads, d)
<1>1. fl(here) = Put(fl(D), e, Floor'[e]) /\ di(head) = Put(di(D), e, Heads'[e])
  BY MixedOne
<1>2. /\ st(here) = st(D) /\ ca(here) = ca(D) /\ as(here) = as(D)
      /\ pi(here) = pi(D) /\ de(here) = de(D) /\ di(here) = di(D)
  <2>1. \A x : /\ <<"passenger", x>> \in here <=> <<"passenger", x>> \in D
               /\ <<"direction", x>> \in here <=> <<"direction", x>> \in D
    OBVIOUS
  <2> HIDE DEF here
  <2>2. st(here) = st(D) /\ ca(here) = ca(D) /\ as(here) = as(D)
    BY <2>1 DEF Mixed
  <2>3. pi(here) = pi(D) /\ de(here) = de(D) /\ di(here) = di(D)
    BY <2>1 DEF Mixed
  <2>. QED
    BY <2>2, <2>3
<1>3. /\ st(head) = st(D) /\ ca(head) = ca(D) /\ as(head) = as(D)
      /\ pi(head) = pi(D) /\ de(head) = de(D) /\ fl(head) = fl(D)
  <2>1. \A x : /\ <<"passenger", x>> \in head <=> <<"passenger", x>> \in D
               /\ <<"floor", x>> \in head <=> <<"floor", x>> \in D
    OBVIOUS
  <2> HIDE DEF head
  <2>2. st(head) = st(D) /\ ca(head) = ca(D) /\ as(head) = as(D)
    BY <2>1 DEF Mixed
  <2>3. pi(head) = pi(D) /\ de(head) = de(D) /\ fl(head) = fl(D)
    BY <2>1 DEF Mixed
  <2>. QED
    BY <2>2, <2>3
<1>4. \A d : KnownAfter(d) = Account(st(d), ca(d), as(d), pi(d), de(d), fl(d), di(d))
  BY DEF KnownAfter
<1> HIDE DEF st, ca, as, pi, de, fl, di
<1>5. KnownAfter(here)
        = Account(st(D), ca(D), as(D), pi(D), de(D), Put(fl(D), e, Floor'[e]), di(D))
  BY <1>1, <1>2, <1>4
<1>6. KnownAfter(head)
        = Account(st(D), ca(D), as(D), pi(D), de(D), fl(D), Put(di(D), e, Heads'[e]))
  BY <1>1, <1>3, <1>4
<1>7. KnownAfter(D) = Account(st(D), ca(D), as(D), pi(D), de(D), fl(D), di(D))
  BY <1>4
<1> HIDE DEF here, head
<1>8. /\ KnownAfter(D) = Account(st(D), ca(D), as(D), pi(D), de(D), fl(D), di(D))
      /\ KnownAfter(here)
           = Account(st(D), ca(D), as(D), pi(D), de(D), Put(fl(D), e, Floor'[e]), di(D))
      /\ KnownAfter(head)
           = Account(st(D), ca(D), as(D), pi(D), de(D), fl(D), Put(di(D), e, Heads'[e]))
  BY <1>5, <1>6, <1>7
<1>. QED
  BY <1>8 DEF here, head

LEMMA MovedTold ==
  ASSUME NEW e \in Elevators, NEW D, <<"floor", e>> \notin D, NEW old, NEW new,
         old = elevators[e].current_floor, new = elevators'[e].current_floor,
         Abs(new - old) = 1
  PROVE  /\ Subject(ElevatorMoved(e, old, new)) = <<"floor", e>>
         /\ After(KnownAfter(D), ElevatorMoved(e, old, new)) = KnownAfter(D \cup {<<"floor", e>>})
<1> DEFINE a == ElevatorMoved(e, old, new)
<1>1. /\ a.event_type = "ELEVATOR_MOVED" /\ a.elevator = e
      /\ a.from_floor = old /\ a.to_floor = new
  BY DEF ElevatorMoved
<1> HIDE DEF a
<1>2. Credible(KnownAfter(D), a)
  BY <1>1, NotYetTold DEF Credible
<1>3. PICK st, ca, as, pi, de, fl, di :
        /\ KnownAfter(D) = Account(st, ca, as, pi, de, fl, di)
        /\ KnownAfter(D \cup {<<"floor", e>>})
             = Account(st, ca, as, pi, de, Put(fl, e, Floor'[e]), di)
        /\ KnownAfter(D \cup {<<"direction", e>>})
             = Account(st, ca, as, pi, de, fl, Put(di, e, Heads'[e]))
  BY CarTold
<1>4. After(KnownAfter(D), a) = KnownAfter(D \cup {<<"floor", e>>})
  <2> DEFINE k == Account(st, ca, as, pi, de, fl, di)
  <2>1. k.sound = TRUE /\ Credible(k, a)
    BY <1>2, <1>3 DEF Account
  <2>2. Told(k, a) = [k EXCEPT !.floor[e] = new]
    BY <1>1 DEF Told
  <2>3. After(k, a) = Account(st, ca, as, pi, de, Put(fl, e, new), di)
    BY <2>1, <2>2, ZenonT(40) DEF After, Account, Put
  <2>4. Floor'[e] = new
    BY DEF Floor
  <2>. QED
    BY <1>3, <2>3, <2>4
<1>5. Subject(a) = <<"floor", e>>
  BY <1>1 DEF Subject
<1>. QED
  BY <1>4, <1>5 DEF a

LEMMA TurnedTold ==
  ASSUME NEW e \in Elevators, NEW D, <<"direction", e>> \notin D, NEW old, NEW new,
         old = elevators[e].direction, new = elevators'[e].direction
  PROVE  /\ Subject(ElevatorDirectionChanged(e, old, new)) = <<"direction", e>>
         /\ After(KnownAfter(D), ElevatorDirectionChanged(e, old, new))
              = KnownAfter(D \cup {<<"direction", e>>})
<1> DEFINE a == ElevatorDirectionChanged(e, old, new)
<1>1. /\ a.event_type = "ELEVATOR_DIRECTION_CHANGED" /\ a.elevator = e
      /\ a.old_direction = old /\ a.new_direction = new
  BY DEF ElevatorDirectionChanged
<1> HIDE DEF a
<1>2. Credible(KnownAfter(D), a)
  BY <1>1, NotYetTold DEF Credible
<1>3. PICK st, ca, as, pi, de, fl, di :
        /\ KnownAfter(D) = Account(st, ca, as, pi, de, fl, di)
        /\ KnownAfter(D \cup {<<"floor", e>>})
             = Account(st, ca, as, pi, de, Put(fl, e, Floor'[e]), di)
        /\ KnownAfter(D \cup {<<"direction", e>>})
             = Account(st, ca, as, pi, de, fl, Put(di, e, Heads'[e]))
  BY CarTold
<1>4. After(KnownAfter(D), a) = KnownAfter(D \cup {<<"direction", e>>})
  <2> DEFINE k == Account(st, ca, as, pi, de, fl, di)
  <2>1. k.sound = TRUE /\ Credible(k, a)
    BY <1>2, <1>3 DEF Account
  <2>2. Told(k, a) = [k EXCEPT !.direction[e] = new]
    BY <1>1 DEF Told
  <2>3. After(k, a) = Account(st, ca, as, pi, de, fl, Put(di, e, new))
    BY <2>1, <2>2, ZenonT(40) DEF After, Account, Put
  <2>4. Heads'[e] = new
    BY DEF Heads
  <2>. QED
    BY <1>3, <2>3, <2>4
<1>5. Subject(a) = <<"direction", e>>
  BY <1>1 DEF Subject
<1>. QED
  BY <1>4, <1>5 DEF a

Boarded == {d \in Passengers \X Passengers : BoardedBefore(d[1], d[2])}

LEMMA BoardedOrders == TypeOK => Orders(Boarded, Passengers)
<1> SUFFICES ASSUME TypeOK PROVE Orders(Boarded, Passengers)
  OBVIOUS
<1>1. \A p, q \in Passengers : <<p, q>> \in Boarded <=> BoardedBefore(p, q)
  BY DEF Boarded
<1>2. \A p, q \in Passengers : <<p, q>> \in InLine <=> InLineBefore(p, q)
  BY DEF InLine
<1>3. Orders(InLine, Passengers)
  BY InLineOrders
<1>4. \A p \in Passengers : pickup_time[p] \in Int
  BY OrderedTimes
<1>5. \A p \in Passengers : ~BoardedBefore(p, p)
  <2>1. \A p \in Passengers : ~InLineBefore(p, p)
    BY <1>2, <1>3 DEF Orders
  <2>. QED
    BY <1>4, <2>1 DEF BoardedBefore
<1>6. ASSUME NEW p \in Passengers, NEW q \in Passengers, NEW r \in Passengers,
             BoardedBefore(p, q), BoardedBefore(q, r)
      PROVE  BoardedBefore(p, r)
  <2>1. InLineBefore(p, q) /\ InLineBefore(q, r) => InLineBefore(p, r)
    BY <1>2, <1>3 DEF Orders
  <2>. QED
    BY <1>4, <1>6, <2>1 DEF BoardedBefore
<1>7. ASSUME NEW p \in Passengers, NEW q \in Passengers, p # q
      PROVE  BoardedBefore(p, q) \/ BoardedBefore(q, p)
  <2>1. InLineBefore(p, q) \/ InLineBefore(q, p)
    BY <1>2, <1>3, <1>7 DEF Orders
  <2>. QED
    BY <1>4, <2>1 DEF BoardedBefore
<1>. QED
  BY <1>1, <1>5, <1>6, <1>7 DEF Orders


LEMMA BoardedListed ==
  ASSUME TypeOK, NEW S \in SUBSET Passengers
  PROVE  Orders(Boarded, S) /\ Listing(InOrder(S, BoardedBefore), S, Boarded)
<1> DEFINE one(i) == CHOOSE p \in S : Rank(S, Boarded, p) = i - 1
           two(i) == CHOOSE p \in S : Cardinality({q \in S : BoardedBefore(q, p)}) = i - 1
<1>1. IsFiniteSet(S) /\ Orders(Boarded, S)
  BY FinitePassengers, BoardedOrders DEF Orders
<1>2. InOrder(S, BoardedBefore) = [i \in 1..Cardinality(S) |-> two(i)]
  BY DEF InOrder
<1>3. \A i : one(i) = two(i)
  <2>1. \A p \in S : {q \in S : <<q, p>> \in Boarded} = {q \in S : BoardedBefore(q, p)}
    BY DEF Boarded
  <2>2. \A p \in S : Rank(S, Boarded, p) = Cardinality({q \in S : BoardedBefore(q, p)})
    BY <2>1 DEF Rank
  <2>. QED
    BY <2>2
<1>4. InOrder(S, BoardedBefore) = [i \in 1..Cardinality(S) |-> one(i)]
  <2> HIDE DEF one, two
  <2>. QED
    BY <1>2, <1>3
<1>5. Listing([i \in 1..Cardinality(S) |-> one(i)], S, Boarded)
  BY <1>1, ChosenByRank
<1> HIDE DEF one
<1>. QED
  BY <1>1, <1>4, <1>5

\* The events f makes of the passengers S.
About(f, S) == {f[p] : p \in S}

\* Events about passengers S, one each, tell a step that concerns nobody else and
\* moves no car.
LEMMA PassengersTold ==
  ASSUME TypeOK', Passengers' = Passengers, Floor' = Floor, Heads' = Heads,
         NEW S \in SUBSET Passengers, NEW f,
         \A p \in S : Subject(f[p]) = <<"passenger", p>>,
         \A p \in S : \A D : <<"passenger", p>> \notin D =>
           After(KnownAfter(D), f[p]) = KnownAfter(D \cup {<<"passenger", p>>}),
         \A p \in Passengers : p \notin S =>
           /\ status'[p] = status[p] /\ assigned_elevator'[p] = assigned_elevator[p]
           /\ assigned_time'[p] = assigned_time[p] /\ pickup_time'[p] = pickup_time[p]
           /\ delivery_time'[p] = delivery_time[p]
  PROVE  AllToldBy(About(f, S))
<1> DEFINE E == {f[p] : p \in S}
           told == {Subject(a) : a \in E}
<1>1. \A a, b \in E : Subject(a) = Subject(b) => a = b
  <2> TAKE a \in E, b \in E
  <2>1. PICK p \in S : a = f[p]
    OBVIOUS
  <2>2. PICK q \in S : b = f[q]
    OBVIOUS
  <2>3. Subject(a) = Subject(b) => p = q
    BY <2>1, <2>2
  <2>. QED
    BY <2>1, <2>2, <2>3
<1>2. ASSUME NEW a \in E, NEW D, Subject(a) \notin D
      PROVE  After(KnownAfter(D), a) = KnownAfter(D \cup {Subject(a)})
  <2>1. PICK p \in S : a = f[p]
    OBVIOUS
  <2>2. Subject(a) = <<"passenger", p>>
    BY <2>1
  <2>. QED
    BY <1>2, <2>1, <2>2
<1>3. \A p \in Passengers : <<"passenger", p>> \notin told => p \notin S
  <2>1. \A p \in S : Subject(f[p]) \in told
    OBVIOUS
  <2> HIDE DEF told
  <2>. QED
    BY <2>1
<1> HIDE DEF told
<1>4. KnownAfter(told) = TrueAccount'
  BY <1>3, EverythingTold
<1> HIDE DEF E
<1>5. AllToldBy(E)
  BY <1>1, <1>2, <1>4 DEF AllToldBy, told
<1>. QED
  BY <1>5 DEF E, About

\* The reports of the cars together.
LEMMA PartsEnumerated ==
  ASSUME NEW lists, lists = [i \in 1..NumElevators |-> lists[i]], NEW f,
         \A p, q \in Passengers : f[p] = f[q] => p = q,
         NEW part, \A i \in 1..NumElevators : part[i] \subseteq Passengers,
         \A i, j \in 1..NumElevators : i # j => part[i] \cap part[j] = {},
         \A i \in 1..NumElevators : Enumerates(lists[i], About(f, part[i])),
         NEW S, \A p : p \in S <=> \E i \in 1..NumElevators : p \in part[i]
  PROVE  Enumerates(FlattenSeq(lists), About(f, S))
<1> DEFINE n == NumElevators
           E == [i \in 1..n |-> About(f, part[i])]
<1>1. n \in Nat /\ n >= 1
  BY FleetAssumption
<1>2. \A i \in 1..n : Enumerates(lists[i], E[i])
  OBVIOUS
<1>3. \A i, j \in 1..n : i # j => E[i] \cap E[j] = {}
  <2> SUFFICES ASSUME NEW i \in 1..n, NEW j \in 1..n, i # j, NEW x \in E[i], x \in E[j]
               PROVE  FALSE
    OBVIOUS
  <2>1. PICK p \in part[i] : x = f[p]
    BY DEF About
  <2>2. PICK q \in part[j] : x = f[q]
    BY DEF About
  <2>3. p \in Passengers /\ q \in Passengers /\ part[i] \cap part[j] = {}
    OBVIOUS
  <2>4. p = q
    BY <2>1, <2>2, <2>3
  <2>. QED
    BY <2>3, <2>4
<1>4. UNION {E[i] : i \in 1..n} = About(f, S)
  <2>1. \A i \in 1..n : E[i] = {f[p] : p \in part[i]}
    BY DEF About
  <2> HIDE DEF E
  <2>2. ASSUME NEW x \in UNION {E[i] : i \in 1..n} PROVE x \in About(f, S)
    <3>1. PICK i \in 1..n : x \in E[i]
      OBVIOUS
    <3>2. PICK p \in part[i] : x = f[p]
      BY <2>1, <3>1
    <3>. QED
      BY <3>2 DEF About
  <2>3. ASSUME NEW x \in About(f, S) PROVE x \in UNION {E[i] : i \in 1..n}
    <3>1. PICK p \in S : x = f[p]
      BY DEF About
    <3>2. PICK i \in 1..n : p \in part[i]
      OBVIOUS
    <3>. QED
      BY <2>1, <3>1, <3>2
  <2>. QED
    BY <2>2, <2>3
<1> HIDE DEF E
<1>5. Enumerates(FlattenSeq(lists), UNION {E[i] : i \in 1..n})
  BY <1>1, <1>2, <1>3, FlattenEnumerates
<1>. QED
  BY <1>4, <1>5

\* The report of a phase: a list of all there is to tell.
TellsAll(list) == \E E : Enumerates(list, E) /\ AllToldBy(E)

LEMMA IngestTells ==
  ASSUME TypeOK, TypeOK', Passengers' = Passengers, Ingest
  PROVE  TellsAll(IngestEvents)
<1> DEFINE S == {p \in Passengers : Arriving(p)}
           f == [p \in Passengers |-> PassengerRequested(p)]
           order == InOrder(S, Earlier)
<1>1. S \in SUBSET Passengers
  OBVIOUS
<1>2. Orders(InDict, S) /\ Listing(order, S, InDict)
  <2> HIDE DEF S
  <2>. QED
    BY <1>1, InDictListed
<1>3. \A p, q \in Passengers : f[p] = f[q] => p = q
  <2>1. \A p \in Passengers : f[p].passenger = p
    BY DEF PassengerRequested
  <2> HIDE DEF f
  <2>. QED
    BY <2>1
<1>4. IngestEvents = [i \in 1..Len(order) |-> f[order[i]]]
  <2>1. IngestEvents = [i \in DOMAIN order |-> PassengerRequested(order[i])]
    BY DEF IngestEvents
  <2>2. DOMAIN order = 1..Len(order) /\ \A i \in 1..Len(order) : order[i] \in Passengers
    <3> HIDE DEF order, S
    <3>. QED
      BY <1>1, <1>2 DEF Listing
  <2> HIDE DEF order
  <2>. QED
    BY <2>1, <2>2
<1>5. \A p \in S : /\ status[p] = "ABSENT" /\ requests[p].request_time = tick
                   /\ status'[p] = "WAITING"
  BY DEF Arriving, Ingest
<1>6. /\ UNCHANGED <<assigned_elevator, assigned_time, pickup_time, delivery_time, elevators>>
      /\ \A p \in Passengers : p \notin S => status'[p] = status[p]
  BY DEF Ingest
<1>7. Floor' = Floor /\ Heads' = Heads
  BY <1>6 DEF Floor, Heads
<1>8. \A p \in S : /\ f[p] = PassengerRequested(p)
                   /\ f[p].event_type = "PASSENGER_REQUESTED" /\ f[p].passenger = p
  BY <1>1 DEF PassengerRequested
<1> HIDE DEF S, f, order
<1>9. ASSUME NEW p \in S, NEW D, <<"passenger", p>> \notin D
      PROVE  /\ Subject(f[p]) = <<"passenger", p>>
             /\ After(KnownAfter(D), f[p]) = KnownAfter(D \cup {<<"passenger", p>>})
  <2>1. p \in Passengers
    BY <1>1
  <2>. QED
    BY <1>5, <1>6, <1>8, <1>9, <2>1, RequestedTold
<1>10. \A p \in S : Subject(f[p]) = <<"passenger", p>>
  <2> TAKE p \in S
  <2>1. f[p].event_type = "PASSENGER_REQUESTED" /\ f[p].passenger = p
    BY <1>8
  <2>. QED
    BY <2>1 DEF Subject
<1>11. AllToldBy(About(f, S))
  BY <1>1, <1>6, <1>7, <1>9, <1>10, PassengersTold
<1>12. Enumerates(IngestEvents, About(f, S))
  <2>1. \A p, q \in S : f[p] = f[q] => p = q
    BY <1>1, <1>3
  <2>. QED
    BY <1>2, <1>4, <2>1, MadeOfListing DEF About
<1>. QED
  BY <1>11, <1>12 DEF TellsAll

LEMMA DispatchTells ==
  ASSUME TypeOK, TypeOK', DispatchQueue, Passengers' = Passengers, Dispatch
  PROVE  TellsAll(DispatchEvents)
<1>1. PICK S, f : /\ S = {p \in Passengers : status[p] # status'[p]}
                  /\ f = [p \in Passengers |-> PassengerAssigned(p, assigned_elevator'[p])]
  OBVIOUS
<1>2. S \in SUBSET Passengers
  BY <1>1
<1>3. PICK order : order = InOrder(S, Earlier)
  OBVIOUS
<1>4. Orders(InDict, S) /\ Listing(order, S, InDict)
  BY <1>2, <1>3, InDictListed
<1>5. \A p \in Passengers :
        /\ f[p] = PassengerAssigned(p, assigned_elevator'[p])
        /\ f[p].event_type = "PASSENGER_ASSIGNED" /\ f[p].passenger = p
  BY <1>1 DEF PassengerAssigned
<1>6. DispatchEvents = [i \in 1..Len(order) |-> f[order[i]]]
  <2>1. DispatchEvents
          = [i \in DOMAIN order |-> PassengerAssigned(order[i], assigned_elevator'[order[i]])]
    BY <1>1, <1>3 DEF DispatchEvents
  <2>2. DOMAIN order = 1..Len(order) /\ \A i \in 1..Len(order) : order[i] \in Passengers
    BY <1>2, <1>4 DEF Listing
  <2>. QED
    BY <1>5, <2>1, <2>2
<1>7. /\ \A p \in S : /\ status[p] = "WAITING" /\ status'[p] = "ASSIGNED"
                      /\ assigned_time'[p] = tick
      /\ UNCHANGED <<pickup_time, delivery_time>>
  BY <1>1, DispatchKeeps
<1>8. \A p \in Passengers : p \notin S =>
        /\ status'[p] = status[p] /\ assigned_elevator'[p] = assigned_elevator[p]
        /\ assigned_time'[p] = assigned_time[p] /\ pickup_time'[p] = pickup_time[p]
        /\ delivery_time'[p] = delivery_time[p]
  BY <1>1, DispatchKeeps
<1>9. Floor' = Floor /\ Heads' = Heads
  BY DispatchKeeps DEF Floor, Heads
<1>10. \A p \in S : Subject(f[p]) = <<"passenger", p>>
  BY <1>2, <1>5 DEF Subject
<1>11. ASSUME NEW p \in S, NEW D, <<"passenger", p>> \notin D
       PROVE  After(KnownAfter(D), f[p]) = KnownAfter(D \cup {<<"passenger", p>>})
  <2>1. PICK e : e = assigned_elevator'[p]
    OBVIOUS
  <2>2. p \in Passengers /\ f[p] = PassengerAssigned(p, e)
    BY <1>2, <1>5, <2>1
  <2>. QED
    BY <1>7, <1>11, <2>1, <2>2, AssignedTold
<1>12. AllToldBy(About(f, S))
  BY <1>2, <1>8, <1>9, <1>10, <1>11, PassengersTold
<1>13. Enumerates(DispatchEvents, About(f, S))
  <2>1. \A p, q \in S : f[p] = f[q] => p = q
    BY <1>2, <1>5
  <2>. QED
    BY <1>4, <1>6, <2>1, MadeOfListing DEF About
<1>. QED
  BY <1>12, <1>13 DEF TellsAll

LEMMA DropoffTells ==
  ASSUME TypeOK, TypeOK', Bookkeeping, Passengers' = Passengers, Dropoff
  PROVE  TellsAll(CarByCar(DropoffEvents))
<1> DEFINE n == NumElevators
<1>1. PICK f, part :
        /\ f = [p \in Passengers |-> PassengerDelivered(p, assigned_elevator[p])]
        /\ part = [i \in 1..n |-> Alighting(elevators[i - 1], requests)]
  OBVIOUS
<1>2. \A i \in 1..n : /\ i - 1 \in Elevators
                     /\ part[i] = Alighting(elevators[i - 1], requests)
  BY <1>1, FleetAssumption DEF Elevators
<1>3. \A e \in Elevators : e + 1 \in 1..n /\ (e + 1) - 1 = e
  BY FleetAssumption DEF Elevators
<1>4. \A i \in 1..n : \A p \in part[i] :
        /\ p \in Passengers /\ status[p] = "RIDING" /\ assigned_elevator[p] = i - 1
        /\ requests[p].dest = elevators[i - 1].current_floor
  <2> TAKE i \in 1..n
  <2>1. elevators[i - 1].passengers \subseteq Passengers
    BY <1>2, CarTypes DEF TypeOK
  <2>. QED
    BY <1>2, <2>1 DEF Alighting, Bookkeeping
<1>5. PICK S : S = UNION {part[i] : i \in 1..n}
  OBVIOUS
<1>6. S \in SUBSET Passengers /\ \A p \in S : \E i \in 1..n : p \in part[i]
  BY <1>4, <1>5
<1>7. \A p \in Passengers :
        /\ f[p] = PassengerDelivered(p, assigned_elevator[p])
        /\ f[p].event_type = "PASSENGER_DELIVERED" /\ f[p].passenger = p
  BY <1>1 DEF PassengerDelivered
<1>8. \A i \in 1..n : Enumerates(DropoffEvents(i - 1), About(f, part[i]))
  <2> TAKE i \in 1..n
  <2>1. PICK order : order = InOrder(part[i], BoardedBefore)
    OBVIOUS
  <2>2. Orders(Boarded, part[i]) /\ Listing(order, part[i], Boarded)
    <3>1. part[i] \in SUBSET Passengers
      BY <1>4
    <3>. QED
      BY <2>1, <3>1, BoardedListed
  <2>3. DropoffEvents(i - 1) = [k \in DOMAIN order |-> PassengerDelivered(order[k], i - 1)]
    BY <1>2, <2>1 DEF DropoffEvents
  <2>4. DOMAIN order = 1..Len(order) /\ \A k \in 1..Len(order) : order[k] \in part[i]
    BY <2>2 DEF Listing
  <2>5. \A k \in 1..Len(order) : PassengerDelivered(order[k], i - 1) = f[order[k]]
    BY <1>4, <1>7, <2>4
  <2>6. DropoffEvents(i - 1) = [k \in 1..Len(order) |-> f[order[k]]]
    BY <2>3, <2>4, <2>5
  <2>7. \A p, q \in part[i] : f[p] = f[q] => p = q
    BY <1>4, <1>7
  <2>. QED
    BY <2>2, <2>6, <2>7, MadeOfListing DEF About
<1>9. Enumerates(CarByCar(DropoffEvents), About(f, S))
  <2>1. PICK lists : lists = [i \in 1..n |-> DropoffEvents(i - 1)]
    OBVIOUS
  <2>2. /\ CarByCar(DropoffEvents) = FlattenSeq(lists)
        /\ lists = [i \in 1..n |-> lists[i]]
        /\ \A i \in 1..n : Enumerates(lists[i], About(f, part[i]))
    BY <1>8, <2>1 DEF CarByCar
  <2>3. \A i, j \in 1..n : i # j => part[i] \cap part[j] = {}
    <3> SUFFICES ASSUME NEW i \in 1..n, NEW j \in 1..n, NEW p \in part[i], p \in part[j]
                 PROVE  i = j
      OBVIOUS
    <3>1. i - 1 = j - 1 /\ i \in Int /\ j \in Int
      BY <1>4, FleetAssumption
    <3>. QED
      BY <3>1
  <2>4. \A p, q \in Passengers : f[p] = f[q] => p = q
    BY <1>7
  <2>5. \A i \in 1..n : part[i] \subseteq Passengers
    BY <1>4
  <2>6. \A p : p \in S <=> \E i \in 1..n : p \in part[i]
    BY <1>5
  <2>7. Enumerates(FlattenSeq(lists), About(f, S))
    BY <2>2, <2>3, <2>4, <2>5, <2>6, PartsEnumerated
  <2>. QED
    BY <2>2, <2>7
<1>10. /\ UNCHANGED <<assigned_elevator, assigned_time, pickup_time>>
       /\ \A e \in Elevators : /\ elevators'[e].current_floor = elevators[e].current_floor
                               /\ elevators'[e].direction = elevators[e].direction
  BY DropoffStep DEF Dropoff
<1>11. Floor' = Floor /\ Heads' = Heads
  BY <1>10 DEF Floor, Heads
<1>12. \A p \in Passengers :
         /\ p \in S => status'[p] = "DELIVERED" /\ delivery_time'[p] = tick
         /\ p \notin S => status'[p] = status[p] /\ delivery_time'[p] = delivery_time[p]
  <2>1. S = UNION {Alighting(elevators[e], requests) : e \in Elevators}
    BY <1>2, <1>3, <1>5
  <2>. QED
    BY <2>1 DEF Dropoff
<1>13. \A p \in S : Subject(f[p]) = <<"passenger", p>>
  BY <1>6, <1>7 DEF Subject
<1>14. ASSUME NEW p \in S, NEW D, <<"passenger", p>> \notin D
       PROVE  After(KnownAfter(D), f[p]) = KnownAfter(D \cup {<<"passenger", p>>})
  <2>1. PICK i \in 1..n : p \in part[i]
    BY <1>6
  <2>2. PICK e \in Elevators : e = i - 1
    BY <1>2
  <2>3. /\ p \in Passengers /\ status[p] = "RIDING" /\ assigned_elevator[p] = e
        /\ requests[p].dest = elevators[e].current_floor
        /\ status'[p] = "DELIVERED" /\ delivery_time'[p] = tick
        /\ f[p] = PassengerDelivered(p, e)
    BY <1>4, <1>7, <1>12, <2>1, <2>2
  <2>. QED
    BY <1>10, <1>11, <1>14, <2>3, DeliveredTold
<1>15. AllToldBy(About(f, S))
  <2>1. \A p \in Passengers : p \notin S =>
          /\ status'[p] = status[p] /\ assigned_elevator'[p] = assigned_elevator[p]
          /\ assigned_time'[p] = assigned_time[p] /\ pickup_time'[p] = pickup_time[p]
          /\ delivery_time'[p] = delivery_time[p]
    BY <1>10, <1>12
  <2>. QED
    BY <1>6, <1>11, <1>13, <1>14, <2>1, PassengersTold
<1>. QED
  BY <1>9, <1>15 DEF TellsAll

\* Whatever part of a pickup has been told, a seat is free for the next to board.
LEMMA SeatFree ==
  ASSUME TypeOK, TypeOK', Bookkeeping', CapacityRespected', Passengers' = Passengers,
         UNCHANGED assigned_elevator,
         \A q \in Passengers : status[q] = "RIDING" => status'[q] = "RIDING",
         NEW e \in Elevators, NEW p \in Passengers, NEW D, <<"passenger", p>> \notin D,
         status[p] = "ASSIGNED", status'[p] = "RIDING", assigned_elevator[p] = e
  PROVE  Cardinality(Aboard(KnownAfter(D), e)) < MaxCapacity
<1>1. PICK seats : seats = elevators'[e].passengers
  OBVIOUS
<1>2. seats \subseteq Passengers
  BY <1>1, CarTypes DEF TypeOK
<1>3. /\ \A q \in Passengers : q \in seats <=> status'[q] = "RIDING" /\ assigned_elevator'[q] = e
      /\ Cardinality(seats) <= MaxCapacity
  BY <1>1 DEF Bookkeeping, CapacityRespected
<1>4. Aboard(KnownAfter(D), e) \subseteq seats \ {p}
  <2> SUFFICES ASSUME NEW q \in Aboard(KnownAfter(D), e) PROVE q \in seats /\ q # p
    OBVIOUS
  <2>1. /\ q \in Passengers /\ KnownAfter(D).status[q] = "RIDING"
        /\ KnownAfter(D).car[q] = e
    BY DEF Aboard
  <2>2. CASE <<"passenger", q>> \in D
    BY <1>3, <2>1, <2>2, NotYetTold
  <2>3. CASE <<"passenger", q>> \notin D
    <3>1. status[q] = "RIDING" /\ assigned_elevator[q] = e
      BY <2>1, <2>3, NotYetTold
    <3>. QED
      BY <1>3, <2>1, <3>1
  <2>. QED
    BY <2>2, <2>3
<1>5. IsFiniteSet(seats) /\ Cardinality(seats) \in Nat
  <2>1. seats \in SUBSET Passengers
    BY <1>2
  <2>. QED
    BY <2>1, FinitePassengers
<1>6. IsFiniteSet(seats \ {p}) /\ Cardinality(seats \ {p}) = Cardinality(seats) - 1
  <2>1. p \in seats
    BY <1>3
  <2>. QED
    BY <1>5, <2>1, FS_RemoveElement
<1>7. /\ Cardinality(Aboard(KnownAfter(D), e)) <= Cardinality(seats \ {p})
      /\ Cardinality(Aboard(KnownAfter(D), e)) \in Nat
  BY <1>4, <1>6, FS_Subset, FS_CardinalityType
<1>. QED
  BY <1>3, <1>5, <1>6, <1>7, CarAssumption

LEMMA PickupTells ==
  ASSUME TypeOK, TypeOK', Bookkeeping, Bookkeeping', CapacityRespected',
         Passengers' = Passengers, Pickup
  PROVE  TellsAll(CarByCar(PickupEvents))
<1> DEFINE n == NumElevators
<1>0. PICK boarding \in SUBSET Passengers :
        /\ \A p \in boarding : /\ status[p] = "ASSIGNED"
                               /\ assigned_elevator[p] \in Elevators
                               /\ p \in WaitingHere(assigned_elevator[p])
        /\ status' = [p \in Passengers |-> IF p \in boarding THEN "RIDING" ELSE status[p]]
        /\ pickup_time' = [p \in Passengers |->
                            IF p \in boarding THEN tick ELSE pickup_time[p]]
        /\ \A e \in Elevators : /\ elevators'[e].current_floor = elevators[e].current_floor
                                /\ elevators'[e].direction = elevators[e].direction
  BY PickupStep
<1>1. PICK f, part :
        /\ f = [p \in Passengers |-> PassengerPickedUp(p, assigned_elevator[p])]
        /\ part = [i \in 1..n |-> {p \in WaitingHere(i - 1) : status'[p] = "RIDING"}]
  OBVIOUS
<1>2. \A i \in 1..n : /\ i - 1 \in Elevators
                     /\ part[i] = {p \in WaitingHere(i - 1) : status'[p] = "RIDING"}
  BY <1>1, FleetAssumption DEF Elevators
<1>3. \A e \in Elevators : e + 1 \in 1..n /\ (e + 1) - 1 = e
  BY FleetAssumption DEF Elevators
<1>4. \A i \in 1..n : \A p \in part[i] :
        /\ p \in Passengers /\ status[p] = "ASSIGNED" /\ assigned_elevator[p] = i - 1
        /\ requests[p].source = elevators[i - 1].current_floor /\ p \in boarding
  <2> TAKE i \in 1..n
  <2>1. elevators[i - 1].assigned_requests \subseteq Passengers
    BY <1>2, CarTypes DEF TypeOK
  <2> TAKE p \in part[i]
  <2>2. /\ p \in Passengers /\ status[p] = "ASSIGNED" /\ status'[p] = "RIDING"
        /\ requests[p].source = elevators[i - 1].current_floor
        /\ p \in elevators[i - 1].assigned_requests
    BY <1>2, <2>1 DEF WaitingHere
  <2>3. assigned_elevator[p] = i - 1
    BY <1>2, <2>2 DEF Bookkeeping
  <2>4. p \in boarding
    BY <1>0, <2>2
  <2>. QED
    BY <2>2, <2>3, <2>4
<1>5. \A p : p \in boarding <=> \E i \in 1..n : p \in part[i]
  <2>1. ASSUME NEW p \in boarding PROVE \E i \in 1..n : p \in part[i]
    <3>1. PICK e \in Elevators : e = assigned_elevator[p] /\ p \in WaitingHere(e)
      BY <1>0, <2>1
    <3>2. PICK i \in 1..n : i - 1 = e
      BY <1>3, <3>1
    <3>3. status'[p] = "RIDING"
      BY <1>0, <2>1
    <3>. QED
      BY <1>2, <3>1, <3>2, <3>3
  <2>. QED
    BY <1>4, <2>1
<1>7. \A p \in Passengers :
        /\ f[p] = PassengerPickedUp(p, assigned_elevator[p])
        /\ f[p].event_type = "PASSENGER_PICKED_UP" /\ f[p].passenger = p
  BY <1>1 DEF PassengerPickedUp
<1>8. \A i \in 1..n : Enumerates(PickupEvents(i - 1), About(f, part[i]))
  <2> TAKE i \in 1..n
  <2>1. PICK order : order = InOrder(part[i], InLineBefore)
    OBVIOUS
  <2>2. Orders(InLine, part[i]) /\ Listing(order, part[i], InLine)
    <3>1. part[i] \in SUBSET Passengers
      BY <1>4
    <3>. QED
      BY <2>1, <3>1, InLineListed
  <2>3. PickupEvents(i - 1) = [k \in DOMAIN order |-> PassengerPickedUp(order[k], i - 1)]
    BY <1>2, <2>1 DEF PickupEvents
  <2>4. DOMAIN order = 1..Len(order) /\ \A k \in 1..Len(order) : order[k] \in part[i]
    BY <2>2 DEF Listing
  <2>5. \A k \in 1..Len(order) : PassengerPickedUp(order[k], i - 1) = f[order[k]]
    BY <1>4, <1>7, <2>4
  <2>6. PickupEvents(i - 1) = [k \in 1..Len(order) |-> f[order[k]]]
    BY <2>3, <2>4, <2>5
  <2>7. \A p, q \in part[i] : f[p] = f[q] => p = q
    BY <1>4, <1>7
  <2>. QED
    BY <2>2, <2>6, <2>7, MadeOfListing DEF About
<1>9. Enumerates(CarByCar(PickupEvents), About(f, boarding))
  <2>1. PICK lists : lists = [i \in 1..n |-> PickupEvents(i - 1)]
    OBVIOUS
  <2>2. /\ CarByCar(PickupEvents) = FlattenSeq(lists)
        /\ lists = [i \in 1..n |-> lists[i]]
        /\ \A i \in 1..n : Enumerates(lists[i], About(f, part[i]))
    BY <1>8, <2>1 DEF CarByCar
  <2>3. \A i, j \in 1..n : i # j => part[i] \cap part[j] = {}
    <3> SUFFICES ASSUME NEW i \in 1..n, NEW j \in 1..n, NEW p \in part[i], p \in part[j]
                 PROVE  i = j
      OBVIOUS
    <3>1. i - 1 = j - 1 /\ i \in Int /\ j \in Int
      BY <1>4, FleetAssumption
    <3>. QED
      BY <3>1
  <2>4. \A p, q \in Passengers : f[p] = f[q] => p = q
    BY <1>7
  <2>5. \A i \in 1..n : part[i] \subseteq Passengers
    BY <1>4
  <2>7. Enumerates(FlattenSeq(lists), About(f, boarding))
    BY <1>5, <2>2, <2>3, <2>4, <2>5, PartsEnumerated
  <2>. QED
    BY <2>2, <2>7
<1>10. UNCHANGED <<assigned_elevator, assigned_time, delivery_time>>
  BY DEF Pickup
<1>11. Floor' = Floor /\ Heads' = Heads
  BY <1>0 DEF Floor, Heads
<1>12. \A p \in Passengers :
         /\ p \in boarding => status'[p] = "RIDING" /\ pickup_time'[p] = tick
         /\ p \notin boarding => status'[p] = status[p] /\ pickup_time'[p] = pickup_time[p]
  BY <1>0
<1>13. \A p \in boarding : Subject(f[p]) = <<"passenger", p>>
  BY <1>7 DEF Subject
<1>14. ASSUME NEW p \in boarding, NEW D, <<"passenger", p>> \notin D
       PROVE  After(KnownAfter(D), f[p]) = KnownAfter(D \cup {<<"passenger", p>>})
  <2>1. PICK i \in 1..n : p \in part[i]
    BY <1>5
  <2>2. PICK e \in Elevators : e = i - 1
    BY <1>2
  <2>3. /\ p \in Passengers /\ status[p] = "ASSIGNED" /\ assigned_elevator[p] = e
        /\ requests[p].source = elevators[e].current_floor
        /\ status'[p] = "RIDING" /\ pickup_time'[p] = tick
        /\ f[p] = PassengerPickedUp(p, e)
    BY <1>4, <1>7, <1>12, <2>1, <2>2
  <2>4. \A q \in Passengers : status[q] = "RIDING" => status'[q] = "RIDING"
    BY <1>12
  <2>5. Cardinality(Aboard(KnownAfter(D), e)) < MaxCapacity
    BY <1>10, <1>14, <2>3, <2>4, SeatFree
  <2>. QED
    BY <1>10, <1>11, <1>14, <2>3, <2>5, PickedUpTold
<1>15. AllToldBy(About(f, boarding))
  <2>1. \A p \in Passengers : p \notin boarding =>
          /\ status'[p] = status[p] /\ assigned_elevator'[p] = assigned_elevator[p]
          /\ assigned_time'[p] = assigned_time[p] /\ pickup_time'[p] = pickup_time[p]
          /\ delivery_time'[p] = delivery_time[p]
    BY <1>10, <1>12
  <2>. QED
    BY <1>11, <1>13, <1>14, <2>1, PassengersTold
<1>. QED
  BY <1>9, <1>15 DEF TellsAll

\* What MOVE has to tell of a car.
NewFloor(e) == ElevatorMoved(e, elevators[e].current_floor, elevators'[e].current_floor)

NewHead(e) == ElevatorDirectionChanged(e, elevators[e].direction, elevators'[e].direction)

MovedCar(e) ==
  IF elevators'[e].current_floor = elevators[e].current_floor THEN {} ELSE {NewFloor(e)}

TurnedCar(e) ==
  IF elevators'[e].direction = elevators[e].direction THEN {} ELSE {NewHead(e)}

NewsOfCar(e) == MovedCar(e) \cup TurnedCar(e)

LEMMA NewsFields ==
  ASSUME NEW e
  PROVE  /\ NewFloor(e).event_type = "ELEVATOR_MOVED" /\ NewFloor(e).elevator = e
         /\ NewHead(e).event_type = "ELEVATOR_DIRECTION_CHANGED" /\ NewHead(e).elevator = e
         /\ Subject(NewFloor(e)) = <<"floor", e>>
         /\ Subject(NewHead(e)) = <<"direction", e>>
<1>1. /\ NewFloor(e).event_type = "ELEVATOR_MOVED" /\ NewFloor(e).elevator = e
      /\ NewHead(e).event_type = "ELEVATOR_DIRECTION_CHANGED" /\ NewHead(e).elevator = e
  BY DEF NewFloor, NewHead, ElevatorMoved, ElevatorDirectionChanged
<1>2. Subject(NewFloor(e)) = <<"floor", e>>
  BY <1>1 DEF Subject
<1>3. Subject(NewHead(e)) = <<"direction", e>>
  BY <1>1 DEF Subject
<1>. QED
  BY <1>1, <1>2, <1>3

LEMMA CarEnumerated ==
  ASSUME NEW e
  PROVE  Enumerates(MoveEvents(e), NewsOfCar(e))
<1>1. PICK s, t :
        /\ s = IF elevators'[e].current_floor = elevators[e].current_floor
               THEN <<>> ELSE <<NewFloor(e)>>
        /\ t = IF elevators'[e].direction = elevators[e].direction THEN <<>> ELSE <<NewHead(e)>>
  OBVIOUS
<1>2. MoveEvents(e) = s \o t
  BY <1>1 DEF MoveEvents, NewFloor, NewHead
<1>3. Enumerates(s, MovedCar(e))
  <2>1. \/ s = <<>> /\ MovedCar(e) = {}
        \/ s = <<NewFloor(e)>> /\ MovedCar(e) = {NewFloor(e)}
    BY <1>1 DEF MovedCar
  <2>. QED
    BY <2>1, NoneEnumerated, OneEnumerated
<1>4. Enumerates(t, TurnedCar(e))
  <2>1. \/ t = <<>> /\ TurnedCar(e) = {}
        \/ t = <<NewHead(e)>> /\ TurnedCar(e) = {NewHead(e)}
    BY <1>1 DEF TurnedCar
  <2>. QED
    BY <2>1, NoneEnumerated, OneEnumerated
<1>5. MovedCar(e) \cap TurnedCar(e) = {}
  <2>1. NewFloor(e) # NewHead(e)
    BY NewsFields
  <2>. QED
    BY <2>1 DEF MovedCar, TurnedCar
<1>. QED
  BY <1>2, <1>3, <1>4, <1>5, BothEnumerated DEF NewsOfCar

LEMMA MoveTells ==
  ASSUME TypeOK, TypeOK', Passengers' = Passengers, Move
  PROVE  TellsAll(CarByCar(MoveEvents))
<1> DEFINE n == NumElevators
<1>1. n \in Nat /\ n >= 1
  BY FleetAssumption
<1>2. /\ \A i \in 1..n : i - 1 \in Elevators
      /\ \A e \in Elevators : e + 1 \in 1..n /\ (e + 1) - 1 = e
  BY FleetAssumption DEF Elevators
<1>3. PICK lists, E :
        /\ lists = [i \in 1..n |-> MoveEvents(i - 1)]
        /\ E = [i \in 1..n |-> NewsOfCar(i - 1)]
  OBVIOUS
<1>4. PICK U : U = UNION {E[i] : i \in 1..n}
  OBVIOUS
<1>5. /\ CarByCar(MoveEvents) = FlattenSeq(lists)
      /\ lists = [i \in 1..n |-> lists[i]]
      /\ \A i \in 1..n : Enumerates(lists[i], E[i])
  BY <1>3, CarEnumerated DEF CarByCar
<1>6. \A e : \A a \in NewsOfCar(e) : a.elevator = e
  BY NewsFields DEF NewsOfCar, MovedCar, TurnedCar
<1>7. \A i, j \in 1..n : i # j => E[i] \cap E[j] = {}
  <2> SUFFICES ASSUME NEW i \in 1..n, NEW j \in 1..n, NEW a \in E[i], a \in E[j]
               PROVE  i = j
    OBVIOUS
  <2>1. i - 1 = j - 1 /\ i \in Int /\ j \in Int
    BY <1>1, <1>3, <1>6
  <2>. QED
    BY <2>1
<1>8. Enumerates(CarByCar(MoveEvents), U)
  <2>1. Enumerates(FlattenSeq(lists), UNION {E[i] : i \in 1..n})
    BY <1>1, <1>5, <1>7, FlattenEnumerates
  <2>. QED
    BY <1>4, <1>5, <2>1
<1>9. \A a : a \in U <=> \E e \in Elevators :
        \/ a = NewFloor(e) /\ elevators'[e].current_floor # elevators[e].current_floor
        \/ a = NewHead(e) /\ elevators'[e].direction # elevators[e].direction
  <2>1. \A a : a \in U <=> \E e \in Elevators : a \in NewsOfCar(e)
    <3>1. \A a : a \in U <=> \E i \in 1..n : a \in NewsOfCar(i - 1)
      BY <1>3, <1>4
    <3>. QED
      BY <1>2, <3>1
  <2>. QED
    BY <2>1 DEF NewsOfCar, MovedCar, TurnedCar
<1>10. \A a, b \in U : Subject(a) = Subject(b) => a = b
  <2> TAKE a \in U, b \in U
  <2>1. PICK e \in Elevators : a = NewFloor(e) \/ a = NewHead(e)
    BY <1>9
  <2>2. PICK f \in Elevators : b = NewFloor(f) \/ b = NewHead(f)
    BY <1>9
  <2>. QED
    BY <2>1, <2>2, NewsFields
<1>11. ASSUME NEW a \in U, NEW D, Subject(a) \notin D
       PROVE  After(KnownAfter(D), a) = KnownAfter(D \cup {Subject(a)})
  <2>1. PICK e \in Elevators :
          \/ a = NewFloor(e) /\ elevators'[e].current_floor # elevators[e].current_floor
          \/ a = NewHead(e) /\ elevators'[e].direction # elevators[e].direction
    BY <1>9
  <2>2. PICK old, new : old = elevators[e].current_floor /\ new = elevators'[e].current_floor
    OBVIOUS
  <2>3. CASE a = NewFloor(e) /\ new # old
    <3>1. Abs(new - old) = 1
      <4>1. Abs(new - old) <= 1
        BY <2>2, OneFloorPerMove
      <4>2. old \in Int /\ new \in Int
        BY <2>2, CarTypes, CarAssumption DEF TypeOK, Floors
      <4>. QED
        BY <2>3, <4>1, <4>2 DEF Abs
    <3>2. a = ElevatorMoved(e, old, new) /\ Subject(a) = <<"floor", e>>
      BY <2>2, <2>3, NewsFields DEF NewFloor
    <3>. QED
      BY <1>11, <2>2, <3>1, <3>2, MovedTold
  <2>4. CASE a = NewHead(e)
    <3>1. PICK was, is : was = elevators[e].direction /\ is = elevators'[e].direction
      OBVIOUS
    <3>2. a = ElevatorDirectionChanged(e, was, is) /\ Subject(a) = <<"direction", e>>
      BY <2>4, <3>1, NewsFields DEF NewHead
    <3>. QED
      BY <1>11, <3>1, <3>2, TurnedTold
  <2>. QED
    BY <2>1, <2>2, <2>3, <2>4
<1>12. PICK told : told = {Subject(a) : a \in U}
  OBVIOUS
<1>13. KnownAfter(told) = TrueAccount'
  <2>1. UNCHANGED <<status, assigned_elevator, assigned_time, pickup_time, delivery_time>>
    BY DEF Move, passengerVars
  <2>2. \A a \in U : Subject(a) \in told
    BY <1>12
  <2>3. ASSUME NEW e \in Elevators
        PROVE  /\ <<"floor", e>> \notin told => Floor'[e] = Floor[e]
               /\ <<"direction", e>> \notin told => Heads'[e] = Heads[e]
    <3>1. /\ elevators'[e].current_floor # elevators[e].current_floor =>
               <<"floor", e>> \in told
          /\ elevators'[e].direction # elevators[e].direction => <<"direction", e>> \in told
      BY <1>9, <2>2, NewsFields
    <3>. QED
      BY <3>1 DEF Floor, Heads
  <2>. QED
    BY <2>1, <2>3, EverythingTold
<1>14. AllToldBy(U)
  BY <1>10, <1>11, <1>12, <1>13 DEF AllToldBy
<1>. QED
  BY <1>8, <1>14 DEF TellsAll

LEMMA NoNews ==
  ASSUME Replayed, UNCHANGED <<requests, status, assigned_elevator, assigned_time,
                               pickup_time, delivery_time, elevators, events>>
  PROVE  Replayed'
<1>1. /\ \A known, event : After(known, event)' = After(known, event)
      /\ BeforeTheLog' = BeforeTheLog
  BY SameAfter
<1>2. TrueAccount' = TrueAccount
  BY DEF TrueAccount, Account, Floor, Heads
<1>3. \A g : Tells(g, events)' <=> Tells(g, events)
  BY <1>1 DEF Tells
<1>. QED
  BY <1>2, <1>3 DEF Replayed, IsList

LEMMA NewsReplayed ==
  ASSUME Replayed, TypeOK, requests' = requests, NEW list, TellsAll(list),
         events' = events \o list
  PROVE  Replayed'
<1>1. PICK E : Enumerates(list, E) /\ AllToldBy(E)
  BY DEF TellsAll
<1>2. KnownAfter({}) = TrueAccount
  BY NothingTold
<1>. QED
  BY <1>1, <1>2, StepReplayed

LEMMA StepKeepsReplayed ==
  ASSUME TypeOK, TypeOK', Bookkeeping, Bookkeeping', DispatchQueue, CapacityRespected',
         Replayed, [LogStep]_logVars
  PROVE  Replayed'
<1>1. requests' = requests /\ Passengers' = Passengers
  BY LogStepIsStep, ConstantRequests
<1>2. CASE Ingest /\ Emit(IngestEvents)
  BY <1>1, <1>2, IngestTells, NewsReplayed DEF Emit
<1>3. CASE Dispatch /\ Emit(DispatchEvents)
  BY <1>1, <1>3, DispatchTells, NewsReplayed DEF Emit
<1>4. CASE Dropoff /\ Emit(CarByCar(DropoffEvents))
  BY <1>1, <1>4, DropoffTells, NewsReplayed DEF Emit
<1>5. CASE Pickup /\ Emit(CarByCar(PickupEvents))
  BY <1>1, <1>5, PickupTells, NewsReplayed DEF Emit
<1>6. CASE Move /\ Emit(CarByCar(MoveEvents))
  BY <1>1, <1>6, MoveTells, NewsReplayed DEF Emit
<1>7. CASE \/ Validate /\ EmitNothing
           \/ EndDispatch /\ EmitNothing
           \/ Record /\ AppendRow /\ UNCHANGED events
           \/ UNCHANGED logVars
  <2>1. UNCHANGED <<requests, status, assigned_elevator, assigned_time, pickup_time,
                    delivery_time, elevators, events>>
    BY <1>7 DEF Validate, EndDispatch, Record, EmitNothing, passengerVars, logVars, vars
  <2>. QED
    BY <2>1, NoNews
<1>. QED
  BY <1>2, <1>3, <1>4, <1>5, <1>6, <1>7 DEF LogStep

\* The events tell the whole story of a run (ReplayAgrees), for any number of
\* cars, floors, seats and requests: whoever reads them in order finds each one
\* possible where it stands, a free seat at every boarding included, and ends up
\* with the engine's own statuses, times, floors and directions.
THEOREM ReplayAgreesHolds == LogSpec => []ReplayAgrees
<1>1. LogSpec => [](TypeOK /\ Bookkeeping /\ DispatchQueue /\ CapacityRespected)
  BY LogsOnlyWatch, TypeCorrect, BookkeepingHolds, CapacityHolds, PTL
<1>2. TypeOK /\ TypeOK' /\ Bookkeeping /\ Bookkeeping' /\ DispatchQueue
        /\ CapacityRespected' /\ Replayed /\ [LogStep]_logVars => Replayed'
  BY StepKeepsReplayed
<1>3. LogSpec => []Replayed
  BY <1>1, <1>2, InitReplayed, PTL DEF LogSpec
<1>. QED
  BY <1>3, ReplayedAgrees, PTL
=============================================================================
