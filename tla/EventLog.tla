------------------------------- MODULE EventLog -------------------------------
(***************************************************************************)
(* What a run of the engine leaves behind besides its state: the list of   *)
(* domain events (domain/events.py) and the position log in full.  Every   *)
(* action here is an action of Simulation with what it appends, so the     *)
(* logs are those of the engine's own steps.                               *)
(*                                                                         *)
(* Within a phase the events come car by car, and for one car in the order *)
(* of its lists, which the sets of Simulation have to be put back into.    *)
(***************************************************************************)
EXTENDS Simulation, SequencesExt

VARIABLES events,        \* self.events
          position_rows  \* self.position_log: row t is that of tick t - 1

logVars == <<vars, events, position_rows>>

CarByCar(EventsOf(_)) == FlattenSeq([i \in 1..NumElevators |-> EventsOf(i - 1)])

-----------------------------------------------------------------------------
(* The six kinds of events *)

PassengerRequested(p) ==
  [event_type |-> "PASSENGER_REQUESTED", tick |-> tick, passenger |-> p,
   source |-> requests[p].source, dest |-> requests[p].dest]

PassengerAssigned(p, e) ==
  [event_type |-> "PASSENGER_ASSIGNED", tick |-> tick, passenger |-> p, elevator |-> e]

PassengerPickedUp(p, e) ==
  [event_type |-> "PASSENGER_PICKED_UP", tick |-> tick, passenger |-> p,
   elevator |-> e, floor |-> elevators[e].current_floor]

PassengerDelivered(p, e) ==
  [event_type |-> "PASSENGER_DELIVERED", tick |-> tick, passenger |-> p,
   elevator |-> e, floor |-> elevators[e].current_floor]

ElevatorMoved(e, from_floor, to_floor) ==
  [event_type |-> "ELEVATOR_MOVED", tick |-> tick, elevator |-> e,
   from_floor |-> from_floor, to_floor |-> to_floor]

ElevatorDirectionChanged(e, old_direction, new_direction) ==
  [event_type |-> "ELEVATOR_DIRECTION_CHANGED", tick |-> tick, elevator |-> e,
   old_direction |-> old_direction, new_direction |-> new_direction]

-----------------------------------------------------------------------------
(* Where they are appended *)

\* Riders stand in the car in the order they boarded: by tick and, of one
\* tick, in the order of the line they stood in.
BoardedBefore(p, q) ==
  \/ pickup_time[p] < pickup_time[q]
  \/ pickup_time[p] = pickup_time[q] /\ InLineBefore(p, q)

IngestEvents ==
  LET arrived == InOrder({p \in Passengers : Arriving(p)}, Earlier)
  IN  [i \in DOMAIN arrived |-> PassengerRequested(arrived[i])]

\* At most one passenger in a step of the dispatch loop.
DispatchEvents ==
  LET assigned == InOrder({p \in Passengers : status[p] # status'[p]}, Earlier)
  IN  [i \in DOMAIN assigned |->
         PassengerAssigned(assigned[i], assigned_elevator'[assigned[i]])]

DropoffEvents(e) ==
  LET delivered == InOrder(Alighting(elevators[e], requests), BoardedBefore)
  IN  [i \in DOMAIN delivered |-> PassengerDelivered(delivered[i], e)]

PickupEvents(e) ==
  LET picked_up == InOrder({p \in WaitingHere(e) : status'[p] = "RIDING"}, InLineBefore)
  IN  [i \in DOMAIN picked_up |-> PassengerPickedUp(picked_up[i], e)]

\* A fault: a car that stops to turn IDLE has not moved, and is not reported.
MoveEventsIfMoved(e) ==
  LET old == elevators[e]
      new == elevators'[e]
  IN  IF new.current_floor = old.current_floor THEN <<>>
      ELSE <<ElevatorMoved(e, old.current_floor, new.current_floor)>>
             \o IF new.direction = old.direction THEN <<>>
                ELSE <<ElevatorDirectionChanged(e, old.direction, new.direction)>>

\* Two independent conditions: a car may turn without moving, by going IDLE.
MoveEvents(e) ==
  LET old == elevators[e]
      new == elevators'[e]
  IN  (IF new.current_floor = old.current_floor THEN <<>>
       ELSE <<ElevatorMoved(e, old.current_floor, new.current_floor)>>)
        \o (IF new.direction = old.direction THEN <<>>
            ELSE <<ElevatorDirectionChanged(e, old.direction, new.direction)>>)

-----------------------------------------------------------------------------
(* The engine with its logs *)

Emit(list) == events' = events \o list /\ UNCHANGED position_rows

EmitNothing == UNCHANGED <<events, position_rows>>

LogInit == Init /\ events = <<>> /\ position_rows = <<>>

\* A fault: the row is taken before the cars have moved.
AppendStaleRow == position_rows' = Append(position_rows, position_log.last)

AppendRow == position_rows' = Append(position_rows, Positions)

LogStep ==
  \/ Validate    /\ EmitNothing
  \/ Ingest      /\ Emit(IngestEvents)
  \/ Dispatch    /\ Emit(DispatchEvents)
  \/ EndDispatch /\ EmitNothing
  \/ Dropoff     /\ Emit(CarByCar(DropoffEvents))
  \/ Pickup      /\ Emit(CarByCar(PickupEvents))
  \/ Move        /\ Emit(CarByCar(MoveEvents))
  \/ Record      /\ AppendRow /\ UNCHANGED events

LogSpec == LogInit /\ [][LogStep]_logVars

-----------------------------------------------------------------------------
(* Replaying the log *)

\* What somebody knows who has seen no event.
BeforeTheLog ==
  [status |-> [p \in Passengers |-> "ABSENT"],
   car    |-> [p \in Passengers |-> None],
   assigned_at |-> [p \in Passengers |-> None],
   pickup_at   |-> [p \in Passengers |-> None],
   delivery_at |-> [p \in Passengers |-> None],
   floor     |-> [e \in Elevators |-> StartFloor(e)],
   direction |-> [e \in Elevators |-> "IDLE"],
   sound     |-> TRUE]

Aboard(known, e) ==
  {p \in Passengers : known.status[p] = "RIDING" /\ known.car[p] = e}

\* Whether the event can have happened in the state the earlier ones tell of:
\* in its place in the lifecycle, at the floor the car has reached, with a
\* seat free, and continuing the car's movement where the last event left it.
Credible(known, event) ==
  CASE event.event_type = "PASSENGER_REQUESTED" ->
         /\ known.status[event.passenger] = "ABSENT"
         /\ event.tick = requests[event.passenger].request_time
    [] event.event_type = "PASSENGER_ASSIGNED" ->
         known.status[event.passenger] = "WAITING"
    [] event.event_type = "PASSENGER_PICKED_UP" ->
         /\ known.status[event.passenger] = "ASSIGNED"
         /\ known.car[event.passenger] = event.elevator
         /\ requests[event.passenger].source = event.floor
         /\ known.floor[event.elevator] = event.floor
         /\ Cardinality(Aboard(known, event.elevator)) < MaxCapacity
    [] event.event_type = "PASSENGER_DELIVERED" ->
         /\ event.passenger \in Aboard(known, event.elevator)
         /\ requests[event.passenger].dest = event.floor
         /\ known.floor[event.elevator] = event.floor
    [] event.event_type = "ELEVATOR_MOVED" ->
         /\ known.floor[event.elevator] = event.from_floor
         /\ Abs(event.to_floor - event.from_floor) = 1
    [] event.event_type = "ELEVATOR_DIRECTION_CHANGED" ->
         known.direction[event.elevator] = event.old_direction

\* The state after the event.
Told(known, event) ==
  CASE event.event_type = "PASSENGER_REQUESTED" ->
         [known EXCEPT !.status[event.passenger] = "WAITING"]
    [] event.event_type = "PASSENGER_ASSIGNED" ->
         [known EXCEPT !.status[event.passenger] = "ASSIGNED",
                       !.car[event.passenger] = event.elevator,
                       !.assigned_at[event.passenger] = event.tick]
    [] event.event_type = "PASSENGER_PICKED_UP" ->
         [known EXCEPT !.status[event.passenger] = "RIDING",
                       !.pickup_at[event.passenger] = event.tick]
    [] event.event_type = "PASSENGER_DELIVERED" ->
         [known EXCEPT !.status[event.passenger] = "DELIVERED",
                       !.delivery_at[event.passenger] = event.tick]
    [] event.event_type = "ELEVATOR_MOVED" ->
         [known EXCEPT !.floor[event.elevator] = event.to_floor]
    [] event.event_type = "ELEVATOR_DIRECTION_CHANGED" ->
         [known EXCEPT !.direction[event.elevator] = event.new_direction]

\* Event by event; `sound' until the first that is not credible.
Replay ==
  LET after[n \in 0..Len(events)] ==
        IF n = 0 THEN BeforeTheLog
        ELSE LET known == after[n - 1]
             IN  [Told(known, events[n]) EXCEPT !.sound = @ /\ Credible(known, events[n])]
  IN  after[Len(events)]

-----------------------------------------------------------------------------
(* Properties *)

\* The events are the only account of a run that analytics or an event store
\* would have (domain/events.py: "analytics consumes the list after the run").
\* Read in order they tell the whole story: each is possible where it stands,
\* seats included, and together they give back every status, time, floor and
\* direction of the engine.
ReplayAgrees ==
  LET known == Replay
  IN  /\ known.sound
      /\ known.status = status
      /\ known.car = assigned_elevator
      /\ known.assigned_at = assigned_time
      /\ known.pickup_at = pickup_time
      /\ known.delivery_at = delivery_time
      /\ \A e \in Elevators : /\ known.floor[e] = elevators[e].current_floor
                              /\ known.direction[e] = elevators[e].direction

\* Events with the tick of the row, after RECORD has written it.
MovesUpTo(e, t) ==
  {i \in DOMAIN events : /\ events[i].event_type = "ELEVATOR_MOVED"
                         /\ events[i].elevator = e /\ events[i].tick <= t}

\* The engine logs the cars twice, as positions and as moves, and writes only
\* the positions to a file.  Row t of the one is where the moves of the ticks
\* up to t lead in the other.
LogsAgree ==
  \A row \in DOMAIN position_rows, e \in Elevators :
    LET moves == MovesUpTo(e, row - 1)
    IN  position_rows[row][e] =
          IF moves = {} THEN StartFloor(e) ELSE events[Max(moves)].to_floor
=============================================================================
