------------------------------- MODULE SingleCar -------------------------------
(***************************************************************************)
(* One elevator in a building that never empties: people keep calling, and *)
(* whoever has left the car may call again.  The engine runs over a finite *)
(* list of requests and stops; this is what its cars would do under        *)
(* traffic that goes on, which is where starvation is a question.          *)
(*                                                                         *)
(* The car is that of module Elevator.  assigned_requests is kept here as  *)
(* the list it is in the code, next to the set.                            *)
(***************************************************************************)
EXTENDS Elevator, Lists, Functions

CONSTANT Trips   \* the trips somebody may ask for

ASSUME TripAssumption ==
  \A t \in Trips : t.source \in Floors /\ t.dest \in Floors /\ t.source # t.dest

VARIABLES trip,   \* trip[p]: the trip p is waiting for or on, or NoTrip
          car,    \* the elevator
          line,   \* its assigned_requests, in the order of assignment
          phase   \* of the tick

carVars == <<trip, car, line, phase>>

NoTrip == [source |-> None, dest |-> None]

People == DOMAIN trip

Init ==
  /\ \A p \in People : trip[p] = NoTrip
  /\ \E floor \in Floors : car = IdleCar(floor)
  /\ line = <<>>
  /\ phase = "DISPATCH"

\* The strategy assigns a request to this car.
Call ==
  /\ phase = "DISPATCH"
  /\ \E p \in People, t \in Trips :
       /\ trip[p] = NoTrip
       /\ trip' = [trip EXCEPT ![p] = t]
       /\ car' = AfterAssign(car, p)
       /\ line' = Append(line, p)
  /\ UNCHANGED phase

EndDispatch ==
  /\ phase = "DISPATCH"
  /\ phase' = "DROPOFF"
  /\ UNCHANGED <<trip, car, line>>

Dropoff ==
  /\ phase = "DROPOFF"
  /\ trip' = [p \in People |-> IF p \in Alighting(car, trip) THEN NoTrip ELSE trip[p]]
  /\ car' = AfterDropoff(car, trip)
  /\ phase' = "PICKUP"
  /\ UNCHANGED line

\* pickup() goes through the line, and stops where the car is full.
Pickup ==
  /\ phase = "PICKUP"
  /\ LET here     == Among({p \in People : trip[p].source = car.current_floor}, line)
         boarding == Range(SubSeq(here, 1, IF Len(here) <= Room(car) THEN Len(here)
                                           ELSE Room(car)))
     IN  /\ car' = AfterPickup(car, boarding)
         /\ line' = Among(People \ boarding, line)
  /\ phase' = "MOVE"
  /\ UNCHANGED trip

Move ==
  /\ phase = "MOVE"
  /\ \E target \in MoveChoices(car, trip) : car' = AfterMove(car, target)
  /\ phase' = "DISPATCH"
  /\ UNCHANGED <<trip, line>>

Next == Call \/ EndDispatch \/ Dropoff \/ Pickup \/ Move

Spec == Init /\ [][Next]_carVars

-----------------------------------------------------------------------------
(* Properties *)

\* The state has the shape of the dataclass; the list and the set are the same
\* requests, each once, and a person with a trip is in the line or in the car.
TypeOK ==
  /\ car \in Car(People)
  /\ phase \in {"DISPATCH", "DROPOFF", "PICKUP", "MOVE"}
  /\ line \in Seq(People)
  /\ Range(line) = car.assigned_requests
  /\ Len(line) = Cardinality(car.assigned_requests)
  /\ \A p \in People : trip[p] \in Trips \cup {NoTrip}
  /\ car.passengers \cap car.assigned_requests = {}
  /\ car.passengers \cup car.assigned_requests = {p \in People : trip[p] # NoTrip}
=============================================================================
