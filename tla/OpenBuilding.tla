----------------------------- MODULE OpenBuilding -----------------------------
(***************************************************************************)
(* A single car and the people who keep calling it.                        *)
(***************************************************************************)
EXTENDS SingleCar

CONSTANT Callers   \* the people in the building

OpenInit == trip = [p \in Callers |-> NoTrip] /\ Init

\* The phases of a tick follow one another (run()); nobody has to call.
OpenBuilding ==
  /\ OpenInit
  /\ [][Next]_carVars
  /\ WF_carVars(EndDispatch \/ Dropoff \/ Pickup \/ Move)

-----------------------------------------------------------------------------
(* Starvation *)

Riding(p) == p \in car.passengers

WaitingInLine(p) == p \in car.assigned_requests

\* Whatever the traffic, nobody stays in the car for ever: a car that is asked
\* to stop at every floor still goes on (next_target, domain/model.py:313).
RidersGetOut == \A p \in Callers : Riding(p) ~> ~Riding(p)

\* SCAN has no outliers (docs/DEMO.md:219): if from some time on the car never
\* leaves a floor full, everybody in line is taken, however many keep calling
\* from nearer by.  Without the condition the README is right that a passenger
\* may starve: the seats may be taken at every passage.
OnlyAFullCarStarves ==
  <>[](phase = "MOVE" => ~IsFull(car))
    => \A p \in Callers : WaitingInLine(p) ~> Riding(p)

\* When the calls stop, the car delivers everybody and comes to rest, even if
\* it was always full before (run() has a bound instead of an argument).
LeftAloneItFinishes ==
  <>[][~Call]_carVars
    => <>[](car.direction = "IDLE" /\ \A p \in Callers : trip[p] = NoTrip)
=============================================================================
