--------------------------------- MODULE Fleet ---------------------------------
(***************************************************************************)
(* Every car of the engine behaves like the single car of SingleCar: what  *)
(* is shown there of one car under endless traffic is about these cars.    *)
(***************************************************************************)
EXTENDS SimulationProps

NotHere == [source |-> None, dest |-> None]

\* The callers of car e are the passengers while they are its own.
TripOf(e) ==
  [p \in Passengers |->
     IF p \in elevators[e].assigned_requests \cup elevators[e].passengers
     THEN [source |-> requests[p].source, dest |-> requests[p].dest]
     ELSE NotHere]

LineOf(e) == InOrder(elevators[e].assigned_requests, InLineBefore)

\* Requests come in anywhere between MOVE and DROPOFF.
PhaseOfTick == IF phase \in {"DROPOFF", "PICKUP", "MOVE"} THEN phase ELSE "DISPATCH"

CarOf(e) == INSTANCE SingleCar
              WITH Trips <- {t \in [source: Floors, dest: Floors] : t.source # t.dest},
                   trip <- TripOf(e), car <- elevators[e],
                   line <- LineOf(e), phase <- PhaseOfTick

\* The phases of the engine act on the whole fleet and keep the pickup lists
\* as sets with times of assignment.  Seen from one car they are the steps of
\* the list that pickup() walks through in order, each request of the list
\* taken once and none left in front of one that boards.
\* (CarOf(e)!Spec for all e, with the quantifier inside the box.)
ImplementsSingleCars ==
  /\ \A e \in Elevators : CarOf(e)!Init
  /\ [][\A e \in Elevators : [CarOf(e)!Next]_(CarOf(e)!carVars)]_vars
=============================================================================
