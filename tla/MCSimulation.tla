----------------------------- MODULE MCSimulation -----------------------------
(***************************************************************************)
(* Small instances of the simulation engine for TLC.                       *)
(***************************************************************************)
EXTENDS Fleet

\* Requests as the CSV rows have them: time, id, source, dest.
Row(t, id, s, d) ==
  [request_time |-> t, passenger_id |-> id, source |-> s, dest |-> d]

Trips(times, floors) ==
  {trip \in times \X floors \X floors : trip[2] # trip[3]}

\* Every list of n requests with distinct ids, in any order of time.
Lists(n, times, floors) ==
  LET id == <<"p1", "p2", "p3">>
  IN  {[i \in 1..n |-> Row(f[i][1], id[i], f[i][2], f[i][3])] :
         f \in [1..n -> Trips(times, floors)]}

UpTo(n, times, floors) == UNION {Lists(k, times, floors) : k \in 0..n}

-----------------------------------------------------------------------------
(* any_dispatch: two cars with one seat each *)

FullService == <<>>

ThreeTrips == UpTo(2, 0..1, 1..3) \cup Lists(3, 0..1, 1..3)

-----------------------------------------------------------------------------
(* shared_car: one car with two seats *)

\* The scenario docs and tests trace by hand (tests/integration/test_end_to_end.py:73).
HandTraced == <<Row(0, "p1", 1, 4), Row(0, "p2", 1, 3), Row(5, "p3", 5, 1)>>

CrowdedCar == Lists(3, 0..1, {1, 2, 5}) \cup {HandTraced}

\* The waits and rides the end-to-end test computes by hand
\* (tests/integration/test_end_to_end.py:93-106) are those of the model.
HandTraceAgrees ==
  requests = HandTraced /\ phase \in Ended =>
    /\ phase = "COMPLETED"
    /\ pickup_time = <<0, 0, 6>>
    /\ delivery_time = <<3, 2, 10>>

-----------------------------------------------------------------------------
(* express: two cars that serve different floors, failing dispatches *)

LowAndHigh == <<{1, 2}, {1, 3}>>

\* No strategy at all, one that may raise DispatchError, and those shipped.
AnyOrShipped == {"any_or_error", "nearest_car", "round_robin", "zone_based"}

\* No trip; trips one car, the other, both or neither may serve; an id used
\* twice, at one time and at two; the four ways to be invalid.
MixedLists ==
  {<<>>}
    \cup {<<Row(0, "p1", 1, d), Row(1, "p2", s, 1)>> : d \in {2, 3}, s \in {2, 3}}
    \cup {<<Row(0, "p1", 2, 3), Row(0, "p2", 1, 2)>>,
          <<Row(0, "p1", 1, 2), Row(0, "p1", 1, 3), Row(0, "p2", 3, 1)>>,
          <<Row(1, "p1", 1, 2), Row(0, "p1", 3, 1)>>}
    \cup {<<Row(0, "p1", 1, 2), bad>> :
            bad \in {Row(0, "p2", 2, 2), Row(0, "p2", 0, 3),
                     Row(0, "p2", 1, 4), Row(-1, "p2", 1, 2)}}

-----------------------------------------------------------------------------
(* The workloads of the runs that contradict a document *)

\* Everybody at the top floor wants to go down, one seat to a car.  The first
\* gets the car of the zone, upstairs.  With it going down, full, the zone has no
\* car, and the nearest-car fallback gives the other seven to the car downstairs.
EverybodyDown ==
  {[i \in 1..8 |-> Row(IF i = 1 THEN 0 ELSE IF i = 8 THEN 2 ELSE 1,
                       <<"p1", "p2", "p3", "p4", "p5", "p6", "p7", "p8">>[i], 4, 1)]}

\* One id, two requests.
SameIdTwice ==
  {<<Row(s, "p1", 1, 3), Row(t, "p1", 1, 2)>> : s \in 0..1, t \in 0..1}

\* The express car passes floor 2 on the way to floor 3.
ExpressTrip == {<<Row(0, "p1", 1, 3)>>}

ExpressCar == <<{1, 3}>>

\* Trips both cars may serve in turn with trips only the first may.
LocalTrips ==
  {<<Row(0, "p1", 1, 3), Row(0, "p2", 1, 2), Row(0, "p3", 1, 3), Row(0, "p4", 1, 2)>>}

LocalAndExpress == <<{1, 2, 3}, {1, 3}>>
=============================================================================
