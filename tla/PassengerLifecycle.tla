-------------------------- MODULE PassengerLifecycle --------------------------
(***************************************************************************)
(* What the simulation promises a passenger, without floors, time or       *)
(* dispatch policy: WAITING, ASSIGNED, RIDING, DELIVERED, in that order    *)
(* and through one car only, and never more riders than seats.             *)
(* (docs/ARCHITECTURE.md, "Passenger Lifecycle (State Machine)";           *)
(* docs/ADR/005, "Formal properties preserved by this ordering".)          *)
(***************************************************************************)
EXTENDS Integers, FiniteSets

CONSTANTS Cars, Seats

VARIABLES stage,   \* stage[p]: how far the passenger is, "ABSENT" before the request
          car      \* car[p]: the car it was assigned, -1 before that

vars == <<stage, car>>

People == DOMAIN stage

AtStage(s) == {p \in People : stage[p] = s}

Riders(c) == {p \in AtStage("RIDING") : car[p] = c}

Advance(S, to) == stage' = [p \in People |-> IF p \in S THEN to ELSE stage[p]]

\* Everybody starts at the first stage, with no car.
Fresh == /\ \A p \in People : stage[p] = "ABSENT"
         /\ car = [p \in People |-> -1]

Arrive == /\ \E S \in SUBSET AtStage("ABSENT") : Advance(S, "WAITING")
          /\ UNCHANGED car

AssignOne == \E p \in AtStage("WAITING"), c \in Cars :
               /\ Advance({p}, "ASSIGNED")
               /\ car' = [car EXCEPT ![p] = c]

\* A car takes only people assigned to it, and no more than it has seats.
Board == /\ \E S \in SUBSET AtStage("ASSIGNED") : Advance(S, "RIDING")
         /\ \A c \in Cars : Cardinality(Riders(c)') <= Seats
         /\ UNCHANGED car

Leave == /\ \E S \in SUBSET AtStage("RIDING") : Advance(S, "DELIVERED")
         /\ UNCHANGED car

Next == Arrive \/ AssignOne \/ Board \/ Leave

Spec == Fresh /\ [][Next]_vars
=============================================================================
