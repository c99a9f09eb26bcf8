---------------------------- MODULE SingleCarProofs ----------------------------
(***************************************************************************)
(* Proofs about the single car: the list that pickup() walks through and   *)
(* the set the other methods look at stay the same requests, under any     *)
(* traffic.                                                                *)
(***************************************************************************)
EXTENDS OpenBuilding, OperatorProofs

-----------------------------------------------------------------------------
(* Lists without repetition *)

\* The list has each member of S once.
Lines(list, S) == /\ list \in Seq(S)
                  /\ Range(list) = S
                  /\ Len(list) = Cardinality(S)

LEMMA RangeOfList ==
  ASSUME NEW S, NEW list \in Seq(S)
  PROVE  /\ Len(list) \in Nat /\ Range(list) = {list[i] : i \in 1..Len(list)}
         /\ IsFiniteSet(Range(list))
         /\ Len(list) = Cardinality(Range(list))
              => \A i, j \in 1..Len(list) : list[i] = list[j] => i = j
<1> DEFINE D == 1..Len(list)
           T == Range(list)
<1>1. Len(list) \in Nat /\ DOMAIN list = D /\ list \in [D -> S]
  OBVIOUS
<1>2. T = {list[i] : i \in D}
  BY <1>1 DEF Range
<1>3. IsFiniteSet(D) /\ Cardinality(D) = Len(list)
  <2>1. 1 \in Int /\ Len(list) \in Int /\ (1 > Len(list) => Len(list) = 0)
    BY <1>1
  <2>. QED
    BY <1>1, <2>1, FS_Interval, SMTT(30)
<1>4. list \in Surjection(D, T)
  <2>1. list \in [D -> T]
    BY <1>1, <1>2
  <2>2. \A t \in T : \E i \in D : list[i] = t
    BY <1>2
  <2> HIDE DEF D, T
  <2>. QED
    BY <2>1, <2>2 DEF Surjection
<1>5. IsFiniteSet(T) /\ (Cardinality(T) = Cardinality(D) => list \in Injection(D, T))
  <2> HIDE DEF D, T
  <2>. QED
    BY <1>3, <1>4, FS_Surjection
<1>6. list \in Injection(D, T) => \A i, j \in D : list[i] = list[j] => i = j
  <2> HIDE DEF D, T
  <2>. QED
    BY DEF Injection, IsInjective
<1>. QED
  BY <1>1, <1>2, <1>3, <1>5, <1>6

\* Such a list is in the order of its places.
LEMMA LineIsListing ==
  ASSUME NEW S, NEW list, Lines(list, S)
  PROVE  \E R : Orders(R, S) /\ Listing(list, S, R)
<1> DEFINE D == 1..Len(list)
           R == {d \in S \X S : \E i, j \in D : i < j /\ list[i] = d[1] /\ list[j] = d[2]}
<1>1. /\ Len(list) \in Nat /\ S = {list[i] : i \in D}
      /\ \A i, j \in D : list[i] = list[j] => i = j
  BY RangeOfList DEF Lines
<1>2. \A i, j \in D : <<list[i], list[j]>> \in R <=> i < j
  <2> SUFFICES ASSUME NEW i \in D, NEW j \in D
               PROVE  <<list[i], list[j]>> \in R <=> i < j
    OBVIOUS
  <2>1. list[i] \in S /\ list[j] \in S
    BY <1>1
  <2>. QED
    BY <1>1, <2>1
<1>3. Orders(R, S)
  <2>1. \A x \in S : \E i \in D : x = list[i]
    BY <1>1
  <2>2. \A i, j, k \in D : /\ ~(i < i)
                           /\ i < j /\ j < k => i < k
                           /\ i # j => i < j \/ j < i
    BY <1>1
  <2>3. \A x \in S : <<x, x>> \notin R
    <3> HIDE DEF R, D
    <3>. QED
      BY <1>2, <2>1, <2>2
  <2>4. ASSUME NEW x \in S, NEW y \in S, NEW z \in S, <<x, y>> \in R, <<y, z>> \in R
        PROVE  <<x, z>> \in R
    <3> HIDE DEF R, D
    <3>. QED
      BY <1>2, <2>1, <2>2, <2>4
  <2>5. ASSUME NEW x \in S, NEW y \in S, x # y
        PROVE  <<x, y>> \in R \/ <<y, x>> \in R
    <3> HIDE DEF R, D
    <3>. QED
      BY <1>2, <2>1, <2>2, <2>5
  <2> HIDE DEF R
  <2>. QED
    BY <2>3, <2>4, <2>5 DEF Orders
<1>4. Listing(list, S, R)
  <2> HIDE DEF R
  <2>. QED
    BY <1>1, <1>2 DEF Listing, Lines
<1>. QED
  BY <1>3, <1>4

LEMMA ListingIsLine ==
  ASSUME NEW S, NEW R, Orders(R, S), NEW list, Listing(list, S, R)
  PROVE  Lines(list, S)
<1>1. list \in Seq(S) /\ \A x \in S : \E i \in 1..Len(list) : list[i] = x
  BY DEF Listing
<1>2. Range(list) = {list[i] : i \in 1..Len(list)} /\ \A i \in 1..Len(list) : list[i] \in S
  BY <1>1, RangeOfList
<1>3. Range(list) = S
  BY <1>1, <1>2
<1>. QED
  BY <1>1, <1>3, ListingLength DEF Lines

LEMMA LinesAmong ==
  ASSUME NEW S, NEW list, Lines(list, S), NEW T
  PROVE  Lines(Among(T, list), S \cap T)
<1>1. PICK R : Orders(R, S) /\ Listing(list, S, R)
  BY LineIsListing
<1>2. Orders(R, S \cap T)
  BY <1>1 DEF Orders
<1>3. Listing(Among(T, list), S \cap T, R)
  BY <1>1, AmongListing
<1>. QED
  BY <1>2, <1>3, ListingIsLine

LEMMA LinesAppend ==
  ASSUME NEW S, NEW list, Lines(list, S), NEW p, p \notin S
  PROVE  Lines(Append(list, p), S \cup {p})
<1>1. Len(list) \in Nat /\ IsFiniteSet(S)
  BY RangeOfList DEF Lines
<1>2. /\ list \in Seq(S \cup {p})
      /\ Append(list, p) \in Seq(S \cup {p})
      /\ Len(Append(list, p)) = Len(list) + 1
      /\ \A i \in 1..Len(list) : Append(list, p)[i] = list[i]
      /\ Append(list, p)[Len(list) + 1] = p
  <2>1. list \in Seq(S \cup {p})
    BY DEF Lines
  <2>. QED
    BY <2>1
<1>3. Range(Append(list, p)) = S \cup {p}
  <2>1. /\ Range(Append(list, p)) = {Append(list, p)[i] : i \in 1..(Len(list) + 1)}
        /\ S = {list[i] : i \in 1..Len(list)}
    <3>1. Range(Append(list, p)) = {Append(list, p)[i] : i \in 1..Len(Append(list, p))}
      BY <1>2, RangeOfList
    <3>. QED
      BY <1>2, <3>1, RangeOfList DEF Lines
  <2>2. 1..(Len(list) + 1) = 1..Len(list) \cup {Len(list) + 1}
    BY <1>1
  <2>. QED
    BY <1>2, <2>1, <2>2
<1>. QED
  BY <1>1, <1>2, <1>3, FS_AddElement, SMTT(30) DEF Lines

-----------------------------------------------------------------------------
(* TypeOK *)

\* There is room to count: only finitely many have boarded.
CarInv == TypeOK /\ IsFiniteSet(car.passengers)

LEMMA TypeOKLines ==
  ASSUME TypeOK
  PROVE  Lines(line, car.assigned_requests)
<1>1. line \in Seq(car.assigned_requests)
  <2>1. /\ Len(line) \in Nat /\ line \in [1..Len(line) -> People]
        /\ Range(line) = {line[i] : i \in 1..Len(line)}
    BY RangeOfList DEF TypeOK
  <2>2. line \in [1..Len(line) -> car.assigned_requests]
    BY <2>1 DEF TypeOK
  <2>. QED
    BY <2>1, <2>2
<1>. QED
  BY <1>1 DEF TypeOK, Lines

LEMMA LinesTypeOK ==
  ASSUME NEW S \in SUBSET People, NEW list, Lines(list, S)
  PROVE  list \in Seq(People) /\ Range(list) = S /\ Len(list) = Cardinality(S)
<1>1. list \in Seq(S)
  BY DEF Lines
<1>2. list \in Seq(People)
  BY <1>1
<1>. QED
  BY <1>2 DEF Lines

\* Whoever has a trip has it between floors of the building.
LEMMA TripFloors ==
  ASSUME TypeOK, NEW p \in car.passengers \cup car.assigned_requests
  PROVE  p \in People /\ trip[p].source \in Floors /\ trip[p].dest \in Floors
  BY TripAssumption DEF TypeOK

LEMMA MoveTargets ==
  ASSUME TypeOK, NEW target \in MoveChoices(car, trip)
  PROVE  target \in Floors \cup {None}
<1>1. TargetFloors(car, trip) \subseteq Floors
  BY TripFloors DEF TargetFloors
<1>. QED
  BY <1>1 DEF MoveChoices, NextTargets, Nearest, Ahead

\* Those who board are some of the list, a finite number.
LEMMA BoardingFromLine ==
  ASSUME NEW S, NEW list, Lines(list, S), NEW m \in Int
  PROVE  LET n == IF Len(list) <= m THEN Len(list) ELSE m
             boarding == Range(SubSeq(list, 1, n))
         IN  boarding \subseteq S /\ IsFiniteSet(boarding)
<1> DEFINE n == IF Len(list) <= m THEN Len(list) ELSE m
<1>1. list \in Seq(S) /\ Len(list) \in Nat /\ n \in Int /\ n <= Len(list)
  BY DEF Lines
<1>2. SubSeq(list, 1, n) \in Seq(S)
  <2> HIDE DEF n
  <2>1. CASE n < 1
    <3>1. SubSeq(list, 1, n) = << >>
      BY <1>1, <2>1
    <3>2. << >> \in Seq(S)
      OBVIOUS
    <3>. QED
      BY <3>1, <3>2
  <2>2. CASE n >= 1
    BY <1>1, <2>2
  <2>. QED
    BY <1>1, <2>1, <2>2
<1>3. Range(SubSeq(list, 1, n)) \subseteq S /\ IsFiniteSet(Range(SubSeq(list, 1, n)))
  <2> HIDE DEF n
  <2> DEFINE t == SubSeq(list, 1, n)
  <2>0. t \in Seq(S)
    BY <1>2
  <2> HIDE DEF t
  <2>1. Range(t) = {t[i] : i \in 1..Len(t)} /\ IsFiniteSet(Range(t))
    BY <2>0, RangeOfList
  <2>2. \A i \in 1..Len(t) : t[i] \in S
    BY <2>0
  <2>3. Range(t) \subseteq S /\ IsFiniteSet(Range(t))
    BY <2>1, <2>2
  <2>. QED
    BY <2>3 DEF t
<1>. QED
  BY <1>3

LEMMA StepCarInv == CarInv /\ [Next]_carVars => CarInv'
<1> SUFFICES ASSUME CarInv, [Next]_carVars PROVE CarInv'
  OBVIOUS
<1>1. /\ TypeOK /\ IsFiniteSet(car.passengers)
      /\ Lines(line, car.assigned_requests)
      /\ car.passengers \subseteq People /\ car.assigned_requests \subseteq People
  BY TypeOKLines, CarTypes DEF CarInv, TypeOK
<1>2. CASE Call
  <2>1. PICK p \in People, t \in Trips :
          /\ trip[p] = NoTrip
          /\ trip' = [trip EXCEPT ![p] = t]
          /\ car' = AfterAssign(car, p)
          /\ line' = Append(line, p)
          /\ phase' = phase
    BY <1>2 DEF Call
  <2>2. People' = People
    <3>1. DOMAIN [trip EXCEPT ![p] = t] = DOMAIN trip
      OBVIOUS
    <3>. QED
      BY <2>1, <3>1 DEF People
  <2>3. p \notin car.assigned_requests /\ p \notin car.passengers /\ t # NoTrip
    <3>1. p \notin car.passengers \cup car.assigned_requests
      BY <1>1, <2>1 DEF TypeOK
    <3>2. t.source \in 1..NumFloors
      BY <2>1, TripAssumption DEF Floors
    <3>3. NoTrip.source = -1
      BY DEF NoTrip, None
    <3>4. t.source # NoTrip.source
      BY <3>2, <3>3, CarAssumption
    <3>5. t # NoTrip
      BY <3>4
    <3>. QED
      BY <3>1, <3>5
  <2>4. /\ car' \in Car(People) /\ car'.passengers = car.passengers
        /\ car'.assigned_requests = car.assigned_requests \cup {p}
    <3>1. car \in Car(People)
      BY <1>1 DEF TypeOK
    <3>. QED
      BY <2>1, <2>2, <3>1, AssignFields
  <2>5. Lines(line', car'.assigned_requests)
    BY <1>1, <2>1, <2>3, <2>4, LinesAppend
  <2>6. /\ line' \in Seq(People) /\ Range(line') = car'.assigned_requests
        /\ Len(line') = Cardinality(car'.assigned_requests)
    BY <1>1, <2>4, <2>5, LinesTypeOK
  <2>7. \A q \in People : trip'[q] = IF q = p THEN t ELSE trip[q]
    BY <2>1 DEF People
  <2>8. \A q \in People : trip'[q] \in Trips \cup {NoTrip}
    BY <1>1, <2>7 DEF TypeOK
  <2>9. /\ car'.passengers \cap car'.assigned_requests = {}
        /\ car'.passengers \cup car'.assigned_requests = {q \in People : trip'[q] # NoTrip}
    BY <1>1, <2>3, <2>4, <2>7 DEF TypeOK
  <2>10. NoTrip' = NoTrip /\ phase' \in {"DISPATCH", "DROPOFF", "PICKUP", "MOVE"}
    BY <1>1, <2>1 DEF NoTrip, TypeOK
  <2>. QED
    BY <1>1, <2>2, <2>4, <2>6, <2>8, <2>9, <2>10 DEF CarInv, TypeOK
<1>3. CASE Dropoff
  <2> DEFINE out == Alighting(car, trip)
  <2>1. /\ trip' = [p \in People |-> IF p \in out THEN NoTrip ELSE trip[p]]
        /\ line' = line /\ phase' = "PICKUP" /\ car' = AfterDropoff(car, trip)
    BY <1>3 DEF Dropoff
  <2>2. People' = People
    BY <2>1 DEF People
  <2>3. out \subseteq car.passengers
    BY DEF Alighting
  <2>4. /\ car' \in Car(People) /\ car'.passengers = car.passengers \ out
        /\ car'.assigned_requests = car.assigned_requests
    <3>1. /\ AfterDropoff(car, trip) \in Car(People)
          /\ AfterDropoff(car, trip).passengers
               = {p \in car.passengers : trip[p].dest # car.current_floor}
          /\ AfterDropoff(car, trip).assigned_requests = car.assigned_requests
      BY <1>1, DropoffFields DEF TypeOK
    <3>. QED
      BY <2>1, <3>1 DEF Alighting
  <2>5. /\ \A q \in People : trip'[q] \in Trips \cup {NoTrip}
        /\ car'.passengers \cap car'.assigned_requests = {}
        /\ car'.passengers \cup car'.assigned_requests = {q \in People : trip'[q] # NoTrip}
    <3> HIDE DEF out
    <3>. QED
      BY <1>1, <2>1, <2>3, <2>4 DEF TypeOK
  <2>6. IsFiniteSet(car'.passengers)
    BY <1>1, <2>4, FS_Difference
  <2>7. NoTrip' = NoTrip
    BY DEF NoTrip
  <2>. QED
    BY <1>1, <2>1, <2>2, <2>4, <2>5, <2>6, <2>7 DEF CarInv, TypeOK
<1>4. CASE Pickup
  <2> DEFINE here == Among({p \in People : trip[p].source = car.current_floor}, line)
             n == IF Len(here) <= Room(car) THEN Len(here) ELSE Room(car)
             boarding == Range(SubSeq(here, 1, n))
  <2>1. /\ car' = AfterPickup(car, boarding)
        /\ line' = Among(People \ boarding, line)
        /\ phase' = "MOVE" /\ trip' = trip
    BY <1>4 DEF Pickup
  <2>2. People' = People
    BY <2>1 DEF People
  <2>3. boarding \subseteq car.assigned_requests /\ IsFiniteSet(boarding)
    <3>1. Room(car) \in Int
      BY <1>1, CarAssumption, FS_CardinalityType DEF Room
    <3>2. Lines(here, car.assigned_requests \cap {p \in People : trip[p].source = car.current_floor})
      BY <1>1, LinesAmong
    <3> HIDE DEF here
    <3>. QED
      BY <3>1, <3>2, BoardingFromLine
  <2> HIDE DEF boarding
  <2>4. /\ car' \in Car(People) /\ car'.passengers = car.passengers \cup boarding
        /\ car'.assigned_requests = car.assigned_requests \ boarding
    <3>1. boarding \in SUBSET People /\ car \in Car(People)
      BY <1>1, <2>3 DEF TypeOK
    <3>. QED
      BY <2>1, <3>1, PickupFields
  <2>5. Lines(line', car'.assigned_requests)
    <3>1. car.assigned_requests \cap (People \ boarding) = car'.assigned_requests
      BY <1>1, <2>4
    <3>2. Lines(line', car.assigned_requests \cap (People \ boarding))
      BY <1>1, <2>1, LinesAmong
    <3>. QED
      BY <3>1, <3>2
  <2>6. /\ line' \in Seq(People) /\ Range(line') = car'.assigned_requests
        /\ Len(line') = Cardinality(car'.assigned_requests)
    BY <1>1, <2>4, <2>5, LinesTypeOK
  <2>7. /\ car'.passengers \cap car'.assigned_requests = {}
        /\ car'.passengers \cup car'.assigned_requests
             = car.passengers \cup car.assigned_requests
    BY <1>1, <2>3, <2>4 DEF TypeOK
  <2>8. IsFiniteSet(car'.passengers)
    BY <1>1, <2>3, <2>4, FS_Union
  <2>9. NoTrip' = NoTrip
    BY DEF NoTrip
  <2>. QED
    BY <1>1, <2>1, <2>2, <2>4, <2>6, <2>7, <2>8, <2>9 DEF CarInv, TypeOK
<1>5. CASE Move
  <2>1. PICK target \in MoveChoices(car, trip) : car' = AfterMove(car, target)
    BY <1>5 DEF Move
  <2>2. /\ car' \in Car(People) /\ car'.passengers = car.passengers
        /\ car'.assigned_requests = car.assigned_requests
    BY <1>1, <2>1, MoveTargets, MoveFields DEF TypeOK
  <2>3. trip' = trip /\ line' = line /\ phase' = "DISPATCH"
    BY <1>5 DEF Move
  <2>. QED
    BY <1>1, <2>2, <2>3 DEF CarInv, TypeOK, People, NoTrip
<1>6. CASE EndDispatch \/ UNCHANGED carVars
  BY <1>1, <1>6 DEF EndDispatch, carVars, CarInv, TypeOK, People, NoTrip
<1>. QED
  BY <1>2, <1>3, <1>4, <1>5, <1>6 DEF Next

LEMMA InitCarInv == Init => CarInv
<1> SUFFICES ASSUME Init PROVE CarInv
  OBVIOUS
<1>1. PICK floor \in Floors : car = IdleCar(floor)
  BY DEF Init
<1>2. car \in Car(People) /\ car.passengers = {} /\ car.assigned_requests = {}
  BY <1>1 DEF IdleCar, Car, Direction
<1>3. line \in Seq(People) /\ Range(line) = {} /\ Len(line) = Cardinality({})
  <2>1. line = <<>>
    BY DEF Init
  <2>2. line \in Seq(People) /\ Len(line) = 0
    BY <2>1
  <2>3. DOMAIN line = 1..0
    BY <2>1
  <2>4. Range(line) = {}
    BY <2>3 DEF Range
  <2>. QED
    BY <2>2, <2>4, FS_EmptySet
<1>. QED
  BY <1>2, <1>3, FS_EmptySet DEF Init, CarInv, TypeOK

\* The list of the car and the set of requests its load and targets are taken
\* from are the same requests, each once, and nobody is waiting and riding
\* (TypeOK), however the people in the building call.
THEOREM LineAndSetAgree == Spec => []TypeOK
<1>1. Spec => []CarInv
  BY InitCarInv, StepCarInv, PTL DEF Spec
<1>2. CarInv => TypeOK
  BY DEF CarInv
<1>. QED
  BY <1>1, <1>2, PTL

\* The same in the building whose callers TLC lets call for ever.
THEOREM OpenBuildingTypes == OpenBuilding => []TypeOK
  BY LineAndSetAgree, PTL DEF OpenBuilding, OpenInit, Spec
=============================================================================
