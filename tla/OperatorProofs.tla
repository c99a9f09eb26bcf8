---------------------------- MODULE OperatorProofs ----------------------------
(***************************************************************************)
(* Facts about the operators the specifications are built from: the        *)
(* methods of a car, lists and the order they are kept in, sums, order     *)
(* statistics and rankings.  None is about a state.                        *)
(***************************************************************************)
EXTENDS Elevator, Lists, Reports, Comparison, SequencesExt, FiniteSetTheorems,
        WellFoundedInduction, TLAPS

-----------------------------------------------------------------------------
(* Least elements *)

\* Induction over the subsets of a finite set, as a statement about a set of
\* them: of the subsets in a collection one contains no other.
LEMMA LeastSubset ==
  ASSUME NEW S, IsFiniteSet(S), NEW T, T \subseteq SUBSET S, T # {}
  PROVE  \E X \in T : \A Y \in SUBSET X : Y # X => Y \notin T
<1>1. FiniteSubsetsOf(S) = SUBSET S
  BY FS_FiniteSubsetsOfFinite
<1>2. PICK X \in T : \A Y \in T : ~(<<Y, X>> \in StrictSubsetOrdering(S))
  BY <1>1, FS_StrictSubsetOrderingWellFounded, WFMin, Zenon
<1>3. ASSUME NEW Y \in SUBSET X, Y # X, Y \in T
      PROVE  FALSE
  BY <1>2, <1>3 DEF StrictSubsetOrdering
<1>. QED
  BY <1>2, <1>3

\* Of the requests with one id and one time there is a first.  (From the
\* library's theorem that finite sets are well-founded under inclusion.)
LEMMA LeastElement ==
  ASSUME NEW S, S \subseteq Nat, S # {}
  PROVE  \E m \in S : \A n \in S : m <= n
<1> DEFINE upTo(n) == {x \in S : x <= n}
           T == {upTo(n) : n \in S}
<1>1. \A n \in S : upTo(n) \in FiniteSubsetsOf(S)
  <2> TAKE n \in S
  <2>1. n \in Nat /\ upTo(n) \in SUBSET Nat /\ \A x \in upTo(n) : x <= n
    OBVIOUS
  <2>2. IsFiniteSet(upTo(n))
    BY <2>1, FS_BoundedSetOfNaturals
  <2>. QED
    BY <2>2 DEF FiniteSubsetsOf
<1>2. T \subseteq FiniteSubsetsOf(S) /\ T # {}
  BY <1>1
<1>3. PICK X \in T : \A Y \in T : ~(<<Y, X>> \in StrictSubsetOrdering(S))
  BY <1>2, FS_StrictSubsetOrderingWellFounded, WFMin, Zenon
<1>4. PICK m \in S : X = upTo(m)
  OBVIOUS
<1>5. ASSUME NEW n \in S, n < m
      PROVE  FALSE
  <2>1. m \in Nat /\ n \in Nat /\ \A x \in S : x \in Nat
    OBVIOUS
  <2>2. \A x \in S : x <= n => x <= m
    BY <1>5, <2>1
  <2>3. m \in upTo(m) /\ m \notin upTo(n)
    BY <1>5, <2>1
  <2>4. upTo(n) \in SUBSET S /\ upTo(m) \in SUBSET S /\ upTo(n) \subseteq upTo(m)
    BY <2>2
  <2>5. <<upTo(n), upTo(m)>> \in StrictSubsetOrdering(S)
    <3> HIDE DEF upTo
    <3>. QED
      BY <2>3, <2>4 DEF StrictSubsetOrdering
  <2>. QED
    BY <1>3, <1>4, <2>5
<1>6. \A n \in S : m <= n
  <2>1. m \in Nat /\ \A x \in S : x \in Nat
    OBVIOUS
  <2>. QED
    BY <1>5, <2>1
<1>. QED
  BY <1>6

-----------------------------------------------------------------------------
(* What the methods of a car leave behind *)

LEMMA CarTypes ==
  ASSUME NEW P, NEW car \in Car(P)
  PROVE  /\ car.current_floor \in Floors /\ car.direction \in Direction
         /\ car.passengers \subseteq P /\ car.assigned_requests \subseteq P
  BY DEF Car

LEMMA DropoffFields ==
  ASSUME NEW P, NEW car \in Car(P), NEW reqs
  PROVE  /\ AfterDropoff(car, reqs) \in Car(P)
         /\ AfterDropoff(car, reqs).current_floor = car.current_floor
         /\ AfterDropoff(car, reqs).direction = car.direction
         /\ AfterDropoff(car, reqs).passengers
              = {p \in car.passengers : reqs[p].dest # car.current_floor}
         /\ AfterDropoff(car, reqs).assigned_requests = car.assigned_requests
  BY DEF Car, AfterDropoff, Alighting

LEMMA PickupFields ==
  ASSUME NEW P, NEW car \in Car(P), NEW boarding \in SUBSET P
  PROVE  /\ AfterPickup(car, boarding) \in Car(P)
         /\ AfterPickup(car, boarding).current_floor = car.current_floor
         /\ AfterPickup(car, boarding).direction = car.direction
         /\ AfterPickup(car, boarding).passengers = car.passengers \cup boarding
         /\ AfterPickup(car, boarding).assigned_requests
              = car.assigned_requests \ boarding
  BY DEF Car, AfterPickup

LEMMA AssignFields ==
  ASSUME NEW P, NEW car \in Car(P), NEW p \in P
  PROVE  /\ AfterAssign(car, p) \in Car(P)
         /\ AfterAssign(car, p).current_floor = car.current_floor
         /\ AfterAssign(car, p).direction = car.direction
         /\ AfterAssign(car, p).passengers = car.passengers
         /\ AfterAssign(car, p).assigned_requests = car.assigned_requests \cup {p}
  BY DEF Car, AfterAssign

\* A car moves one floor towards a floor of the building, so it stays inside.
LEMMA MoveFields ==
  ASSUME NEW P, NEW car \in Car(P), NEW target \in Floors \cup {None}
  PROVE  /\ AfterMove(car, target) \in Car(P)
         /\ AfterMove(car, target).passengers = car.passengers
         /\ AfterMove(car, target).assigned_requests = car.assigned_requests
         /\ target = None =>
              /\ AfterMove(car, target).direction = "IDLE"
              /\ AfterMove(car, target).current_floor = car.current_floor
         /\ target # None /\ target > car.current_floor =>
              /\ AfterMove(car, target).direction = "UP"
              /\ AfterMove(car, target).current_floor = car.current_floor + 1
         /\ target # None /\ target < car.current_floor =>
              /\ AfterMove(car, target).direction = "DOWN"
              /\ AfterMove(car, target).current_floor = car.current_floor - 1
         /\ target # None /\ target = car.current_floor =>
              /\ AfterMove(car, target).direction = car.direction
              /\ AfterMove(car, target).current_floor = car.current_floor
<1> DEFINE after == AfterMove(car, target)
<1>1. car.current_floor \in Int /\ NumFloors \in Int /\ target \in Int
  BY CarAssumption DEF Car, Floors, None
<1>2. CASE target = None
  BY <1>2 DEF AfterMove, Car, Direction
<1>3. CASE target # None
  <2> DEFINE f == car.current_floor + Sign(target - car.current_floor)
             d == Heading(car, target)
  <2>1. after = [car EXCEPT !.current_floor = f, !.direction = d]
    BY <1>3 DEF AfterMove
  <2>2. f \in Floors /\ d \in Direction
    BY <1>1, <1>3 DEF Sign, Heading, Car, Floors, Direction
  <2>3. /\ after \in Car(P)
        /\ after.passengers = car.passengers
        /\ after.assigned_requests = car.assigned_requests
        /\ after.direction = d /\ after.current_floor = f
    <3> HIDE DEF f, d
    <3>. QED BY <2>1, <2>2 DEF Car
  <2>. QED
    BY <1>1, <1>3, <2>3 DEF Sign, Heading
<1>. QED
  BY <1>2, <1>3

-----------------------------------------------------------------------------
(* Lists in order *)

\* R puts any two members of S into an order.
Orders(R, S) ==
  /\ \A x \in S : <<x, x>> \notin R
  /\ \A x, y, z \in S : <<x, y>> \in R /\ <<y, z>> \in R => <<x, z>> \in R
  /\ \A x, y \in S : x # y => <<x, y>> \in R \/ <<y, x>> \in R

\* The list has the members of S, each where R puts it.
Listing(list, S, R) ==
  /\ list \in Seq(S)
  /\ \A x \in S : \E i \in 1..Len(list) : list[i] = x
  /\ \A i, j \in 1..Len(list) : i < j => <<list[i], list[j]>> \in R

\* How many come before p.
Rank(S, R, p) == Cardinality({q \in S : <<q, p>> \in R})

LEMMA RanksAre ==
  ASSUME NEW S, IsFiniteSet(S), NEW R, Orders(R, S)
  PROVE  /\ \A p \in S : Rank(S, R, p) \in 0..(Cardinality(S) - 1)
         /\ \A p, q \in S : <<p, q>> \in R => Rank(S, R, p) < Rank(S, R, q)
         /\ \A k \in 0..(Cardinality(S) - 1) : \E p \in S : Rank(S, R, p) = k
<1> DEFINE n == Cardinality(S)
           before(p) == {q \in S : <<q, p>> \in R}
<1>1. n \in Nat
  BY FS_CardinalityType
<1>2. ASSUME NEW p \in S
      PROVE  Rank(S, R, p) \in 0..(n - 1)
  <2>1. before(p) \in SUBSET (S \ {p})
    BY DEF Orders
  <2>2. IsFiniteSet(S \ {p}) /\ Cardinality(S \ {p}) = n - 1
    BY FS_RemoveElement
  <2>3. Cardinality(before(p)) <= n - 1 /\ Cardinality(before(p)) \in Nat
    <3> HIDE DEF before
    <3>. QED
      BY <2>1, <2>2, FS_Subset, FS_CardinalityType
  <2>. QED
    BY <1>1, <2>3 DEF Rank
<1>3. ASSUME NEW p \in S, NEW q \in S, <<p, q>> \in R
      PROVE  Rank(S, R, p) < Rank(S, R, q)
  <2>1. before(p) \in SUBSET before(q) /\ before(p) # before(q)
    <3>1. p \in before(q) /\ p \notin before(p)
      BY <1>3 DEF Orders
    <3>2. \A x \in before(p) : x \in before(q)
      BY <1>3 DEF Orders
    <3>. QED
      BY <3>1, <3>2
  <2>2. before(q) \in SUBSET S
    OBVIOUS
  <2>3. Cardinality(before(p)) < Cardinality(before(q))
    <3> HIDE DEF before
    <3>1. IsFiniteSet(before(q)) /\ IsFiniteSet(before(p))
      BY <2>1, <2>2, FS_Subset
    <3>. QED
      BY <2>1, <3>1, FS_Subset, FS_CardinalityType
  <2>. QED
    BY <2>3 DEF Rank
<1>4. \A k \in 0..(n - 1) : \E p \in S : Rank(S, R, p) = k
  <2> DEFINE f == [p \in S |-> Rank(S, R, p)]
             T == 0..(n - 1)
  <2>1. f \in [S -> T]
    BY <1>2
  <2>2. \A p, q \in S : f[p] = f[q] => p = q
    <3> SUFFICES ASSUME NEW p \in S, NEW q \in S, f[p] = f[q], p # q
                 PROVE  FALSE
      OBVIOUS
    <3>1. Rank(S, R, p) = Rank(S, R, q) /\ Rank(S, R, p) \in Int
      BY <1>2
    <3>2. Rank(S, R, p) < Rank(S, R, q) \/ Rank(S, R, q) < Rank(S, R, p)
      BY <1>3 DEF Orders
    <3>. QED
      BY <3>1, <3>2
  <2>3. IsFiniteSet(T) /\ Cardinality(T) = n
    <3>1. 0 \in Int /\ n - 1 \in Int
      BY <1>1
    <3>. QED
      BY <1>1, <3>1, FS_Interval
  <2>4. f \in Surjection(S, T)
    <3> HIDE DEF f, T
    <3>1. f \in Injection(S, T)
      BY <2>1, <2>2 DEF Injection, IsInjective
    <3>. QED
      BY <2>3, <3>1, FS_Injection
  <2>5. \A k \in T : \E p \in S : f[p] = k
    <3> HIDE DEF f, T
    <3>. QED
      BY <2>4 DEF Surjection
  <2>. QED
    BY <2>5
<1>. QED
  BY <1>2, <1>3, <1>4

\* A list by rank is a listing: what InOrder makes of an order.
LEMMA ByRank ==
  ASSUME NEW S, IsFiniteSet(S), NEW R, Orders(R, S), NEW list,
         list = [i \in 1..Cardinality(S) |-> list[i]],
         \A i \in 1..Cardinality(S) :
           (\E p \in S : Rank(S, R, p) = i - 1)
             => list[i] \in S /\ Rank(S, R, list[i]) = i - 1
  PROVE  Listing(list, S, R)
<1> DEFINE n == Cardinality(S)
<1>1. n \in Nat
  BY FS_CardinalityType
<1>2. \A i \in 1..n : list[i] \in S /\ Rank(S, R, list[i]) = i - 1
  <2>1. \A i \in 1..n : i - 1 \in 0..(n - 1)
    BY <1>1
  <2>. QED
    BY <2>1, RanksAre
<1>3. list \in Seq(S) /\ Len(list) = n
  <2>1. list \in [1..n -> S]
    BY <1>2
  <2>. QED
    BY <1>1, <2>1
<1>4. ASSUME NEW x \in S
      PROVE  \E i \in 1..Len(list) : list[i] = x
  <2>1. Rank(S, R, x) \in 0..(n - 1)
    BY RanksAre
  <2>2. PICK i \in 1..n : i - 1 = Rank(S, R, x)
    <3>1. PICK k \in 0..(n - 1) : k = Rank(S, R, x)
      BY <2>1
    <3>2. k + 1 \in 1..n /\ (k + 1) - 1 = k
      BY <1>1
    <3>. QED
      BY <3>1, <3>2
  <2> DEFINE y == list[i]
  <2>3. y \in S /\ Rank(S, R, y) = Rank(S, R, x)
    BY <1>2, <2>2
  <2>4. ~(Rank(S, R, y) < Rank(S, R, x)) /\ ~(Rank(S, R, x) < Rank(S, R, y))
    BY <2>1, <2>3
  <2>5. x = y
    <3> HIDE DEF y
    <3>. QED
      BY <2>3, <2>4, RanksAre DEF Orders
  <2>. QED
    BY <1>3, <2>2, <2>5
<1>5. ASSUME NEW i \in 1..Len(list), NEW j \in 1..Len(list), i < j
      PROVE  <<list[i], list[j]>> \in R
  <2>1. list[i] \in S /\ list[j] \in S
    BY <1>2, <1>3
  <2>2. /\ Rank(S, R, list[i]) = i - 1 /\ Rank(S, R, list[j]) = j - 1
        /\ i \in Int /\ j \in Int
    BY <1>1, <1>2, <1>3
  <2>3. list[i] # list[j] /\ ~(Rank(S, R, list[j]) < Rank(S, R, list[i]))
    BY <1>5, <2>2
  <2>. QED
    BY <2>1, <2>3, RanksAre DEF Orders
<1>. QED
  BY <1>3, <1>4, <1>5 DEF Listing

\* A sequence chosen by rank is a listing.
LEMMA ChosenByRank ==
  ASSUME NEW S, IsFiniteSet(S), NEW R, Orders(R, S)
  PROVE  Listing([i \in 1..Cardinality(S) |-> CHOOSE p \in S : Rank(S, R, p) = i - 1], S, R)
<1> DEFINE one(i) == CHOOSE p \in S : Rank(S, R, p) = i - 1
           list == [i \in 1..Cardinality(S) |-> one(i)]
<1>1. \A i \in 1..Cardinality(S) : list[i] = one(i)
  <2> HIDE DEF one
  <2>. QED
    OBVIOUS
<1>2. list = [i \in 1..Cardinality(S) |-> list[i]]
  <2> HIDE DEF one
  <2>. QED
    OBVIOUS
<1>3. ASSUME NEW i \in 1..Cardinality(S), \E p \in S : Rank(S, R, p) = i - 1
      PROVE  one(i) \in S /\ Rank(S, R, one(i)) = i - 1
  BY <1>3
<1>4. \A i \in 1..Cardinality(S) :
        (\E p \in S : Rank(S, R, p) = i - 1)
          => list[i] \in S /\ Rank(S, R, list[i]) = i - 1
  BY <1>1, <1>3
<1>5. Listing(list, S, R)
  <2> HIDE DEF list
  <2>. QED
    BY <1>2, <1>4, ByRank
<1>. QED
  BY <1>5

\* In a listing nobody stands twice.
LEMMA ListingDistinct ==
  ASSUME NEW S, NEW R, Orders(R, S), NEW list, Listing(list, S, R)
  PROVE  /\ Len(list) \in Nat
         /\ \A i \in 1..Len(list) : list[i] \in S
         /\ \A i, j \in 1..Len(list) : list[i] = list[j] => i = j
<1>1. Len(list) \in Nat /\ \A i \in 1..Len(list) : list[i] \in S
  BY DEF Listing
<1>2. ASSUME NEW i \in 1..Len(list), NEW j \in 1..Len(list), list[i] = list[j], i # j
      PROVE  FALSE
  <2>1. i < j \/ j < i
    BY <1>2
  <2>2. <<list[i], list[j]>> \notin R /\ <<list[j], list[i]>> \notin R
    BY <1>1, <1>2 DEF Orders
  <2>. QED
    BY <2>1, <2>2 DEF Listing
<1>. QED
  BY <1>1, <1>2

LEMMA ListingLength ==
  ASSUME NEW S, NEW R, Orders(R, S), NEW list, Listing(list, S, R)
  PROVE  IsFiniteSet(S) /\ Cardinality(S) = Len(list)
<1> DEFINE f == [i \in 1..Len(list) |-> list[i]]
<1>1. Len(list) \in Nat /\ f \in [1..Len(list) -> S]
  BY ListingDistinct
<1>2. f \in Surjection(1..Len(list), S) /\ f \in Injection(1..Len(list), S)
  <2>1. \A x \in S : \E i \in 1..Len(list) : f[i] = x
    BY DEF Listing
  <2>2. \A i, j \in 1..Len(list) : f[i] = f[j] => i = j
    BY ListingDistinct
  <2> HIDE DEF f
  <2>. QED
    BY <1>1, <2>1, <2>2 DEF Surjection, Injection, IsInjective
<1>3. IsFiniteSet(1..Len(list)) /\ Cardinality(1..Len(list)) = Len(list)
  <2>1. 1 \in Int /\ Len(list) \in Int /\ (1 > Len(list) => Len(list) = 0)
    BY <1>1
  <2>. QED
    BY <1>1, <2>1, FS_Interval
<1> HIDE DEF f
<1>. QED
  BY <1>2, <1>3, FS_Surjection

\* The first k that agree force the next to agree.
LEMMA ListingPrefix ==
  ASSUME NEW S, NEW R, Orders(R, S), NEW s, NEW t, Listing(s, S, R), Listing(t, S, R)
  PROVE  Len(s) <= Len(t) /\ \A i \in 1..Len(s) : s[i] = t[i]
<1> DEFINE bad == {i \in 1..Len(s) : ~(i \in 1..Len(t) /\ s[i] = t[i])}
<1>1. /\ Len(s) \in Nat /\ Len(t) \in Nat
      /\ \A i \in 1..Len(s) : s[i] \in S
      /\ \A i \in 1..Len(t) : t[i] \in S
  BY ListingDistinct
<1>2. ASSUME bad # {} PROVE FALSE
  <2>1. PICK k \in bad : \A m \in bad : k <= m
    <3>1. bad \subseteq Nat
      OBVIOUS
    <3> HIDE DEF bad
    <3>. QED
      BY <1>2, <3>1, LeastElement
  <2>2. k \in 1..Len(s) /\ \A i \in 1..Len(s) : i < k => i \in 1..Len(t) /\ s[i] = t[i]
    BY <2>1
  <2>3. PICK j \in 1..Len(t) : t[j] = s[k]
    BY <1>1, <2>2 DEF Listing
  <2>4. j # k
    BY <2>1, <2>3
  <2>5. ~(j < k)
    <3> SUFFICES ASSUME j < k PROVE FALSE
      OBVIOUS
    <3>1. j \in 1..Len(s)
      BY <1>1, <2>2
    <3>2. s[j] = s[k]
      BY <2>2, <2>3, <3>1
    <3>. QED
      BY <2>2, <2>4, <3>1, <3>2, ListingDistinct
  <2>6. k < j /\ k \in 1..Len(t)
    BY <1>1, <2>2, <2>4, <2>5
  <2>7. PICK m \in 1..Len(s) : s[m] = t[k]
    BY <1>1, <2>6 DEF Listing
  <2>8. m # k
    BY <2>1, <2>6, <2>7
  <2>9. ~(m < k)
    <3> SUFFICES ASSUME m < k PROVE FALSE
      OBVIOUS
    <3>1. m \in 1..Len(t) /\ t[m] = t[k]
      BY <2>2, <2>7
    <3>. QED
      BY <2>6, <2>8, <3>1, ListingDistinct
  <2>10. k < m
    BY <1>1, <2>2, <2>8, <2>9
  <2>11. <<s[k], t[k]>> \in R /\ <<t[k], s[k]>> \in R
    BY <2>2, <2>3, <2>6, <2>7, <2>10 DEF Listing
  <2>. QED
    BY <1>1, <2>2, <2>6, <2>11 DEF Orders
<1>3. \A i \in 1..Len(s) : i \in 1..Len(t) /\ s[i] = t[i]
  BY <1>2
<1>4. Len(s) <= Len(t)
  BY <1>1, <1>3
<1>. QED
  BY <1>3, <1>4

\* There is one list in the order.
LEMMA ListingUnique ==
  ASSUME NEW S, NEW R, Orders(R, S), NEW s, NEW t, Listing(s, S, R), Listing(t, S, R)
  PROVE  s = t
<1>1. Len(s) = Len(t) /\ \A i \in 1..Len(s) : s[i] = t[i]
  <2>1. /\ Len(s) \in Nat /\ Len(t) \in Nat
        /\ Len(s) <= Len(t) /\ Len(t) <= Len(s) /\ \A i \in 1..Len(s) : s[i] = t[i]
    BY ListingDistinct, ListingPrefix
  <2>. QED
    BY <2>1
<1>2. s = [i \in 1..Len(s) |-> s[i]] /\ t = [i \in 1..Len(t) |-> t[i]]
  BY DEF Listing
<1>. QED
  BY <1>1, <1>2

\* Whoever comes after everybody is put at the end.
LEMMA ListingAppend ==
  ASSUME NEW S, NEW R, NEW s, Listing(s, S, R), NEW p, \A q \in S : <<q, p>> \in R
  PROVE  Listing(Append(s, p), S \cup {p}, R)
<1> DEFINE t == Append(s, p)
           n == Len(s)
<1>1. n \in Nat /\ \A i \in 1..n : s[i] \in S
  BY DEF Listing
<1>2. /\ t \in Seq(S \cup {p}) /\ Len(t) = n + 1 /\ t[n + 1] = p
      /\ \A i \in 1..n : t[i] = s[i]
  <2>1. s \in Seq(S \cup {p}) /\ p \in S \cup {p}
    BY DEF Listing
  <2>. QED
    BY <2>1
<1>3. \A i \in 1..(n + 1) : i \in 1..n \/ i = n + 1
  BY <1>1
<1>4. ASSUME NEW x \in S \cup {p}
      PROVE  \E i \in 1..Len(t) : t[i] = x
  <2>1. CASE x = p
    <3>1. n + 1 \in 1..(n + 1)
      BY <1>1
    <3>. QED
      BY <1>2, <2>1, <3>1
  <2>2. CASE x \in S
    <3>1. PICK i \in 1..n : s[i] = x
      BY <2>2 DEF Listing
    <3>2. i \in 1..(n + 1)
      BY <1>1
    <3>. QED
      BY <1>2, <3>1, <3>2
  <2>. QED
    BY <2>1, <2>2
<1>5. ASSUME NEW i \in 1..(n + 1), NEW j \in 1..(n + 1), i < j
      PROVE  <<t[i], t[j]>> \in R
  <2>1. i \in 1..n
    BY <1>1, <1>5
  <2>2. CASE j = n + 1
    BY <1>1, <1>2, <2>1, <2>2
  <2>3. CASE j \in 1..n
    BY <1>2, <1>5, <2>1, <2>3 DEF Listing
  <2>. QED
    BY <1>3, <2>2, <2>3
<1>6. Listing(t, S \cup {p}, R)
  <2> HIDE DEF t, n
  <2>. QED
    BY <1>2, <1>4, <1>5 DEF Listing
<1>. QED
  BY <1>6

\* g[n] is what Among takes from the first n of the list.
Filters(g, S, list) ==
  g = [n \in 0..Len(list) |->
         IF n = 0 THEN <<>>
         ELSE IF list[n] \in S THEN Append(g[n - 1], list[n]) ELSE g[n - 1]]

LEMMA FilterExists ==
  ASSUME NEW S, NEW list, Len(list) \in Nat
  PROVE  \E g : Filters(g, S, list)
<1> DEFINE next(f, i) == IF i = 0 THEN <<>>
                         ELSE IF list[i] \in S THEN Append(f[i - 1], list[i]) ELSE f[i - 1]
           made(g, k) == g = [i \in 0..k |-> next(g, i)]
           bad == {k \in Nat : ~ \E g : made(g, k)}
<1>1. SUFFICES ASSUME bad # {} PROVE FALSE
  BY DEF Filters
<1>2. PICK k \in bad : \A m \in bad : k <= m
  <2>1. bad \subseteq Nat
    OBVIOUS
  <2> HIDE DEF bad
  <2>. QED
    BY <1>1, <2>1, LeastElement
<1>3. CASE k = 0
  <2> DEFINE g == [i \in 0..0 |-> <<>>]
  <2>1. g = [i \in 0..0 |-> next(g, i)]
    OBVIOUS
  <2>2. made(g, k)
    BY <1>3, <2>1
  <2>. QED
    BY <1>2, <2>2
<1>4. CASE k # 0
  <2>1. k \in Nat /\ k - 1 \in Nat /\ k - 1 \notin bad
    <3>1. k \in Nat
      OBVIOUS
    <3> HIDE DEF bad
    <3>. QED
      BY <1>2, <1>4, <3>1
  <2>2. PICK g : made(g, k - 1)
    BY <2>1
  <2> DEFINE h == [i \in 0..k |-> IF i = k THEN next(g, k) ELSE g[i]]
  <2>4. \A i \in 0..k : i = k \/ i \in 0..(k - 1)
    BY <2>1
  <2>5. \A i \in 0..k : i # 0 => i - 1 \in 0..k /\ i - 1 # k
    BY <2>1
  <2>6. \A i \in 0..k : i # 0 => h[i - 1] = g[i - 1]
    BY <2>5
  <2>7. \A i \in 0..k : next(h, i) = next(g, i)
    BY <2>6
  <2>8. \A i \in 0..(k - 1) : g[i] = next(g, i)
    <3> HIDE DEF next
    <3>. QED
      BY <2>2
  <2>9. \A i \in 0..k : h[i] = next(h, i)
    <3>1. \A i \in 0..k : h[i] = next(g, i)
      BY <2>4, <2>8
    <3> HIDE DEF next, h
    <3>. QED
      BY <3>1, <2>7
  <2>10. made(h, k)
    <3>1. h = [i \in 0..k |-> h[i]]
      OBVIOUS
    <3> HIDE DEF next, h
    <3>. QED
      BY <3>1, <2>9
  <2>. QED
    BY <1>2, <2>10
<1>. QED
  BY <1>3, <1>4

\* A comprehension keeps the order.
LEMMA AmongListing ==
  ASSUME NEW S, NEW R, NEW list, Listing(list, S, R), NEW T
  PROVE  Listing(Among(T, list), S \cap T, R)
<1>1. Len(list) \in Nat /\ \A i \in 1..Len(list) : list[i] \in S
  BY DEF Listing
<1>2. PICK g : Filters(g, T, list) /\ Among(T, list) = g[Len(list)]
  <2>1. \E g : Filters(g, T, list)
    BY <1>1, FilterExists
  <2>2. Among(T, list) = (CHOOSE g : g = [n \in 0..Len(list) |->
          IF n = 0 THEN <<>>
          ELSE IF list[n] \in T THEN Append(g[n - 1], list[n]) ELSE g[n - 1]])[Len(list)]
    BY DEF Among
  <2>. QED
    BY <2>1, <2>2 DEF Filters
<1> DEFINE part(n) == {list[i] : i \in 1..n} \cap T
           bad == {n \in 0..Len(list) : ~Listing(g[n], part(n), R)}
<1>3. /\ g[0] = <<>>
      /\ \A n \in 1..Len(list) :
           g[n] = IF list[n] \in T THEN Append(g[n - 1], list[n]) ELSE g[n - 1]
  <2> DEFINE next(n) == IF n = 0 THEN <<>>
                        ELSE IF list[n] \in T THEN Append(g[n - 1], list[n]) ELSE g[n - 1]
  <2>1. g = [n \in 0..Len(list) |-> next(n)]
    BY <1>2 DEF Filters
  <2>2. \A n \in 0..Len(list) : g[n] = next(n)
    <3> HIDE DEF next
    <3>. QED
      BY <2>1
  <2>3. 0 \in 0..Len(list) /\ \A n \in 1..Len(list) : n \in 0..Len(list) /\ n # 0
    BY <1>1
  <2>. QED
    BY <2>2, <2>3
<1>4. ASSUME bad # {} PROVE FALSE
  <2>1. PICK n \in bad : \A m \in bad : n <= m
    <3>1. bad \subseteq Nat
      OBVIOUS
    <3> HIDE DEF bad
    <3>. QED
      BY <1>4, <3>1, LeastElement
  <2>2. CASE n = 0
    <3>1. part(0) = {}
      OBVIOUS
    <3>2. <<>> \in Seq({}) /\ Len(<<>>) = 0
      OBVIOUS
    <3>3. Listing(<<>>, {}, R)
      BY <3>2 DEF Listing
    <3>. QED
      BY <1>3, <2>1, <2>2, <3>1, <3>3
  <2>3. CASE n # 0
    <3>1. /\ n \in 1..Len(list) /\ n - 1 \in 0..Len(list) /\ n - 1 \notin bad
          /\ 1..n = 1..(n - 1) \cup {n}
      <4>1. n \in 0..Len(list)
        BY <2>1
      <4>2. n - 1 \notin bad
        <5> HIDE DEF bad
        <5>. QED
          BY <1>1, <2>1, <4>1
      <4> HIDE DEF bad
      <4>. QED
        BY <1>1, <2>3, <4>1, <4>2
    <3>2. Listing(g[n - 1], part(n - 1), R)
      BY <3>1
    <3>3. CASE list[n] \in T
      <4>1. \A q \in part(n - 1) : <<q, list[n]>> \in R
        <5>1. \A i \in 1..(n - 1) : i \in 1..Len(list) /\ i < n
          BY <1>1, <3>1
        <5>2. \A i \in 1..Len(list) : i < n => <<list[i], list[n]>> \in R
          BY <3>1 DEF Listing
        <5>. QED
          BY <5>1, <5>2
      <4>2. part(n) = part(n - 1) \cup {list[n]}
        BY <3>1, <3>3
      <4>3. g[n] = Append(g[n - 1], list[n])
        BY <1>3, <3>1, <3>3
      <4>4. Listing(g[n], part(n), R)
        <5> HIDE DEF part
        <5>. QED
          BY <3>2, <4>1, <4>2, <4>3, ListingAppend
      <4>. QED
        BY <2>1, <4>4
    <3>4. CASE list[n] \notin T
      <4>1. part(n) = part(n - 1)
        BY <3>1, <3>4
      <4>2. g[n] = g[n - 1]
        BY <1>3, <3>1, <3>4
      <4>. QED
        BY <2>1, <3>2, <4>1, <4>2
    <3>. QED
      BY <3>3, <3>4
  <2>. QED
    BY <2>2, <2>3
<1>5. part(Len(list)) = S \cap T
  BY <1>1 DEF Listing
<1>6. Len(list) \in 0..Len(list)
  BY <1>1
<1>. QED
  BY <1>2, <1>4, <1>5, <1>6

\* Who stands among the first k: a set of k of the list with nobody left out
\* who comes before one of them.
LEMMA FirstOfListing ==
  ASSUME NEW S, NEW R, Orders(R, S), NEW list, Listing(list, S, R),
         NEW B \in SUBSET S, Cardinality(B) <= Len(list),
         \A p \in B, q \in S \ B : <<p, q>> \in R
  PROVE  B = {list[i] : i \in 1..Cardinality(B)}
<1> DEFINE k == Cardinality(B)
           A == {list[i] : i \in 1..k}
<1>1. /\ Len(list) \in Nat /\ IsFiniteSet(S) /\ IsFiniteSet(B) /\ k \in Nat
      /\ \A i \in 1..Len(list) : list[i] \in S
      /\ \A i, j \in 1..Len(list) : list[i] = list[j] => i = j
  BY ListingDistinct, ListingLength, FS_Subset, FS_CardinalityType
<1>2. \A i \in 1..k : i \in 1..Len(list)
  BY <1>1
<1>3. A \subseteq S /\ IsFiniteSet(A) /\ Cardinality(A) = k
  <2> DEFINE f == [i \in 1..k |-> list[i]]
  <2>1. f \in [1..k -> A] /\ (\A a \in A : \E i \in 1..k : f[i] = a)
    BY <1>2
  <2>2. \A i, j \in 1..k : f[i] = f[j] => i = j
    BY <1>1, <1>2
  <2>3. IsFiniteSet(1..k) /\ Cardinality(1..k) = k
    <3>1. 1 \in Int /\ k \in Int /\ (1 > k => k = 0)
      BY <1>1
    <3>. QED
      BY <1>1, <3>1, FS_Interval
  <2>4. f \in Surjection(1..k, A) /\ f \in Injection(1..k, A)
    <3> HIDE DEF f, A, k
    <3>. QED
      BY <2>1, <2>2 DEF Surjection, Injection, IsInjective
  <2>5. IsFiniteSet(A) /\ Cardinality(A) = k
    <3> HIDE DEF f, A, k
    <3>. QED
      BY <2>3, <2>4, FS_Surjection
  <2>. QED
    BY <1>1, <1>2, <2>5
<1>4. \A a \in A, b \in S \ A : <<a, b>> \in R
  <2> SUFFICES ASSUME NEW i \in 1..k, NEW b \in S \ A
               PROVE  <<list[i], b>> \in R
    OBVIOUS
  <2>1. PICK j \in 1..Len(list) : list[j] = b
    BY DEF Listing
  <2>2. j \notin 1..k
    BY <2>1
  <2>3. i \in 1..Len(list) /\ i < j
    BY <1>1, <1>2, <2>2
  <2>. QED
    BY <2>1, <2>3 DEF Listing
<1>5. A \subseteq B \/ B \subseteq A
  <2> SUFFICES ASSUME NEW a \in A, a \notin B, NEW b \in B, b \notin A
               PROVE  FALSE
    OBVIOUS
  <2>1. <<a, b>> \in R /\ <<b, a>> \in R /\ a \in S /\ b \in S
    BY <1>3, <1>4
  <2>. QED
    BY <2>1 DEF Orders
<1>6. A = B
  <2> HIDE DEF A
  <2>. QED
    BY <1>1, <1>3, <1>5, FS_Subset
<1>. QED
  BY <1>6

-----------------------------------------------------------------------------
(* FlattenSeq of the community modules *)

\* g[i] is the concatenation of the first i of the sequences.
Flattens(g, seqs, n) ==
  g = [i \in 1..n |-> IF i = 1 THEN seqs[i] ELSE g[i - 1] \o seqs[i]]

LEMMA FlattenExists ==
  ASSUME NEW seqs, NEW n \in Nat
  PROVE  \E g : Flattens(g, seqs, n)
<1> DEFINE bad == {k \in Nat : ~ \E g : Flattens(g, seqs, k)}
<1>1. SUFFICES ASSUME bad # {} PROVE FALSE
  OBVIOUS
<1>2. PICK k \in bad : \A m \in bad : k <= m
  <2>1. bad \subseteq Nat
    OBVIOUS
  <2> HIDE DEF bad
  <2>. QED
    BY <1>1, <2>1, LeastElement
<1>3. CASE k = 0
  <2> DEFINE g == [i \in 1..0 |-> 0]
  <2>1. g = [i \in 1..0 |-> IF i = 1 THEN seqs[i] ELSE g[i - 1] \o seqs[i]]
    OBVIOUS
  <2>2. Flattens(g, seqs, k)
    BY <1>3, <2>1 DEF Flattens
  <2>. QED
    BY <1>2, <2>2
<1>4. CASE k # 0
  <2>1. k \in Nat /\ k - 1 \in Nat /\ k - 1 \notin bad
    BY <1>2, <1>4
  <2>2. PICK g : Flattens(g, seqs, k - 1)
    BY <2>1
  <2> DEFINE next(f, i) == IF i = 1 THEN seqs[i] ELSE f[i - 1] \o seqs[i]
             h == [i \in 1..k |-> IF i = k THEN next(g, k) ELSE g[i]]
  <2>3. g = [i \in 1..(k - 1) |-> next(g, i)]
    BY <2>2 DEF Flattens
  <2>4. \A i \in 1..k : i = k \/ i \in 1..(k - 1)
    BY <2>1
  <2>5. \A i \in 1..k : i # 1 => i - 1 \in 1..k /\ i - 1 # k
    BY <2>1
  <2>6. \A i \in 1..k : i # 1 => h[i - 1] = g[i - 1]
    BY <2>5
  <2>7. \A i \in 1..k : next(h, i) = next(g, i)
    BY <2>6
  <2>8. \A i \in 1..(k - 1) : g[i] = next(g, i)
    <3> HIDE DEF next
    <3>. QED
      BY <2>3
  <2>9. \A i \in 1..k : h[i] = next(h, i)
    <3>1. \A i \in 1..k : h[i] = next(g, i)
      BY <2>4, <2>8
    <3> HIDE DEF next, h
    <3>. QED
      BY <3>1, <2>7
  <2>10. h = [i \in 1..k |-> next(h, i)]
    <3>1. h = [i \in 1..k |-> h[i]]
      OBVIOUS
    <3> HIDE DEF next, h
    <3>. QED
      BY <3>1, <2>9
  <2>11. Flattens(h, seqs, k)
    BY <2>10 DEF Flattens
  <2>. QED
    BY <1>2, <2>11
<1>. QED
  BY <1>3, <1>4

\* u holds the entries of s and then those of t.
Joins(u, s, t) ==
  /\ Len(s) \in Nat /\ Len(t) \in Nat /\ Len(u) = Len(s) + Len(t)
  /\ \A i \in 1..Len(s) : i \in 1..Len(u) /\ u[i] = s[i]
  /\ \A i \in 1..Len(t) : Len(s) + i \in 1..Len(u) /\ u[Len(s) + i] = t[i]
  /\ \A i \in 1..Len(u) : i \in 1..Len(s) \/ \E k \in 1..Len(t) : i = Len(s) + k

LEMMA Concatenation ==
  ASSUME NEW S, NEW s \in Seq(S), NEW t \in Seq(S)
  PROVE  s \o t \in Seq(S) /\ Joins(s \o t, s, t)
<1>1. /\ s \o t \in Seq(S)
      /\ Len(s) \in Nat /\ Len(t) \in Nat /\ Len(s \o t) = Len(s) + Len(t)
      /\ \A i \in 1..Len(s) : (s \o t)[i] = s[i]
      /\ \A i \in 1..Len(t) : (s \o t)[Len(s) + i] = t[i]
  OBVIOUS
<1>2. \A i \in 1..Len(s \o t) : i \in 1..Len(s) \/ i - Len(s) \in 1..Len(t)
  BY <1>1
<1>3. \A i \in 1..Len(s \o t) : i = Len(s) + (i - Len(s))
  BY <1>1
<1>4. /\ \A i \in 1..Len(s) : i \in 1..Len(s \o t)
      /\ \A i \in 1..Len(t) : Len(s) + i \in 1..Len(s \o t)
  BY <1>1
<1>. QED
  BY <1>1, <1>2, <1>3, <1>4 DEF Joins

\* Nothing stands in the list twice.
Distinct(list) == \A i, j \in 1..Len(list) : list[i] = list[j] => i = j

\* No two of the lists have an entry in common, and none has one twice.
Separate(lists, n) ==
  /\ \A i \in 1..n : Distinct(lists[i])
  /\ \A i, j \in 1..n : \A k \in 1..Len(lists[i]), l \in 1..Len(lists[j]) :
       lists[i][k] = lists[j][l] => i = j

\* flat has the entries of the n lists, and no others, and keeps them apart.
Flat(flat, lists, n) ==
  /\ \A j \in 1..Len(flat) : \E i \in 1..n :
       \E k \in 1..Len(lists[i]) : flat[j] = lists[i][k]
  /\ \A i \in 1..n : \A k \in 1..Len(lists[i]) :
       \E j \in 1..Len(flat) : flat[j] = lists[i][k]
  /\ Separate(lists, n) => Distinct(flat)

LEMMA FlattenEntries ==
  ASSUME NEW S, NEW n, n \in Nat, n >= 1, NEW seqs, seqs \in [1..n -> Seq(S)]
  PROVE  FlattenSeq(seqs) \in Seq(S) /\ Flat(FlattenSeq(seqs), seqs, n)
<1>1. Len(seqs) = n
  <2> DEFINE T == Seq(S)
  <2>1. seqs \in [1..n -> T] /\ n \in Nat
    OBVIOUS
  <2> HIDE DEF T
  <2>. QED
    BY <2>1
<1>2. PICK g : Flattens(g, seqs, n) /\ FlattenSeq(seqs) = g[n]
  <2>1. \E g : Flattens(g, seqs, n)
    BY FlattenExists
  <2>2. FlattenSeq(seqs) = (CHOOSE g : g = [i \in 1..n |-> IF i = 1 THEN seqs[i]
                                                         ELSE g[i - 1] \o seqs[i]])[n]
    BY <1>1 DEF FlattenSeq
  <2>. QED
    BY <2>1, <2>2 DEF Flattens
<1> DEFINE Good(k) ==
      /\ g[k] \in Seq(S)
      /\ \A j \in 1..Len(g[k]) : \E i \in 1..k :
           \E l \in 1..Len(seqs[i]) : g[k][j] = seqs[i][l]
      /\ \A i \in 1..k : \A l \in 1..Len(seqs[i]) :
           \E j \in 1..Len(g[k]) : g[k][j] = seqs[i][l]
      /\ Separate(seqs, n) => Distinct(g[k])
    bad == {k \in 1..n : ~Good(k)}
<1>3. /\ g[1] = seqs[1]
      /\ \A k \in 1..n : k # 1 => k - 1 \in 1..n /\ g[k] = g[k - 1] \o seqs[k]
  <2> DEFINE next(k) == IF k = 1 THEN seqs[k] ELSE g[k - 1] \o seqs[k]
  <2>1. g = [k \in 1..n |-> next(k)]
    BY <1>2 DEF Flattens
  <2>2. \A k \in 1..n : g[k] = next(k)
    <3> HIDE DEF next
    <3>. QED
      BY <2>1
  <2>3. 1 \in 1..n /\ \A k \in 1..n : k # 1 => k - 1 \in 1..n
    OBVIOUS
  <2> HIDE DEF bad, Good
  <2>. QED
    BY <2>2, <2>3
<1>4. ASSUME bad # {} PROVE FALSE
  <2>1. bad \subseteq Nat
    OBVIOUS
  <2>2. PICK k \in bad : \A m \in bad : k <= m
    <3> HIDE DEF bad
    <3>. QED
      BY <1>4, <2>1, LeastElement
  <2>3. k \in 1..n /\ ~Good(k)
    OBVIOUS
  <2>4. CASE k = 1
    <3>1. g[k] = seqs[k] /\ k \in 1..k /\ seqs[k] \in Seq(S) /\ \A i \in 1..k : i = k
      BY <1>3, <2>4
    <3>2. Separate(seqs, n) => Distinct(g[k])
      BY <2>3, <3>1 DEF Separate
    <3>3. Good(k)
      BY <3>1, <3>2
    <3>. QED
      BY <2>3, <3>3
  <2>5. CASE k # 1
    <3> DEFINE m == k - 1
    <3>1. m \in 1..n /\ g[k] = g[m] \o seqs[k] /\ seqs[k] \in Seq(S)
      BY <1>3, <2>3, <2>5
    <3>2. m \notin bad
      <4>1. ~(k <= m)
        BY <2>3
      <4> HIDE DEF bad, Good, m
      <4>. QED
        BY <2>2, <4>1
    <3>3. Good(m)
      BY <3>1, <3>2
    <3>4. \A i \in 1..k : i = k \/ i \in 1..m
      BY <2>3
    <3>5. (\A i \in 1..m : i \in 1..k) /\ k \in 1..k
      BY <2>3
    <3> HIDE DEF m, bad, Good
    <3>6. g[k] \in Seq(S) /\ Joins(g[k], g[m], seqs[k])
      <4>1. g[m] \in Seq(S)
        BY <3>3 DEF Good
      <4>2. \A s, t \in Seq(S) : s \o t \in Seq(S) /\ Joins(s \o t, s, t)
        BY Concatenation
      <4>. QED
        BY <3>1, <4>1, <4>2
    <3>7. ASSUME NEW j \in 1..Len(g[k])
          PROVE  \E i \in 1..k : \E l \in 1..Len(seqs[i]) : g[k][j] = seqs[i][l]
      <4>1. CASE j \in 1..Len(g[m])
        <5>1. g[k][j] = g[m][j]
          BY <3>6, <4>1 DEF Joins
        <5>2. PICK i \in 1..m : \E l \in 1..Len(seqs[i]) : g[m][j] = seqs[i][l]
          BY <3>3, <4>1 DEF Good
        <5>3. i \in 1..k /\ \E l \in 1..Len(seqs[i]) : g[k][j] = seqs[i][l]
          BY <3>5, <5>1, <5>2
        <5>. QED
          BY <5>3
      <4>2. CASE \E l \in 1..Len(seqs[k]) : j = Len(g[m]) + l
        <5>1. PICK l \in 1..Len(seqs[k]) : j = Len(g[m]) + l
          BY <4>2
        <5>2. g[k][j] = seqs[k][l]
          BY <3>6, <5>1 DEF Joins
        <5>. QED
          BY <3>5, <5>2
      <4>. QED
        BY <3>6, <4>1, <4>2 DEF Joins
    <3>8. ASSUME NEW i \in 1..k, NEW l \in 1..Len(seqs[i])
          PROVE  \E j \in 1..Len(g[k]) : g[k][j] = seqs[i][l]
      <4>1. CASE i = k
        BY <3>6, <4>1 DEF Joins
      <4>2. CASE i \in 1..m
        <5>1. PICK j \in 1..Len(g[m]) : g[m][j] = seqs[i][l]
          BY <3>3, <4>2 DEF Good
        <5>. QED
          BY <3>6, <5>1 DEF Joins
      <4>. QED
        BY <3>4, <4>1, <4>2
    <3>9. Separate(seqs, n) => Distinct(g[k])
      <4> SUFFICES ASSUME Separate(seqs, n),
                          NEW i \in 1..Len(g[k]), NEW j \in 1..Len(g[k]), g[k][i] = g[k][j]
                   PROVE  i = j
        BY DEF Distinct
      <4>1. Distinct(g[m]) /\ Distinct(seqs[k])
        BY <2>3, <3>3 DEF Good, Separate
      <4>2. \A a \in 1..Len(g[m]), b \in 1..Len(seqs[k]) : g[m][a] # seqs[k][b]
        <5> SUFFICES ASSUME NEW a \in 1..Len(g[m]), NEW b \in 1..Len(seqs[k]),
                            g[m][a] = seqs[k][b]
                     PROVE  FALSE
          OBVIOUS
        <5>1. PICK h \in 1..m : \E l \in 1..Len(seqs[h]) : g[m][a] = seqs[h][l]
          BY <3>3 DEF Good
        <5>2. \A x \in 1..(k - 1) : x \in 1..n /\ x # k
          BY <2>3
        <5>3. h \in 1..n /\ h # k
          BY <5>2 DEF m
        <5>. QED
          BY <2>3, <5>1, <5>3 DEF Separate
      <4>3. CASE i \in 1..Len(g[m]) /\ j \in 1..Len(g[m])
        BY <3>6, <4>1, <4>3 DEF Joins, Distinct
      <4>4. ASSUME NEW a \in 1..Len(seqs[k]), i = Len(g[m]) + a,
                   NEW b \in 1..Len(seqs[k]), j = Len(g[m]) + b
            PROVE  i = j
        <5>1. g[k][i] = seqs[k][a] /\ g[k][j] = seqs[k][b]
          BY <3>6, <4>4 DEF Joins
        <5>2. a = b
          BY <4>1, <5>1 DEF Distinct
        <5>. QED
          BY <4>4, <5>2
      <4>5. ASSUME NEW a \in 1..Len(g[m]), NEW b \in 1..Len(seqs[k]),
                   \/ i = a /\ j = Len(g[m]) + b
                   \/ j = a /\ i = Len(g[m]) + b
            PROVE  FALSE
        <5>1. g[k][a] = g[m][a] /\ g[k][Len(g[m]) + b] = seqs[k][b]
          BY <3>6 DEF Joins
        <5>2. g[m][a] = seqs[k][b]
          BY <4>5, <5>1
        <5>. QED
          BY <4>2, <5>2
      <4>6. /\ i \in 1..Len(g[m]) \/ \E a \in 1..Len(seqs[k]) : i = Len(g[m]) + a
            /\ j \in 1..Len(g[m]) \/ \E b \in 1..Len(seqs[k]) : j = Len(g[m]) + b
        BY <3>6 DEF Joins
      <4>. QED
        BY <4>3, <4>4, <4>5, <4>6
    <3>10. Good(k)
      BY <3>6, <3>7, <3>8, <3>9 DEF Good
    <3>. QED
      BY <2>3, <3>10
  <2>. QED
    BY <2>4, <2>5
<1>5. Good(n)
  <2>1. n \in 1..n
    OBVIOUS
  <2> HIDE DEF Good
  <2>. QED
    BY <1>4, <2>1
<1>. QED
  BY <1>2, <1>5 DEF Flat

\* The list has the members of S, each once.
Enumerates(list, S) ==
  /\ list \in Seq(S)
  /\ \A x \in S : \E i \in 1..Len(list) : list[i] = x
  /\ Distinct(list)

\* What is made of the members of a listing, one thing of each.
LEMMA MadeOfListing ==
  ASSUME NEW S, NEW R, Orders(R, S), NEW order, Listing(order, S, R),
         NEW f, \A p, q \in S : f[p] = f[q] => p = q,
         NEW list, list = [i \in 1..Len(order) |-> f[order[i]]]
  PROVE  Enumerates(list, {f[p] : p \in S})
<1> DEFINE T == {f[p] : p \in S}
<1>1. /\ Len(order) \in Nat
      /\ \A i \in 1..Len(order) : order[i] \in S
      /\ \A i, j \in 1..Len(order) : order[i] = order[j] => i = j
      /\ \A x \in S : \E i \in 1..Len(order) : order[i] = x
  BY ListingDistinct DEF Listing
<1>2. \A i \in 1..Len(order) : list[i] = f[order[i]] /\ list[i] \in T
  BY <1>1
<1>3. list \in Seq(T) /\ Len(list) = Len(order)
  <2> HIDE DEF T
  <2>1. list \in [1..Len(order) -> T]
    BY <1>2
  <2>. QED
    BY <1>1, <2>1
<1>4. \A x \in T : \E i \in 1..Len(list) : list[i] = x
  <2> TAKE x \in T
  <2>1. PICK p \in S : x = f[p]
    OBVIOUS
  <2>2. PICK i \in 1..Len(order) : order[i] = p
    BY <1>1
  <2>. QED
    BY <1>2, <1>3, <2>1, <2>2
<1>5. Distinct(list)
  <2> SUFFICES ASSUME NEW i \in 1..Len(order), NEW j \in 1..Len(order), list[i] = list[j]
               PROVE  i = j
    BY <1>3 DEF Distinct
  <2>1. f[order[i]] = f[order[j]] /\ order[i] \in S /\ order[j] \in S
    BY <1>1, <1>2
  <2>2. order[i] = order[j]
    BY <2>1
  <2>. QED
    BY <1>1, <2>2
<1>. QED
  BY <1>3, <1>4, <1>5 DEF Enumerates

\* Lists with nothing in common, put together.
LEMMA FlattenEnumerates ==
  ASSUME NEW n, n \in Nat, n >= 1, NEW E, NEW lists, lists = [i \in 1..n |-> lists[i]],
         \A i \in 1..n : Enumerates(lists[i], E[i]),
         \A i, j \in 1..n : i # j => E[i] \cap E[j] = {}
  PROVE  Enumerates(FlattenSeq(lists), UNION {E[i] : i \in 1..n})
<1> DEFINE U == UNION {E[i] : i \in 1..n}
           flat == FlattenSeq(lists)
<1>1. \A i \in 1..n : lists[i] \in Seq(U)
  <2> TAKE i \in 1..n
  <2>1. lists[i] \in Seq(E[i]) /\ E[i] \subseteq U
    BY DEF Enumerates
  <2> HIDE DEF U
  <2>. QED
    BY <2>1
<1>2. lists \in [1..n -> Seq(U)]
  <2> DEFINE T == Seq(U)
  <2>1. \A i \in 1..n : lists[i] \in T
    BY <1>1
  <2> HIDE DEF T, U
  <2>2. lists \in [1..n -> T]
    BY <2>1
  <2>. QED
    BY <2>2 DEF T
<1>3. flat \in Seq(U) /\ Flat(flat, lists, n)
  <2> HIDE DEF U
  <2>. QED
    BY <1>2, FlattenEntries
<1>4. \A i \in 1..n : /\ \A k \in 1..Len(lists[i]) : lists[i][k] \in E[i]
                      /\ \A x \in E[i] : \E k \in 1..Len(lists[i]) : lists[i][k] = x
                      /\ Distinct(lists[i])
  BY DEF Enumerates
<1>5. Separate(lists, n)
  BY <1>4 DEF Separate
<1>6. \A x \in U : \E j \in 1..Len(flat) : flat[j] = x
  <2> TAKE x \in U
  <2>1. PICK i \in 1..n : x \in E[i]
    OBVIOUS
  <2>2. PICK k \in 1..Len(lists[i]) : lists[i][k] = x
    BY <1>4, <2>1
  <2> HIDE DEF flat, U
  <2>. QED
    BY <1>3, <2>2 DEF Flat
<1> HIDE DEF flat, U
<1>7. Enumerates(flat, U)
  BY <1>3, <1>5, <1>6 DEF Enumerates, Flat
<1>. QED
  BY <1>7 DEF flat, U

LEMMA NoneEnumerated == Enumerates(<<>>, {})
  BY DEF Enumerates, Distinct

LEMMA OneEnumerated ==
  ASSUME NEW x
  PROVE  Enumerates(<<x>>, {x})
<1>1. <<x>> \in Seq({x}) /\ Len(<<x>>) = 1 /\ <<x>>[1] = x
  OBVIOUS
<1>. QED
  BY <1>1 DEF Enumerates, Distinct

LEMMA BothEnumerated ==
  ASSUME NEW s, NEW A, Enumerates(s, A), NEW t, NEW B, Enumerates(t, B), A \cap B = {}
  PROVE  Enumerates(s \o t, A \cup B)
<1>1. PICK U, list : U = A \cup B /\ list = s \o t
  OBVIOUS
<1>2. s \in Seq(U) /\ t \in Seq(U)
  BY <1>1 DEF Enumerates
<1>3. list \in Seq(U) /\ Joins(list, s, t)
  BY <1>1, <1>2, Concatenation
<1>4. /\ \A i \in 1..Len(s) : s[i] \in A
      /\ \A i \in 1..Len(t) : t[i] \in B
      /\ Len(s) \in Nat /\ Len(t) \in Nat
  BY DEF Enumerates
<1>5. ASSUME NEW x \in U PROVE \E i \in 1..Len(list) : list[i] = x
  <2>1. CASE x \in A
    BY <1>3, <2>1 DEF Enumerates, Joins
  <2>2. CASE x \in B
    <3>1. PICK k \in 1..Len(t) : t[k] = x
      BY <2>2 DEF Enumerates
    <3>. QED
      BY <1>3, <3>1 DEF Joins
  <2>. QED
    BY <1>1, <2>1, <2>2
<1>6. ASSUME NEW i \in 1..Len(list), NEW j \in 1..Len(list), list[i] = list[j]
      PROVE  i = j
  <2>1. CASE i \in 1..Len(s) /\ j \in 1..Len(s)
    BY <1>3, <1>6, <2>1 DEF Enumerates, Distinct, Joins
  <2>2. ASSUME NEW k \in 1..Len(t), i = Len(s) + k, j \in 1..Len(s)
        PROVE  FALSE
    BY <1>3, <1>4, <1>6, <2>2 DEF Joins
  <2>3. ASSUME NEW k \in 1..Len(t), j = Len(s) + k, i \in 1..Len(s)
        PROVE  FALSE
    BY <1>3, <1>4, <1>6, <2>3 DEF Joins
  <2>4. ASSUME NEW k \in 1..Len(t), i = Len(s) + k, NEW l \in 1..Len(t), j = Len(s) + l
        PROVE  i = j
    BY <1>3, <1>6, <2>4 DEF Enumerates, Distinct, Joins
  <2>5. /\ i \in 1..Len(s) \/ \E k \in 1..Len(t) : i = Len(s) + k
        /\ j \in 1..Len(s) \/ \E k \in 1..Len(t) : j = Len(s) + k
    BY <1>3 DEF Joins
  <2>. QED
    BY <2>1, <2>2, <2>3, <2>4, <2>5
<1>. QED
  BY <1>1, <1>3, <1>5, <1>6 DEF Enumerates, Distinct

\* A set of numbers that each one brings the next into.
LEMMA UpTo ==
  ASSUME NEW n \in Nat, NEW G, 0 \in G, \A k \in 1..n : k - 1 \in G => k \in G
  PROVE  n \in G
<1> DEFINE bad == {k \in 0..n : k \notin G}
<1>1. SUFFICES ASSUME bad # {} PROVE FALSE
  OBVIOUS
<1>2. PICK k \in bad : \A m \in bad : k <= m
  <2>1. bad \subseteq Nat
    OBVIOUS
  <2> HIDE DEF bad
  <2>. QED
    BY <1>1, <2>1, LeastElement
<1>3. k \in 0..n /\ k \notin G /\ k # 0
  OBVIOUS
<1>4. k \in 1..n /\ k - 1 \in 0..n /\ ~(k <= k - 1)
  BY <1>3
<1>5. k - 1 \notin bad
  <2> HIDE DEF bad
  <2>. QED
    BY <1>2, <1>4
<1>. QED
  BY <1>3, <1>4, <1>5

-----------------------------------------------------------------------------
(* Sums: what SumFunction of the community modules computes *)

Pick(s) == CHOOSE x \in s : TRUE

\* g gives the sum of f over each subset of S.
SumsUp(g, f, S) ==
  g = [s \in SUBSET S |-> IF s = {} THEN 0 ELSE f[Pick(s)] + g[s \ {Pick(s)}]]

LEMMA PickInside == \A s : s # {} => Pick(s) \in s
  BY DEF Pick

LEMMA SumsUpEquation ==
  ASSUME NEW f, NEW S, NEW g, SumsUp(g, f, S), NEW s \in SUBSET S
  PROVE  /\ s = {} => g[s] = 0
         /\ s # {} => g[s] = f[Pick(s)] + g[s \ {Pick(s)}]
<1> DEFINE value(x) == IF x = {} THEN 0 ELSE f[Pick(x)] + g[x \ {Pick(x)}]
<1>1. g = [x \in SUBSET S |-> value(x)]
  BY DEF SumsUp
<1>2. g[s] = value(s)
  <2> HIDE DEF value
  <2>. QED
    BY <1>1
<1>. QED
  BY <1>2

LEMMA SumsUpUnique ==
  ASSUME NEW f, NEW S, NEW T, IsFiniteSet(T), S \subseteq T,
         NEW g, SumsUp(g, f, S), NEW h, SumsUp(h, f, T)
  PROVE  \A s \in SUBSET S : g[s] = h[s]
<1> DEFINE differ == {s \in SUBSET S : g[s] # h[s]}
<1> SUFFICES ASSUME differ # {} PROVE FALSE
  OBVIOUS
<1>1. IsFiniteSet(S) /\ differ \subseteq SUBSET S
  BY FS_Subset
<1>2. PICK s \in differ : \A Y \in SUBSET s : Y # s => Y \notin differ
  <2> HIDE DEF differ
  <2>. QED
    BY <1>1, LeastSubset
<1>3. s # {}
  BY SumsUpEquation
<1>4. s \ {Pick(s)} \in SUBSET s /\ s \ {Pick(s)} # s
  BY <1>3, PickInside
<1>5. g[s \ {Pick(s)}] = h[s \ {Pick(s)}]
  BY <1>2, <1>4
<1>. QED
  BY <1>3, <1>5, SumsUpEquation

LEMMA SumsUpExists ==
  ASSUME NEW f, NEW S, IsFiniteSet(S)
  PROVE  \E g : SumsUp(g, f, S)
<1> DEFINE bad == {T \in SUBSET S : ~ \E g : SumsUp(g, f, T)}
<1> SUFFICES ASSUME bad # {} PROVE FALSE
  OBVIOUS
<1>1. PICK X \in bad : \A Y \in SUBSET X : Y # X => Y \notin bad
  <2>1. bad \subseteq SUBSET S
    OBVIOUS
  <2> HIDE DEF bad
  <2>. QED
    BY <2>1, LeastSubset
<1> DEFINE G(Y) == CHOOSE g : SumsUp(g, f, Y)
           V(Y) == IF Y = {} THEN 0 ELSE f[Pick(Y)] + G(Y \ {Pick(Y)})[Y \ {Pick(Y)}]
           h == [Y \in SUBSET X |-> V(Y)]
<1>2. \A Y \in SUBSET X : Y # X => SumsUp(G(Y), f, Y)
  <2> TAKE Y \in SUBSET X
  <2> HAVE Y # X
  <2>1. \E g : SumsUp(g, f, Y)
    BY <1>1
  <2>. QED
    BY <2>1
<1>3. ASSUME NEW Z \in SUBSET X, Z # X
      PROVE  V(Z) = G(Z)[Z]
  <2>1. SumsUp(G(Z), f, Z) /\ Z \in SUBSET Z
    BY <1>2, <1>3
  <2>2. CASE Z = {}
    <3> HIDE DEF G
    <3>. QED
      BY <2>1, <2>2, SumsUpEquation
  <2>3. CASE Z # {}
    <3> DEFINE W == Z \ {Pick(Z)}
    <3>1. W \in SUBSET X /\ W # X /\ W \in SUBSET Z
      BY <1>3, <2>3, PickInside
    <3>2. SumsUp(G(W), f, W) /\ IsFiniteSet(Z)
      BY <1>2, <3>1, FS_Subset
    <3>3. G(Z)[Z] = f[Pick(Z)] + G(Z)[W]
      <4> HIDE DEF G
      <4>. QED
        BY <2>1, <2>3, SumsUpEquation
    <3>4. G(W)[W] = G(Z)[W]
      <4> HIDE DEF G
      <4>. QED
        BY <2>1, <3>1, <3>2, SumsUpUnique
    <3>. QED
      BY <2>3, <3>3, <3>4
  <2>. QED
    BY <2>2, <2>3
<1>4. \A Y \in SUBSET X : Y # {} => V(Y \ {Pick(Y)}) = G(Y \ {Pick(Y)})[Y \ {Pick(Y)}]
  <2> TAKE Y \in SUBSET X
  <2> HAVE Y # {}
  <2>1. Y \ {Pick(Y)} \in SUBSET X /\ Y \ {Pick(Y)} # X
    BY PickInside
  <2> HIDE DEF V, G
  <2>. QED
    BY <1>3, <2>1
<1>5. SumsUp(h, f, X)
  <2>1. \A Y \in SUBSET X : h[Y] = V(Y)
    <3> HIDE DEF V
    <3>. QED
      OBVIOUS
  <2>2. \A Y \in SUBSET X :
          V(Y) = IF Y = {} THEN 0 ELSE f[Pick(Y)] + h[Y \ {Pick(Y)}]
    <3> TAKE Y \in SUBSET X
    <3>1. Y \ {Pick(Y)} \in SUBSET X
      OBVIOUS
    <3>2. h[Y \ {Pick(Y)}] = V(Y \ {Pick(Y)})
      <4> HIDE DEF h, V
      <4>. QED
        BY <2>1, <3>1
    <3>3. CASE Y = {}
      BY <3>3
    <3>4. CASE Y # {}
      <4>1. h[Y \ {Pick(Y)}] = G(Y \ {Pick(Y)})[Y \ {Pick(Y)}]
        <5> HIDE DEF V, G, h
        <5>. QED
          BY <1>4, <3>2, <3>4
      <4>. QED
        <5> HIDE DEF G, h
        <5>. QED
          BY <3>4, <4>1
    <3>. QED
      BY <3>3, <3>4
  <2>3. h = [Y \in SUBSET X |-> IF Y = {} THEN 0 ELSE f[Pick(Y)] + h[Y \ {Pick(Y)}]]
    <3> DEFINE W(Y) == IF Y = {} THEN 0 ELSE f[Pick(Y)] + h[Y \ {Pick(Y)}]
    <3>1. \A Y \in SUBSET X : V(Y) = W(Y)
      BY <2>2
    <3>2. h = [Y \in SUBSET X |-> W(Y)]
      <4> HIDE DEF V, W
      <4>. QED
        BY <3>1
    <3>. QED
      BY <3>2
  <2>. QED
    <3> HIDE DEF h
    <3>. QED
      BY <2>3 DEF SumsUp
<1>. QED
  BY <1>1, <1>5

LEMMA TotalSumsUp ==
  ASSUME NEW f, IsFiniteSet(DOMAIN f)
  PROVE  \E g : SumsUp(g, f, DOMAIN f) /\ Total(f) = g[DOMAIN f]
<1> DEFINE g == CHOOSE g : g = [s \in SUBSET DOMAIN f |->
                     IF s = {} THEN 0
                     ELSE f[CHOOSE x \in s : TRUE] + g[s \ {CHOOSE x \in s : TRUE}]]
<1>1. SumsUp(g, f, DOMAIN f)
  <2>1. \E k : SumsUp(k, f, DOMAIN f)
    BY SumsUpExists
  <2>. QED
    BY <2>1 DEF SumsUp, Pick
<1>2. Total(f) = g[DOMAIN f]
  BY DEF Total, SumFunction, SumFunctionOnSet, FoldFunctionOnSet, MapThenFoldSet
<1>. QED
  BY <1>1, <1>2

LEMMA TotalNat ==
  ASSUME NEW f, IsFiniteSet(DOMAIN f), \A x \in DOMAIN f : f[x] \in Nat
  PROVE  /\ Total(f) \in Nat
         /\ DOMAIN f # {} /\ (\A x \in DOMAIN f : f[x] > 0) => Total(f) > 0
         /\ (\A x \in DOMAIN f : f[x] = 0) => Total(f) = 0
<1>1. PICK g : SumsUp(g, f, DOMAIN f) /\ Total(f) = g[DOMAIN f]
  BY TotalSumsUp
<1> DEFINE bad == {s \in SUBSET DOMAIN f :
                     ~ /\ g[s] \in Nat
                       /\ (\A x \in s : f[x] = 0) => g[s] = 0}
<1>2. ASSUME bad # {} PROVE FALSE
  <2>1. bad \subseteq SUBSET DOMAIN f
    OBVIOUS
  <2>2. PICK s \in bad : \A t \in SUBSET s : t # s => t \notin bad
    <3> HIDE DEF bad
    <3>. QED
      BY <1>2, <2>1, LeastSubset
  <2>3. CASE s = {}
    <3>1. g[s] = 0
      BY <1>1, <2>3, SumsUpEquation
    <3>. QED
      BY <3>1
  <2>4. CASE s # {}
    <3>1. Pick(s) \in s /\ s \ {Pick(s)} # s
      BY <2>4, PickInside
    <3>2. /\ g[s \ {Pick(s)}] \in Nat
          /\ (\A x \in s : f[x] = 0) => g[s \ {Pick(s)}] = 0
      BY <2>2, <3>1
    <3>3. g[s] = f[Pick(s)] + g[s \ {Pick(s)}] /\ f[Pick(s)] \in Nat
      BY <1>1, <2>4, <3>1, SumsUpEquation
    <3>. QED
      BY <3>1, <3>2, <3>3
  <2>. QED
    BY <2>3, <2>4
<1>3. \A s \in SUBSET DOMAIN f : /\ g[s] \in Nat
                                 /\ (\A x \in s : f[x] = 0) => g[s] = 0
  BY <1>2
<1>4. ASSUME DOMAIN f # {}, \A x \in DOMAIN f : f[x] > 0
      PROVE  g[DOMAIN f] > 0
  <2> DEFINE D == DOMAIN f
  <2>1. Pick(D) \in D /\ f[Pick(D)] \in Nat /\ f[Pick(D)] > 0
    BY <1>4, PickInside
  <2>2. g[D] = f[Pick(D)] + g[D \ {Pick(D)}]
    BY <1>1, <1>4, SumsUpEquation
  <2>3. g[D \ {Pick(D)}] \in Nat
    BY <1>3
  <2>. QED
    BY <2>1, <2>2, <2>3
<1>. QED
  BY <1>1, <1>3, <1>4

LEMMA TotalAdds ==
  ASSUME NEW D, IsFiniteSet(D),
         NEW a, NEW b, NEW c, DOMAIN a = D, DOMAIN b = D, DOMAIN c = D,
         \A x \in D : a[x] \in Int /\ b[x] \in Int /\ c[x] = a[x] + b[x]
  PROVE  Total(c) = Total(a) + Total(b)
<1>1. PICK g : SumsUp(g, a, D) /\ Total(a) = g[D]
  BY TotalSumsUp
<1>2. PICK h : SumsUp(h, b, D) /\ Total(b) = h[D]
  BY TotalSumsUp
<1>3. PICK k : SumsUp(k, c, D) /\ Total(c) = k[D]
  BY TotalSumsUp
<1>4. \A s \in SUBSET D : (s = {} => g[s] = 0) /\ (s # {} => g[s] = a[Pick(s)] + g[s \ {Pick(s)}])
  BY <1>1, SumsUpEquation
<1>5. \A s \in SUBSET D : (s = {} => h[s] = 0) /\ (s # {} => h[s] = b[Pick(s)] + h[s \ {Pick(s)}])
  BY <1>2, SumsUpEquation
<1>6. \A s \in SUBSET D : (s = {} => k[s] = 0) /\ (s # {} => k[s] = c[Pick(s)] + k[s \ {Pick(s)}])
  BY <1>3, SumsUpEquation
<1> DEFINE bad == {s \in SUBSET D :
                     ~ /\ g[s] \in Int /\ h[s] \in Int
                       /\ k[s] = g[s] + h[s]}
<1>7. ASSUME bad # {} PROVE FALSE
  <2>1. bad \subseteq SUBSET D
    OBVIOUS
  <2>2. PICK s \in bad : \A t \in SUBSET s : t # s => t \notin bad
    <3> HIDE DEF bad
    <3>. QED
      BY <1>7, <2>1, LeastSubset
  <2> DEFINE x == Pick(s)
             t == s \ {x}
  <2>3. /\ s = {} => g[s] = 0 /\ h[s] = 0 /\ k[s] = 0
        /\ s # {} => g[s] = a[x] + g[t] /\ h[s] = b[x] + h[t] /\ k[s] = c[x] + k[t]
    <3>1. s \in SUBSET D
      OBVIOUS
    <3>. QED
      BY <1>4, <1>5, <1>6, <3>1
  <2>4. CASE s # {}
    <3>1. x \in D /\ t \in SUBSET s /\ t # s
      BY <2>4, PickInside
    <3>2. g[t] \in Int /\ h[t] \in Int /\ k[t] = g[t] + h[t]
      BY <2>2, <3>1
    <3>3. a[x] \in Int /\ b[x] \in Int /\ c[x] = a[x] + b[x]
      BY <3>1
    <3>. QED
      <4> HIDE DEF x, t
      <4>. QED
        BY <2>3, <2>4, <3>2, <3>3
  <2>5. CASE s = {}
    BY <2>3, <2>5
  <2>. QED
    BY <2>4, <2>5
<1>. QED
  BY <1>1, <1>2, <1>3, <1>7

-----------------------------------------------------------------------------
(* Least and greatest elements *)

LEMMA GreatestElement ==
  ASSUME NEW S, IsFiniteSet(S), S \subseteq Int, S # {}
  PROVE  \E m \in S : \A n \in S : n <= m
<1> DEFINE downTo(n) == {x \in S : x >= n}
           T == {downTo(n) : n \in S}
<1>1. T \subseteq SUBSET S /\ T # {}
  OBVIOUS
<1>2. PICK X \in T : \A Y \in SUBSET X : Y # X => Y \notin T
  <2> HIDE DEF T
  <2>. QED
    BY <1>1, LeastSubset
<1>3. PICK m \in S : X = downTo(m)
  OBVIOUS
<1>4. ASSUME NEW n \in S, n > m
      PROVE  FALSE
  <2>1. m \in Int /\ n \in Int /\ \A x \in S : x \in Int
    OBVIOUS
  <2>2. \A x \in S : x >= n => x >= m
    BY <1>4, <2>1
  <2>3. m \in downTo(m) /\ m \notin downTo(n)
    BY <1>4, <2>1
  <2>4. downTo(n) \in T /\ downTo(n) \subseteq downTo(m)
    BY <2>2
  <2> HIDE DEF downTo, T
  <2>. QED
    BY <1>2, <1>3, <2>3, <2>4
<1>5. \A n \in S : n <= m
  <2>1. m \in Int /\ \A x \in S : x \in Int
    OBVIOUS
  <2>. QED
    BY <1>4, <2>1
<1>. QED
  BY <1>5

LEMMA LeastOfFinite ==
  ASSUME NEW S, IsFiniteSet(S), S \subseteq Int, S # {}
  PROVE  \E m \in S : \A n \in S : m <= n
<1> DEFINE upTo(n) == {x \in S : x <= n}
           T == {upTo(n) : n \in S}
<1>1. T \subseteq SUBSET S /\ T # {}
  OBVIOUS
<1>2. PICK X \in T : \A Y \in SUBSET X : Y # X => Y \notin T
  <2> HIDE DEF T
  <2>. QED
    BY <1>1, LeastSubset
<1>3. PICK m \in S : X = upTo(m)
  OBVIOUS
<1>4. ASSUME NEW n \in S, n < m
      PROVE  FALSE
  <2>1. m \in Int /\ n \in Int /\ \A x \in S : x \in Int
    OBVIOUS
  <2>2. \A x \in S : x <= n => x <= m
    BY <1>4, <2>1
  <2>3. m \in upTo(m) /\ m \notin upTo(n)
    BY <1>4, <2>1
  <2>4. upTo(n) \in T /\ upTo(n) \subseteq upTo(m)
    BY <2>2
  <2> HIDE DEF upTo, T
  <2>. QED
    BY <1>2, <1>3, <2>3, <2>4
<1>5. \A n \in S : m <= n
  <2>1. m \in Int /\ \A x \in S : x \in Int
    OBVIOUS
  <2>. QED
    BY <1>4, <2>1
<1>. QED
  BY <1>5

LEMMA MaxIsGreatest ==
  ASSUME NEW S, IsFiniteSet(S), S \subseteq Int, S # {}
  PROVE  Max(S) \in S /\ \A n \in S : n <= Max(S)
<1>1. \E m \in S : \A n \in S : m >= n
  BY GreatestElement
<1>. QED
  BY <1>1 DEF Max

-----------------------------------------------------------------------------
(* Order statistics: sorted(values)[k] *)

\* How many of the values are at most v, how many are less.
AtMost(values, v) == {p \in DOMAIN values : values[p] <= v}
Below(values, v) == {p \in DOMAIN values : values[p] < v}

LEMMA CountsOf ==
  ASSUME NEW values, IsFiniteSet(DOMAIN values), NEW v
  PROVE  /\ IsFiniteSet(AtMost(values, v)) /\ Cardinality(AtMost(values, v)) \in Nat
         /\ IsFiniteSet(Below(values, v)) /\ Cardinality(Below(values, v)) \in Nat
         /\ Count(values) \in Nat
         /\ Cardinality(AtMost(values, v)) <= Count(values)
         /\ Cardinality(Below(values, v)) <= Count(values)
<1>1. AtMost(values, v) \in SUBSET DOMAIN values /\ Below(values, v) \in SUBSET DOMAIN values
  BY DEF AtMost, Below
<1>. QED
  BY <1>1, FS_Subset, FS_CardinalityType DEF Count

\* The value at each index of the sorted list is one of the values; at most k
\* of them are less, more than k at most as great.
LEMMA AtSortedIs ==
  ASSUME NEW values, IsFiniteSet(DOMAIN values),
         \A p \in DOMAIN values : values[p] \in Int,
         NEW k \in Nat, k < Count(values)
  PROVE  /\ AtSorted(values, k) \in {values[p] : p \in DOMAIN values}
         /\ AtSorted(values, k) \in Int
         /\ Cardinality(Below(values, AtSorted(values, k))) <= k
         /\ Cardinality(AtMost(values, AtSorted(values, k))) > k
<1> DEFINE S == {values[p] : p \in DOMAIN values}
           enough == {v \in S : Cardinality(AtMost(values, v)) > k}
<1>1. IsFiniteSet(S) /\ S \subseteq Int
  <2> DEFINE f == [p \in DOMAIN values |-> values[p]]
  <2>1. f \in Surjection(DOMAIN values, S)
    BY DEF Surjection
  <2>. QED
    BY <2>1, FS_Surjection
<1>2. IsFiniteSet(enough) /\ enough \subseteq Int
  BY <1>1, FS_Subset
<1>3. enough # {}
  <2>1. DOMAIN values # {}
    BY FS_EmptySet DEF Count
  <2>2. PICK m \in S : \A n \in S : n <= m
    <3>1. S # {}
      BY <2>1
    <3> HIDE DEF S
    <3>. QED
      BY <1>1, <3>1, GreatestElement
  <2>3. AtMost(values, m) = DOMAIN values
    BY <2>2 DEF AtMost
  <2>. QED
    BY <2>2, <2>3 DEF Count
<1>4. PICK v \in enough : \A n \in enough : v <= n
  <2> HIDE DEF enough
  <2>. QED
    BY <1>2, <1>3, LeastOfFinite
<1>5. Cardinality(Below(values, v)) <= k
  <2> SUFFICES ASSUME ~(Cardinality(Below(values, v)) <= k) PROVE FALSE
    OBVIOUS
  <2> DEFINE less == {n \in S : n < v}
  <2>1. Below(values, v) # {} /\ Cardinality(Below(values, v)) > k
    BY CountsOf, FS_EmptySet
  <2>2. less # {} /\ IsFiniteSet(less) /\ less \subseteq Int
    BY <1>1, <2>1, FS_Subset DEF Below
  <2>3. PICK u \in less : \A n \in less : n <= u
    <3> HIDE DEF less
    <3>. QED
      BY <2>2, GreatestElement
  <2>4. u \in Int /\ v \in Int /\ u < v /\ \A p \in DOMAIN values : values[p] \in Int
    BY <1>1
  <2>5. AtMost(values, u) = Below(values, v)
    <3>1. \A p \in DOMAIN values : values[p] < v => values[p] <= u
      BY <2>3
    <3>2. \A p \in DOMAIN values : values[p] <= u => values[p] < v
      BY <2>4
    <3>. QED
      BY <3>1, <3>2 DEF AtMost, Below
  <2>6. u \in enough
    BY <2>1, <2>3, <2>5
  <2>. QED
    BY <1>4, <2>4, <2>6
<1>6. Range(values) = S
  BY DEF Range
<1>7. \E x \in Range(values) :
        /\ Cardinality({p \in DOMAIN values : values[p] < x}) <= k
        /\ Cardinality({p \in DOMAIN values : values[p] <= x}) > k
  BY <1>4, <1>5, <1>6 DEF AtMost, Below
<1>8. /\ AtSorted(values, k) \in Range(values)
      /\ Cardinality({p \in DOMAIN values : values[p] < AtSorted(values, k)}) <= k
      /\ Cardinality({p \in DOMAIN values : values[p] <= AtSorted(values, k)}) > k
  <2> HIDE DEF S, enough
  <2>. QED
    BY <1>7 DEF AtSorted
<1>. QED
  BY <1>1, <1>6, <1>8 DEF AtMost, Below

-----------------------------------------------------------------------------
(* The extremes, the median and P95 *)

\* int(n * 0.95), cut at the last index, is an index of the sorted list, at
\* least 95 percent of its entries stand at it or before, and at most 95
\* percent before it: for lists of any length, one entry included
\* (P95Index, in all three places that compute it).
THEOREM P95Separates ==
  ASSUME NEW n \in Nat, n >= 1
  PROVE  /\ P95Index(n) \in 0..(n - 1)
         /\ 100 * (P95Index(n) + 1) >= 95 * n
         /\ 100 * P95Index(n) <= 95 * n
<1> DEFINE i == (19 * n) \div 20
           two == {i, n - 1}
<1>1. i \in Nat /\ 20 * i <= 19 * n /\ 19 * n < 20 * i + 20
  OBVIOUS
<1>2. \E m \in two : \A x \in two : m <= x
  BY <1>1
<1>3. P95Index(n) \in two /\ \A x \in two : P95Index(n) <= x
  BY <1>2 DEF P95Index, Min
<1>. QED
  BY <1>1, <1>3

\* A list of numbers that is not empty.
Measured(values) ==
  /\ IsFiniteSet(DOMAIN values) /\ DOMAIN values # {}
  /\ \A p \in DOMAIN values : values[p] \in Int

LEMMA CountPositive ==
  ASSUME NEW values, Measured(values)
  PROVE  Count(values) \in Nat /\ Count(values) >= 1
<1>1. Count(values) \in Nat
  BY FS_CardinalityType DEF Measured, Count
<1>2. Count(values) # 0
  BY FS_EmptySet DEF Measured, Count
<1>. QED
  BY <1>1, <1>2

LEMMA RangeOfValues ==
  ASSUME NEW values, Measured(values)
  PROVE  /\ Range(values) = {values[p] : p \in DOMAIN values}
         /\ IsFiniteSet(Range(values)) /\ Range(values) \subseteq Int /\ Range(values) # {}
<1> DEFINE S == {values[p] : p \in DOMAIN values}
           f == [p \in DOMAIN values |-> values[p]]
<1>1. Range(values) = S
  BY DEF Range
<1>2. f \in Surjection(DOMAIN values, S)
  BY DEF Surjection
<1>3. IsFiniteSet(S)
  BY <1>2, FS_Surjection DEF Measured
<1>. QED
  BY <1>1, <1>3 DEF Measured

LEMMA FirstAndLast ==
  ASSUME NEW values, Measured(values)
  PROVE  /\ \A p \in DOMAIN values : AtSorted(values, 0) <= values[p]
         /\ \A p \in DOMAIN values : values[p] <= AtSorted(values, Count(values) - 1)
         /\ AtSorted(values, Count(values) - 1) = Max(Range(values))
<1> DEFINE n == Count(values)
           low == AtSorted(values, 0)
           high == AtSorted(values, n - 1)
<1>1. n \in Nat /\ n >= 1 /\ IsFiniteSet(DOMAIN values)
      /\ \A p \in DOMAIN values : values[p] \in Int
  BY CountPositive DEF Measured
<1>2. low \in Int /\ Cardinality(Below(values, low)) <= 0
  BY <1>1, AtSortedIs
<1>3. Below(values, low) = {}
  BY <1>1, <1>2, CountsOf, FS_EmptySet
<1>4. /\ high \in {values[p] : p \in DOMAIN values} /\ high \in Int
      /\ Cardinality(AtMost(values, high)) > n - 1
  BY <1>1, AtSortedIs
<1>5. AtMost(values, high) = DOMAIN values
  <2>1. AtMost(values, high) \subseteq DOMAIN values
    BY DEF AtMost
  <2>2. Cardinality(AtMost(values, high)) = Cardinality(DOMAIN values)
    BY <1>1, <1>4, CountsOf DEF Count
  <2>. QED
    BY <1>1, <2>1, <2>2, FS_Subset
<1>6. \A p \in DOMAIN values : low <= values[p]
  BY <1>1, <1>2, <1>3 DEF Below
<1>7. \A p \in DOMAIN values : values[p] <= high
  BY <1>5 DEF AtMost
<1>8. high = Max(Range(values))
  <2> DEFINE R == Range(values)
  <2>1. Max(R) \in R /\ \A x \in R : x <= Max(R)
    BY RangeOfValues, MaxIsGreatest
  <2>2. high \in R /\ (\A x \in R : x <= high) /\ \A x \in R : x \in Int
    BY <1>4, <1>7, RangeOfValues
  <2> HIDE DEF R, high
  <2>3. Max(R) \in Int /\ high \in Int /\ Max(R) <= high /\ high <= Max(R)
    BY <2>1, <2>2
  <2>. QED
    BY <2>3 DEF R
<1>. QED
  BY <1>6, <1>7, <1>8

\* At least half of the values lie on either side of the median.
LEMMA MedianSeparates ==
  ASSUME NEW values, Measured(values)
  PROVE  /\ TwiceMedian(values) \in Int
         /\ 2 * Cardinality({p \in DOMAIN values : 2 * values[p] <= TwiceMedian(values)})
              >= Count(values)
         /\ 2 * Cardinality({p \in DOMAIN values : 2 * values[p] >= TwiceMedian(values)})
              >= Count(values)
<1> DEFINE n == Count(values)
           D == DOMAIN values
           h == n \div 2
           b == AtSorted(values, h)
           a == IF n % 2 = 1 THEN b ELSE AtSorted(values, h - 1)
           lower == {p \in D : 2 * values[p] <= a + b}
           upper == {p \in D : 2 * values[p] >= a + b}
<1>1. /\ n \in Nat /\ n >= 1 /\ h \in Nat /\ h < n
      /\ IF n % 2 = 1 THEN n = 2 * h + 1 ELSE n = 2 * h /\ h - 1 \in Nat
  BY CountPositive
<1>2. IsFiniteSet(D) /\ \A p \in D : values[p] \in Int
  BY DEF Measured
<1>3. /\ b \in Int /\ Cardinality(Below(values, b)) <= h
      /\ Cardinality(AtMost(values, b)) > h
  BY <1>1, <1>2, AtSortedIs
<1>4. /\ a \in Int /\ 2 * Cardinality(AtMost(values, a)) >= n /\ a <= b
  <2>1. CASE n % 2 = 1
    <3>1. Cardinality(AtMost(values, b)) \in Nat
      BY <1>2, CountsOf
    <3>. QED
      BY <2>1, <3>1, <1>1, <1>3
  <2>2. CASE n % 2 # 1
    <3>1. /\ h - 1 \in Nat /\ h - 1 < n /\ a = AtSorted(values, h - 1)
      BY <1>1, <2>2
    <3>2. /\ a \in Int /\ Cardinality(Below(values, a)) <= h - 1
          /\ Cardinality(AtMost(values, a)) > h - 1
      BY <1>2, <3>1, AtSortedIs
    <3>3. ASSUME b < a PROVE FALSE
      <4>1. AtMost(values, b) \subseteq Below(values, a)
        <5>1. \A p \in D : values[p] <= b => values[p] < a
          BY <1>2, <1>3, <3>2, <3>3
        <5>. QED
          BY <5>1 DEF AtMost, Below
      <4>2. /\ IsFiniteSet(Below(values, a)) /\ Cardinality(Below(values, a)) \in Nat
            /\ Cardinality(AtMost(values, b)) \in Nat
        BY <1>2, CountsOf
      <4>3. Cardinality(AtMost(values, b)) <= Cardinality(Below(values, a))
        BY <4>1, <4>2, FS_Subset
      <4>. QED
        BY <1>1, <1>3, <3>2, <4>2, <4>3
    <3>4. Cardinality(AtMost(values, a)) \in Nat
      BY <1>2, CountsOf
    <3>5. n = 2 * h
      BY <1>1, <2>2
    <3> HIDE DEF n, h, a, b
    <3>. QED
      BY <1>1, <1>3, <3>2, <3>3, <3>4, <3>5
  <2>. QED
    BY <2>1, <2>2
<1>5. TwiceMedian(values) = a + b
  <2>1. CASE n % 2 = 1
    BY <2>1, <1>3 DEF TwiceMedian
  <2>2. CASE n % 2 # 1
    BY <2>2 DEF TwiceMedian
  <2>. QED
    BY <2>1, <2>2
<1>6. 2 * Cardinality(lower) >= n
  <2>1. AtMost(values, a) \subseteq lower
    <3>1. \A p \in D : values[p] <= a => 2 * values[p] <= a + b
      BY <1>2, <1>3, <1>4
    <3>. QED
      BY <3>1 DEF AtMost
  <2>2. /\ IsFiniteSet(lower) /\ Cardinality(lower) \in Nat
        /\ Cardinality(AtMost(values, a)) <= Cardinality(lower)
        /\ Cardinality(AtMost(values, a)) \in Nat
    BY <1>2, <2>1, FS_Subset, FS_CardinalityType
  <2> HIDE DEF n, h, a, b, lower
  <2>. QED
    BY <1>1, <1>4, <2>2
<1>7. 2 * Cardinality(upper) >= n
  <2>1. D \ Below(values, b) \subseteq upper
    <3>1. \A p \in D : ~(values[p] < b) => 2 * values[p] >= a + b
      BY <1>2, <1>3, <1>4
    <3>. QED
      BY <3>1 DEF Below
  <2>2. Below(values, b) \subseteq D
    BY DEF Below
  <2>3. Cardinality(D \ Below(values, b)) = n - Cardinality(Below(values, b))
    <3>1. D \cap Below(values, b) = Below(values, b)
      BY <2>2
    <3>. QED
      BY <1>2, <3>1, FS_Difference DEF Count
  <2>4. /\ IsFiniteSet(upper) /\ Cardinality(upper) \in Nat
        /\ Cardinality(D \ Below(values, b)) <= Cardinality(upper)
    BY <1>2, <2>1, FS_Subset, FS_CardinalityType
  <2>5. Cardinality(Below(values, b)) \in Nat
    BY <1>2, CountsOf
  <2>6. n = 2 * h \/ n = 2 * h + 1
    BY <1>1
  <2> HIDE DEF n, h, a, b, upper, D
  <2>. QED
    BY <1>1, <1>3, <2>3, <2>4, <2>5, <2>6
<1>. QED
  BY <1>3, <1>4, <1>5, <1>6, <1>7

\* What a TimeStats record says of the values it was computed from
\* (Describes of CommandProps, for any list of values).
StatsDescribe(values) ==
  LET n == Cardinality(DOMAIN values)
      stats == TimeStats(values)
      D == DOMAIN values
  IN  /\ stats.count = n
      /\ \A p \in D : stats.min_value <= values[p] /\ values[p] <= stats.max_value
      /\ {stats.min_value, stats.max_value, stats.p95} \subseteq {values[p] : p \in D}
      /\ 2 * Cardinality({p \in D : 2 * values[p] <= stats.twice_median}) >= n
      /\ 2 * Cardinality({p \in D : 2 * values[p] >= stats.twice_median}) >= n
      /\ 100 * Cardinality({p \in D : values[p] <= stats.p95}) >= 95 * n
      /\ 100 * Cardinality({p \in D : values[p] < stats.p95}) <= 95 * n

LEMMA TimeStatsDescribe ==
  ASSUME NEW values, Measured(values)
  PROVE  StatsDescribe(values)
<1> DEFINE n == Count(values)
           i == P95Index(n)
           high == AtSorted(values, i)
<1>1. n \in Nat /\ n >= 1 /\ IsFiniteSet(DOMAIN values)
      /\ \A p \in DOMAIN values : values[p] \in Int
  BY CountPositive DEF Measured
<1>2. i \in Nat /\ i < n /\ 100 * (i + 1) >= 95 * n /\ 100 * i <= 95 * n
  BY <1>1, P95Separates, SMTT(30)
<1>3. /\ high \in {values[p] : p \in DOMAIN values}
      /\ Cardinality(Below(values, high)) <= i
      /\ Cardinality(AtMost(values, high)) > i
  BY <1>1, <1>2, AtSortedIs
<1>4. /\ 100 * Cardinality(AtMost(values, high)) >= 95 * n
      /\ 100 * Cardinality(Below(values, high)) <= 95 * n
  <2>1. Cardinality(AtMost(values, high)) \in Nat /\ Cardinality(Below(values, high)) \in Nat
    BY <1>1, CountsOf
  <2> HIDE DEF n, i, high
  <2>. QED
    BY <1>1, <1>2, <1>3, <2>1
<1>5. AtSorted(values, 0) \in {values[p] : p \in DOMAIN values}
  BY <1>1, AtSortedIs
<1>6. AtSorted(values, n - 1) \in {values[p] : p \in DOMAIN values}
  BY <1>1, AtSortedIs
<1>7. TimeStats(values).count = n /\ TimeStats(values).min_value = AtSorted(values, 0)
      /\ TimeStats(values).max_value = AtSorted(values, n - 1)
      /\ TimeStats(values).p95 = high
      /\ TimeStats(values).twice_median = TwiceMedian(values)
  BY <1>1 DEF TimeStats
<1> HIDE DEF n, i, high
<1>8. n = Cardinality(DOMAIN values)
  BY DEF n, Count
<1>. QED
  BY <1>3, <1>4, <1>5, <1>6, <1>7, <1>8, FirstAndLast, MedianSeparates
     DEF StatsDescribe, AtMost, Below, n

-----------------------------------------------------------------------------
(* Rankings *)

\* In a strict order of a finite set somebody has nobody before.
LEMMA SomebodyFirst ==
  ASSUME NEW D, IsFiniteSet(D), D # {}, NEW R,
         \A i \in D : <<i, i>> \notin R,
         \A i, j, k \in D : <<i, j>> \in R /\ <<j, k>> \in R => <<i, k>> \in R
  PROVE  \E m \in D : \A i \in D : <<i, m>> \notin R
<1> DEFINE before(j) == {i \in D : <<i, j>> \in R}
           T == {before(j) : j \in D}
<1>1. T \subseteq SUBSET D /\ T # {}
  <2>1. \A j \in D : before(j) \in SUBSET D
    OBVIOUS
  <2> HIDE DEF before
  <2>. QED
    BY <2>1
<1>2. PICK X \in T : \A Y \in SUBSET X : Y # X => Y \notin T
  <2> HIDE DEF T
  <2>. QED
    BY <1>1, LeastSubset
<1>3. PICK m \in D : X = before(m)
  OBVIOUS
<1>4. ASSUME NEW i \in D, <<i, m>> \in R
      PROVE  FALSE
  <2>1. \A k \in D : <<k, i>> \in R => <<k, m>> \in R
    BY <1>4
  <2>2. i \in before(m) /\ i \notin before(i) /\ before(i) \in T
    BY <1>4
  <2>3. before(i) \subseteq before(m)
    BY <2>1
  <2> HIDE DEF before, T
  <2>. QED
    BY <1>2, <1>3, <2>2, <2>3
<1>. QED
  BY <1>4

\* The place of j among the first n names: W holds the pairs that the key
\* decides, and equal keys keep their order.
Place(W, n, j) ==
  Cardinality({i \in 1..n : i # j /\ (<<i, j>> \in W \/ (<<j, i>> \notin W /\ i < j))}) + 1

\* A sort has a first and a last place, and no key is before the first.
LEMMA PlacesTaken ==
  ASSUME NEW n \in Nat, n >= 1, NEW W,
         \A i, j \in 1..n : <<i, j>> \in W => <<j, i>> \notin W,
         \A i, j, k \in 1..n : <<i, j>> \notin W /\ <<j, k>> \notin W => <<i, k>> \notin W
  PROVE  /\ \E j \in 1..n : Place(W, n, j) = 1
         /\ \E j \in 1..n : Place(W, n, j) = n
         /\ \A j \in 1..n : Place(W, n, j) = 1 => \A i \in 1..n : <<i, j>> \notin W
<1> DEFINE D == 1..n
           ahead(i, j) == i # j /\ (<<i, j>> \in W \/ (<<j, i>> \notin W /\ i < j))
           R == {d \in D \X D : ahead(d[1], d[2])}
           Q == {d \in D \X D : ahead(d[2], d[1])}
<1>1. IsFiniteSet(D) /\ D # {} /\ Cardinality(D) = n
  <2>1. IsFiniteSet(D) /\ Cardinality(D) = n
    BY FS_Interval
  <2>2. 1 \in D
    OBVIOUS
  <2>. QED
    BY <2>1, <2>2
<1>2. \A i, j \in D : (<<i, j>> \in R <=> ahead(i, j)) /\ (<<i, j>> \in Q <=> ahead(j, i))
  OBVIOUS
<1>3. \A i \in D : ~ahead(i, i)
  OBVIOUS
<1>4. \A i, j \in D : i # j => ahead(i, j) \/ ahead(j, i)
  <2> TAKE i, j \in D
  <2> HAVE i # j
  <2>1. i < j \/ j < i
    OBVIOUS
  <2>. QED
    BY <2>1
<1>5. ASSUME NEW i \in D, NEW j \in D, NEW k \in D, ahead(i, j), ahead(j, k)
      PROVE  ahead(i, k)
  <2>1. <<j, i>> \notin W /\ <<k, j>> \notin W
    BY <1>5
  <2>2. <<k, i>> \notin W
    BY <2>1
  <2>3. CASE i < j /\ j < k
    BY <2>2, <2>3
  <2>4. CASE <<i, j>> \in W
    <3>1. <<i, k>> \in W
      BY <2>1, <2>4
    <3>. QED
      BY <2>2, <3>1
  <2>5. CASE <<j, k>> \in W
    <3>1. <<i, k>> \in W
      BY <2>1, <2>5
    <3>. QED
      BY <2>2, <3>1
  <2>. QED
    BY <1>5, <2>3, <2>4, <2>5
<1>6. PICK first \in D : \A i \in D : ~ahead(i, first)
  <2>1. /\ \A i \in D : <<i, i>> \notin R
        /\ \A i, j, k \in D : <<i, j>> \in R /\ <<j, k>> \in R => <<i, k>> \in R
    BY <1>2, <1>3, <1>5
  <2>2. \E m \in D : \A i \in D : <<i, m>> \notin R
    <3> HIDE DEF D, R
    <3>. QED
      BY <1>1, <2>1, SomebodyFirst
  <2>. QED
    BY <1>2, <2>2
<1>7. PICK last \in D : \A i \in D : ~ahead(last, i)
  <2>1. /\ \A i \in D : <<i, i>> \notin Q
        /\ \A i, j, k \in D : <<i, j>> \in Q /\ <<j, k>> \in Q => <<i, k>> \in Q
    BY <1>2, <1>3, <1>5
  <2>2. \E m \in D : \A i \in D : <<i, m>> \notin Q
    <3> HIDE DEF D, Q
    <3>. QED
      BY <1>1, <2>1, SomebodyFirst
  <2>. QED
    BY <1>2, <2>2
<1>8. \A j \in D : Place(W, n, j) = Cardinality({i \in D : ahead(i, j)}) + 1
  BY DEF Place
<1>9. Place(W, n, first) = 1
  <2>1. {i \in D : ahead(i, first)} = {}
    BY <1>6
  <2> HIDE DEF ahead
  <2>. QED
    BY <1>8, <2>1, FS_EmptySet
<1>10. Place(W, n, last) = n
  <2>1. {i \in D : ahead(i, last)} = D \ {last}
    BY <1>4, <1>7
  <2>2. Cardinality(D \ {last}) = n - 1
    BY <1>1, FS_RemoveElement
  <2> HIDE DEF ahead
  <2>. QED
    BY <1>8, <2>1, <2>2
<1>11. ASSUME NEW j \in D, Place(W, n, j) = 1, NEW i \in D
       PROVE  <<i, j>> \notin W
  <2> DEFINE A == {x \in D : ahead(x, j)}
  <2>1. IsFiniteSet(A) /\ Cardinality(A) \in Nat
    BY <1>1, FS_Subset, FS_CardinalityType
  <2>2. Cardinality(A) + 1 = 1
    BY <1>8, <1>11
  <2>3. A = {}
    <3> HIDE DEF A
    <3>. QED
      BY <2>1, <2>2, FS_EmptySet
  <2>. QED
    BY <2>3
<1>. QED
  BY <1>9, <1>10, <1>11

-----------------------------------------------------------------------------
(* The times in a result *)

\* What the engine guarantees of the result of a run (ResultsSound in
\* CommandProofs): a time is there from the event on that it is the time of,
\* and the times are in order.
SoundResult(r) ==
  /\ IsFiniteSet(DOMAIN r.status)
  /\ \A p \in DOMAIN r.status :
       /\ r.request_time[p] \in Nat
       /\ r.pickup_time[p] \in Nat \cup {NoTime}
       /\ r.delivery_time[p] \in Nat \cup {NoTime}
       /\ r.pickup_time[p] # NoTime <=> r.status[p] \in {"RIDING", "DELIVERED"}
       /\ r.delivery_time[p] # NoTime <=> r.status[p] = "DELIVERED"
       /\ r.pickup_time[p] # NoTime => r.request_time[p] <= r.pickup_time[p]
       /\ r.delivery_time[p] # NoTime => r.pickup_time[p] < r.delivery_time[p]

Waits(r)   == [p \in Delivered(r) |-> r.pickup_time[p] - r.request_time[p]]
Travels(r) == [p \in Delivered(r) |-> r.delivery_time[p] - r.pickup_time[p]]
Totals(r)  == [p \in Delivered(r) |-> r.delivery_time[p] - r.request_time[p]]

LEMMA DeliveredTimes ==
  ASSUME NEW r, SoundResult(r)
  PROVE  /\ IsFiniteSet(Delivered(r)) /\ Delivered(r) \subseteq Known(r)
         /\ \A p \in Delivered(r) :
              /\ r.pickup_time[p] \in Nat /\ r.delivery_time[p] \in Nat
              /\ WaitTime(r, p) = r.pickup_time[p] - r.request_time[p]
              /\ TravelTime(r, p) = r.delivery_time[p] - r.pickup_time[p]
              /\ TotalTime(r, p) = r.delivery_time[p] - r.request_time[p]
              /\ WaitTime(r, p) \in Nat
              /\ TravelTime(r, p) \in Nat /\ TravelTime(r, p) > 0
              /\ TotalTime(r, p) \in Nat /\ TotalTime(r, p) > 0
              /\ TotalTime(r, p) = WaitTime(r, p) + TravelTime(r, p)
<1>1. Delivered(r) \in SUBSET DOMAIN r.status /\ IsFiniteSet(DOMAIN r.status)
  BY DEF Delivered, Known, SoundResult
<1>2. IsFiniteSet(Delivered(r))
  BY <1>1, FS_Subset
<1>3. ASSUME NEW p \in Delivered(r)
      PROVE  /\ r.pickup_time[p] \in Nat /\ r.delivery_time[p] \in Nat /\ r.request_time[p] \in Nat
             /\ r.request_time[p] <= r.pickup_time[p]
             /\ r.pickup_time[p] < r.delivery_time[p]
  <2>1. p \in DOMAIN r.status /\ r.status[p] = "DELIVERED"
    BY DEF Delivered, Known
  <2>. QED
    BY <2>1 DEF SoundResult
<1>. QED
  BY <1>2, <1>3 DEF WaitTime, TravelTime, TotalTime, NoTime, Delivered

LEMMA ValuesOfDelivered ==
  ASSUME NEW r, SoundResult(r)
  PROVE  /\ Values(r, Delivered(r), WaitTime) = Waits(r)
         /\ Values(r, Delivered(r), TravelTime) = Travels(r)
         /\ Values(r, Delivered(r), TotalTime) = Totals(r)
         /\ Reported(r) = Delivered(r)
<1> USE DeliveredTimes
<1>1. \A p \in Delivered(r) : /\ WaitTime(r, p) # NoTime /\ TravelTime(r, p) # NoTime
                              /\ TotalTime(r, p) # NoTime
  BY DEF NoTime
<1>2. /\ {x \in Delivered(r) : WaitTime(r, x) # NoTime} = Delivered(r)
      /\ {x \in Delivered(r) : TravelTime(r, x) # NoTime} = Delivered(r)
      /\ {x \in Delivered(r) : TotalTime(r, x) # NoTime} = Delivered(r)
  BY <1>1
<1>3. Values(r, Delivered(r), WaitTime) = Waits(r)
  BY <1>2 DEF Values, Waits
<1>4. Values(r, Delivered(r), TravelTime) = Travels(r)
  BY <1>2 DEF Values, Travels
<1>5. Values(r, Delivered(r), TotalTime) = Totals(r)
  BY <1>2 DEF Values, Totals
<1>6. \A p \in Known(r) : TotalTime(r, p) # NoTime => r.status[p] = "DELIVERED"
  BY DEF Known, TotalTime, SoundResult
<1>. QED
  BY <1>1, <1>3, <1>4, <1>5, <1>6 DEF Reported, Delivered

\* Everybody's times, as lists: of the same length, the third the sum of the
\* other two, travel and total times positive.
LEMMA TimesAsLists ==
  ASSUME NEW r, SoundResult(r)
  PROVE  /\ IsFiniteSet(Delivered(r))
         /\ DOMAIN Waits(r) = Delivered(r) /\ DOMAIN Travels(r) = Delivered(r)
         /\ DOMAIN Totals(r) = Delivered(r)
         /\ \A p \in Delivered(r) :
              /\ Waits(r)[p] \in Nat
              /\ Travels(r)[p] \in Nat /\ Travels(r)[p] > 0
              /\ Totals(r)[p] \in Nat /\ Totals(r)[p] > 0
              /\ Totals(r)[p] = Waits(r)[p] + Travels(r)[p]
  BY DeliveredTimes DEF Waits, Travels, Totals

LEMMA SumsOfTimes ==
  ASSUME NEW r, SoundResult(r)
  PROVE  /\ Total(Waits(r)) \in Nat /\ Total(Travels(r)) \in Nat /\ Total(Totals(r)) \in Nat
         /\ Total(Totals(r)) = Total(Waits(r)) + Total(Travels(r))
         /\ Delivered(r) # {} => Total(Totals(r)) > 0
<1>1. Total(Waits(r)) \in Nat
  BY TimesAsLists, TotalNat
<1>2. Total(Travels(r)) \in Nat
  BY TimesAsLists, TotalNat
<1>3. Total(Totals(r)) \in Nat /\ (Delivered(r) # {} => Total(Totals(r)) > 0)
  BY TimesAsLists, TotalNat
<1>4. Total(Totals(r)) = Total(Waits(r)) + Total(Travels(r))
  <2> DEFINE D == Delivered(r)
             a == Waits(r)
             b == Travels(r)
             c == Totals(r)
  <2>1. /\ IsFiniteSet(D) /\ DOMAIN a = D /\ DOMAIN b = D /\ DOMAIN c = D
        /\ \A x \in D : a[x] \in Int /\ b[x] \in Int /\ c[x] = a[x] + b[x]
    BY TimesAsLists
  <2>2. Total(c) = Total(a) + Total(b)
    <3> HIDE DEF D, a, b, c
    <3>. QED
      BY <2>1, TotalAdds
  <2>. QED
    BY <2>2
<1>. QED
  BY <1>1, <1>2, <1>3, <1>4

-----------------------------------------------------------------------------
(* The rankings of a comparison *)

LEMMA TimesGrow ==
  /\ \A x, y, k \in Int : x <= y /\ k >= 0 => x * k <= y * k
  /\ \A x, y, k \in Int : x < y /\ k > 0 => x * k < y * k
<1>1. ASSUME NEW x \in Int, NEW y \in Int, NEW k \in Int, x <= y, k >= 0
      PROVE  x * k <= y * k
  <2>1. (y - x) * k >= 0
    BY <1>1
  <2>2. (y - x) * k = y * k - x * k
    OBVIOUS
  <2>. QED
    BY <2>1, <2>2
<1>2. ASSUME NEW x \in Int, NEW y \in Int, NEW k \in Int, x < y, k > 0
      PROVE  x * k < y * k
  <2>1. (y - x) * k > 0
    BY <1>2
  <2>2. (y - x) * k = y * k - x * k
    OBVIOUS
  <2>. QED
    BY <2>1, <2>2
<1>. QED
  BY <1>1, <1>2

LEMMA QuotientBounds ==
  ASSUME NEW x \in Nat, NEW c \in Nat, c >= 1
  PROVE  /\ x \div c \in Nat
         /\ (x \div c) * c <= x
         /\ x < (x \div c) * c + c
<1> DEFINE q == x \div c
<1>1. q \in Int /\ c * q <= x /\ x < c * q + c
  OBVIOUS
<1>2. c * q = q * c
  BY <1>1
<1>3. q >= 0
  <2> SUFFICES ASSUME q <= -1 PROVE FALSE
    BY <1>1
  <2>1. q * c <= (-1) * c
    BY <1>1, TimesGrow
  <2>2. (-1) * c = -c
    OBVIOUS
  <2> HIDE DEF q
  <2>. QED
    BY <1>1, <1>2, <2>1, <2>2
<1> HIDE DEF q
<1>4. q * c <= x /\ x < q * c + c
  BY <1>1, <1>2
<1>. QED
  BY <1>1, <1>3, <1>4 DEF q

\* The quotient grows with the dividend, and by one with every divisor more.
LEMMA QuotientGrows ==
  ASSUME NEW x \in Nat, NEW y \in Nat, NEW c \in Nat, c >= 1
  PROVE  /\ x <= y => x \div c <= y \div c
         /\ x + c <= y => (x \div c) + 1 <= y \div c
<1> DEFINE a == x \div c
           b == y \div c
<1>1. /\ a \in Nat /\ a * c <= x /\ x < a * c + c
      /\ b \in Nat /\ b * c <= y /\ y < b * c + c
  BY QuotientBounds
<1> HIDE DEF a, b
<1>2. ASSUME x <= y PROVE a <= b
  <2> SUFFICES ASSUME b + 1 <= a PROVE FALSE
    BY <1>1
  <2>1. (b + 1) * c <= a * c
    BY <1>1, TimesGrow
  <2>2. (b + 1) * c = b * c + c
    BY <1>1
  <2>3. b * c \in Int /\ a * c \in Int
    BY <1>1
  <2>. QED
    BY <1>1, <1>2, <2>1, <2>2, <2>3
<1>3. ASSUME x + c <= y PROVE a + 1 <= b
  <2> SUFFICES ASSUME b <= a PROVE FALSE
    BY <1>1
  <2>1. b * c <= a * c
    BY <1>1, TimesGrow
  <2>2. b * c \in Int /\ a * c \in Int
    BY <1>1
  <2>. QED
    BY <1>1, <1>3, <2>1, <2>2
<1>. QED
  BY <1>2, <1>3 DEF a, b
\* Fractions compared by multiplying out are compared in an order.
LEMMA LessIsOrder ==
  ASSUME NEW a, NEW b, NEW c,
         \A x \in {a, b, c} : x[1] \in Nat /\ x[2] \in Nat /\ x[2] >= 1,
         ~Less(a, b), ~Less(b, c)
  PROVE  ~Less(a, c)
<1>1. PICK a1 \in Nat, a2 \in Nat : a1 = a[1] /\ a2 = a[2] /\ a2 >= 1
  OBVIOUS
<1>2. PICK b1 \in Nat, b2 \in Nat : b1 = b[1] /\ b2 = b[2] /\ b2 >= 1
  OBVIOUS
<1>3. PICK c1 \in Nat, c2 \in Nat : c1 = c[1] /\ c2 = c[2] /\ c2 >= 1
  OBVIOUS
<1>4. b1 * a2 <= a1 * b2 /\ c1 * b2 <= b1 * c2
  BY <1>1, <1>2, <1>3 DEF Less
<1>5. (b1 * a2) * c2 <= (a1 * b2) * c2 /\ (c1 * b2) * a2 <= (b1 * c2) * a2
  BY <1>4, TimesGrow
<1>6. /\ (b1 * a2) * c2 = (b1 * c2) * a2
      /\ (a1 * b2) * c2 = (a1 * c2) * b2
      /\ (c1 * b2) * a2 = (c1 * a2) * b2
  OBVIOUS
<1>7. (c1 * a2) * b2 <= (a1 * c2) * b2
  BY <1>5, <1>6
<1>8. ~(a1 * c2 < c1 * a2)
  <2> SUFFICES ASSUME a1 * c2 < c1 * a2 PROVE FALSE
    OBVIOUS
  <2>1. (a1 * c2) * b2 < (c1 * a2) * b2
    BY <1>2, TimesGrow
  <2>. QED
    BY <1>7, <2>1
<1>. QED
  BY <1>1, <1>3, <1>8 DEF Less

\* The average total time and the longest wait of a result; the average is
\* positive exactly if somebody is delivered.
LEMMA AverageAndWait ==
  ASSUME NEW r, SoundResult(r)
  PROVE  /\ AvgTotal(r)[1] \in Nat /\ AvgTotal(r)[2] \in Nat /\ AvgTotal(r)[2] >= 1
         /\ AvgTotal(r)[1] > 0 <=> Delivered(r) # {}
         /\ MaxWait(r) \in Int
         /\ Delivered(r) # {} => MaxWait(r) = Max(Range(Waits(r)))
<1>1. AvgTotal(r) = TimeStats(Totals(r)).avg /\ MaxWait(r) = TimeStats(Waits(r)).max_value
  BY ValuesOfDelivered DEF AvgTotal, MaxWait, PassengerStatistics
<1>2. CASE Delivered(r) = {}
  <2>1. Count(Totals(r)) = 0 /\ Count(Waits(r)) = 0
    BY <1>2, TimesAsLists, FS_EmptySet DEF Count
  <2>2. AvgTotal(r) = <<0, 1>> /\ MaxWait(r) = 0
    BY <1>1, <2>1 DEF TimeStats, NoStats
  <2>. QED
    BY <1>2, <2>2
<1>3. CASE Delivered(r) # {}
  <2>1. Measured(Totals(r)) /\ Measured(Waits(r))
    BY <1>3, TimesAsLists DEF Measured
  <2>2. Count(Totals(r)) \in Nat /\ Count(Totals(r)) >= 1
    BY <2>1, CountPositive
  <2>3. Count(Waits(r)) \in Nat /\ Count(Waits(r)) >= 1
    BY <2>1, CountPositive
  <2>4. AvgTotal(r) = <<Total(Totals(r)), Count(Totals(r))>>
    BY <1>1, <2>2 DEF TimeStats
  <2>5. MaxWait(r) = AtSorted(Waits(r), Count(Waits(r)) - 1)
    BY <1>1, <2>3 DEF TimeStats
  <2>6. MaxWait(r) = Max(Range(Waits(r)))
    BY <2>1, <2>5, FirstAndLast
  <2>7. Max(Range(Waits(r))) \in Int
    <3>1. Max(Range(Waits(r))) \in Range(Waits(r))
      BY <2>1, RangeOfValues, MaxIsGreatest
    <3>. QED
      BY <2>1, <3>1, RangeOfValues
  <2>. QED
    BY <1>3, <2>2, <2>4, <2>6, <2>7, SumsOfTimes
<1>. QED
  BY <1>2, <1>3

\* Names of results that are there.
Comparable(names, results) ==
  /\ Len(names) \in Nat /\ Len(names) >= 1 /\ DOMAIN names = 1..Len(names)
  /\ \A i \in DOMAIN names : SoundResult(results[names[i]])

\* The first and the last of a ranking are names of the comparison, and
\* nothing is before the first: for the ranking by average total time ...
LEMMA EfficiencyRanked ==
  ASSUME NEW names, NEW results, Comparable(names, results)
  PROVE  LET ranking == ByEfficiency(names, results)
         IN  /\ \E i \in DOMAIN names : Best(ranking) = names[i]
             /\ \E i \in DOMAIN names : Worst(ranking) = names[i]
             /\ \A i \in DOMAIN names :
                  ~Less(AvgTotal(results[names[i]]), AvgTotal(results[Best(ranking)]))
<1> DEFINE n == Len(names)
           key(i) == AvgTotal(results[names[i]])
           W == {d \in (1..n) \X (1..n) : Less(key(d[1]), key(d[2]))}
           ranking == ByEfficiency(names, results)
<1>1. n \in Nat /\ n >= 1 /\ DOMAIN names = 1..n
  BY DEF Comparable
<1>2. \A i, j \in 1..n : <<i, j>> \in W <=> Less(key(i), key(j))
  OBVIOUS
<1>3. \A i \in 1..n : key(i)[1] \in Nat /\ key(i)[2] \in Nat /\ key(i)[2] >= 1
  BY <1>1, AverageAndWait DEF Comparable
<1>4. \A i, j \in 1..n : <<i, j>> \in W => <<j, i>> \notin W
  <2> TAKE i, j \in 1..n
  <2>1. /\ key(i)[1] * key(j)[2] \in Int
        /\ key(j)[1] * key(i)[2] \in Int
    BY <1>3
  <2> HIDE DEF W, key
  <2>. QED
    BY <1>2, <2>1 DEF Less
<1>5. \A i, j, k \in 1..n : <<i, j>> \notin W /\ <<j, k>> \notin W => <<i, k>> \notin W
  <2> TAKE i, j, k \in 1..n
  <2>1. \A x \in {key(i), key(j), key(k)} : x[1] \in Nat /\ x[2] \in Nat /\ x[2] >= 1
    BY <1>3
  <2> HIDE DEF W, key
  <2>. QED
    BY <1>2, <2>1, LessIsOrder
<1>6. /\ \E j \in 1..n : Place(W, n, j) = 1
      /\ \E j \in 1..n : Place(W, n, j) = n
      /\ \A j \in 1..n : Place(W, n, j) = 1 => \A i \in 1..n : <<i, j>> \notin W
  <2> HIDE DEF n, W
  <2>. QED
    BY <1>1, <1>4, <1>5, PlacesTaken
<1>7. ranking = [k \in 1..n |-> names[CHOOSE j \in 1..n : Place(W, n, j) = k]]
  <2> DEFINE ahead(i, j) == \/ Less(key(i), key(j))
                            \/ ~Less(key(j), key(i)) /\ i < j
             place(j) == Cardinality({i \in 1..n : i # j /\ ahead(i, j)}) + 1
  <2>1. ranking = [k \in 1..n |-> names[CHOOSE j \in 1..n : place(j) = k]]
    BY <1>1 DEF ByEfficiency, Ranking
  <2>2. \A j \in 1..n : place(j) = Place(W, n, j)
    <3> TAKE j \in 1..n
    <3>1. \A i \in 1..n : ahead(i, j) <=> (<<i, j>> \in W \/ (<<j, i>> \notin W /\ i < j))
      BY <1>2
    <3>2. {i \in 1..n : i # j /\ ahead(i, j)}
            = {i \in 1..n : i # j /\ (<<i, j>> \in W \/ (<<j, i>> \notin W /\ i < j))}
      <4> HIDE DEF ahead, W, n
      <4>. QED
        BY <3>1
    <3>. QED
      BY <3>2 DEF Place
  <2> DEFINE one(k) == names[CHOOSE j \in 1..n : place(j) = k]
             two(k) == names[CHOOSE j \in 1..n : Place(W, n, j) = k]
  <2>3. \A k \in 1..n : one(k) = two(k)
    <3> HIDE DEF place, W, n
    <3>. QED
      BY <2>2
  <2>4. ranking = [k \in 1..n |-> one(k)]
    BY <2>1
  <2>5. ranking = [k \in 1..n |-> two(k)]
    <3> HIDE DEF one, two, n, ranking
    <3>. QED
      BY <2>3, <2>4
  <2>. QED
    BY <2>5
<1>8. Best(ranking) = names[CHOOSE j \in 1..n : Place(W, n, j) = 1]
  <2> HIDE DEF W, n, ranking
  <2>. QED
    BY <1>1, <1>7 DEF Best
<1>9. Worst(ranking) = names[CHOOSE j \in 1..n : Place(W, n, j) = n]
  <2>1. Len(ranking) = n
    <3> HIDE DEF W, n, ranking
    <3>. QED
      BY <1>1, <1>7
  <2> HIDE DEF W, n, ranking
  <2>. QED
    BY <1>1, <1>7, <2>1 DEF Worst
<1>10. PICK first \in 1..n : Best(ranking) = names[first] /\ Place(W, n, first) = 1
  BY <1>6, <1>8
<1>11. PICK last \in 1..n : Worst(ranking) = names[last]
  BY <1>6, <1>9
<1>12. \A i \in 1..n : ~Less(key(i), AvgTotal(results[Best(ranking)]))
  BY <1>2, <1>6, <1>10
<1> HIDE DEF n, ranking
<1>. QED
  BY <1>1, <1>10, <1>11, <1>12 DEF ranking

\* ... and for the ranking by longest wait.
LEMMA FairnessRanked ==
  ASSUME NEW names, NEW results, Comparable(names, results)
  PROVE  LET ranking == ByFairness(names, results)
         IN  /\ \E i \in DOMAIN names : Best(ranking) = names[i]
             /\ \E i \in DOMAIN names : Worst(ranking) = names[i]
             /\ \A i \in DOMAIN names :
                  ~(MaxWait(results[names[i]]) < MaxWait(results[Best(ranking)]))
<1> DEFINE n == Len(names)
           key(i) == MaxWait(results[names[i]])
           W == {d \in (1..n) \X (1..n) : key(d[1]) < key(d[2])}
           ranking == ByFairness(names, results)
<1>1. n \in Nat /\ n >= 1 /\ DOMAIN names = 1..n
  BY DEF Comparable
<1>2. \A i, j \in 1..n : <<i, j>> \in W <=> key(i) < key(j)
  OBVIOUS
<1>3. \A i \in 1..n : key(i) \in Int
  BY <1>1, AverageAndWait DEF Comparable
<1>4. \A i, j \in 1..n : <<i, j>> \in W => <<j, i>> \notin W
  <2> HIDE DEF W, key
  <2>. QED
    BY <1>2, <1>3
<1>5. \A i, j, k \in 1..n : <<i, j>> \notin W /\ <<j, k>> \notin W => <<i, k>> \notin W
  <2> HIDE DEF W, key
  <2>. QED
    BY <1>2, <1>3
<1>6. /\ \E j \in 1..n : Place(W, n, j) = 1
      /\ \E j \in 1..n : Place(W, n, j) = n
      /\ \A j \in 1..n : Place(W, n, j) = 1 => \A i \in 1..n : <<i, j>> \notin W
  <2> HIDE DEF n, W
  <2>. QED
    BY <1>1, <1>4, <1>5, PlacesTaken
<1>7. ranking = [k \in 1..n |-> names[CHOOSE j \in 1..n : Place(W, n, j) = k]]
  <2> DEFINE ahead(i, j) == \/ key(i) < key(j)
                            \/ ~(key(j) < key(i)) /\ i < j
             place(j) == Cardinality({i \in 1..n : i # j /\ ahead(i, j)}) + 1
  <2>1. ranking = [k \in 1..n |-> names[CHOOSE j \in 1..n : place(j) = k]]
    BY <1>1 DEF ByFairness, Ranking
  <2>2. \A j \in 1..n : place(j) = Place(W, n, j)
    <3> TAKE j \in 1..n
    <3>1. \A i \in 1..n : ahead(i, j) <=> (<<i, j>> \in W \/ (<<j, i>> \notin W /\ i < j))
      BY <1>2
    <3>2. {i \in 1..n : i # j /\ ahead(i, j)}
            = {i \in 1..n : i # j /\ (<<i, j>> \in W \/ (<<j, i>> \notin W /\ i < j))}
      <4> HIDE DEF ahead, W, n
      <4>. QED
        BY <3>1
    <3>. QED
      BY <3>2 DEF Place
  <2> DEFINE one(k) == names[CHOOSE j \in 1..n : place(j) = k]
             two(k) == names[CHOOSE j \in 1..n : Place(W, n, j) = k]
  <2>3. \A k \in 1..n : one(k) = two(k)
    <3> HIDE DEF place, W, n
    <3>. QED
      BY <2>2
  <2>4. ranking = [k \in 1..n |-> one(k)]
    BY <2>1
  <2>5. ranking = [k \in 1..n |-> two(k)]
    <3> HIDE DEF one, two, n, ranking
    <3>. QED
      BY <2>3, <2>4
  <2>. QED
    BY <2>5
<1>8. Best(ranking) = names[CHOOSE j \in 1..n : Place(W, n, j) = 1]
  <2> HIDE DEF W, n, ranking
  <2>. QED
    BY <1>1, <1>7 DEF Best
<1>9. Worst(ranking) = names[CHOOSE j \in 1..n : Place(W, n, j) = n]
  <2>1. Len(ranking) = n
    <3> HIDE DEF W, n, ranking
    <3>. QED
      BY <1>1, <1>7
  <2> HIDE DEF W, n, ranking
  <2>. QED
    BY <1>1, <1>7, <2>1 DEF Worst
<1>10. PICK first \in 1..n : Best(ranking) = names[first] /\ Place(W, n, first) = 1
  BY <1>6, <1>8
<1>11. PICK last \in 1..n : Worst(ranking) = names[last]
  BY <1>6, <1>9
<1>12. \A i \in 1..n : ~(key(i) < MaxWait(results[Best(ranking)]))
  BY <1>2, <1>6, <1>10
<1> HIDE DEF n, ranking
<1>. QED
  BY <1>1, <1>10, <1>11, <1>12 DEF ranking
=============================================================================
