SPECIFICATION OpenBuilding
CONSTANTS
  NumFloors = 4
  MaxCapacity = 2
  Trips <- AllTrips
  Callers = {c1, c2, c3}
INVARIANT TypeOK
PROPERTY RidersGetOut
PROPERTY OnlyAFullCarStarves
PROPERTY LeftAloneItFinishes
