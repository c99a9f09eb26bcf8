SPECIFICATION Spec
CONSTANTS
  NumFloors = 3
  NumElevators = 2
  MaxCapacity = 1
  Injected = {"any"}
  ServicePolicies <- FullService
  Workloads <- ThreeTrips
INVARIANT TypeOK
INVARIANT Bookkeeping
INVARIANT CapacityRespected
INVARIANT NothingLeftToDoHere
INVARIANT IdleIsDone
INVARIANT PositionLogContinuous
PROPERTY ImplementsLifecycle
PROPERTY ImplementsSingleCars
