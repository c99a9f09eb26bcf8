SPECIFICATION Spec
CONSTANTS
  NumFloors = 3
  NumElevators = 2
  MaxCapacity = 1
  Injected = {"any"}
  ServicePolicies <- FullService
  Workloads <- SameIdTwice
INVARIANT StopsWhenDone
