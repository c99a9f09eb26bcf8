SPECIFICATION Spec
CONSTANTS
  NumFloors = 5
  NumElevators = 1
  MaxCapacity = 2
  Injected = {"any"}
  ServicePolicies <- FullService
  Workloads <- CrowdedCar
INVARIANT IInv
INVARIANT RideBound
INVARIANT WaitBound
INVARIANT FirstAssignedFirstServed
INVARIANT HandTraceAgrees
