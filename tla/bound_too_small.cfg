SPECIFICATION Spec
CONSTANTS
  NumFloors = 4
  NumElevators = 2
  MaxCapacity = 1
  Injected = {"zone_based"}
  ServicePolicies <- FullService
  Workloads <- EverybodyDown
INVARIANT EverybodyDelivered
