SPECIFICATION Spec
CONSTANTS
  NumFloors = 3
  NumElevators = 2
  MaxCapacity = 1
  Injected = {"any"}
  ServicePolicies <- ExpressCar
  Workloads <- ExpressTrip
INVARIANT FloorWithinPolicy
