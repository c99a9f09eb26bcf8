SPECIFICATION Spec
CONSTANTS
  NumFloors = 3
  NumElevators = 2
  MaxCapacity = 1
  Injected = {"round_robin"}
  ServicePolicies <- LocalAndExpress
  Workloads <- LocalTrips
INVARIANT EvenDistribution
