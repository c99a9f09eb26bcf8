SPECIFICATION CommandSpec
CONSTANTS
  NumFloors = 6
  NumElevators = 2
  MaxCapacity = 1
  Injected <- Shipped
  ServicePolicies <- FullService
  Workloads <- SingleLists
  Commands <- StrategyAll
INVARIANT AcceptedStrategyExists
