SPECIFICATION FairSpec
CONSTANTS
  NumFloors = 3
  NumElevators = 2
  MaxCapacity = 1
  Injected <- AnyOrShipped
  ServicePolicies <- LowAndHigh
  Workloads <- MixedLists
INVARIANT OnePassengerPerId
INVARIANT PolicyRespected
INVARIANT TimesOrdered
INVARIANT NobodyOverlooked
PROPERTY StopsAtServedFloors
PROPERTY ImplementsLifecycle
PROPERTY Termination
