SPECIFICATION FairCommandSpec
CONSTANTS
  NumFloors = 6
  NumElevators = 2
  MaxCapacity = 1
  Injected <- Shipped
  ServicePolicies <- FullService
  Workloads <- ParsedLists
  Commands <- ShippedCommands
INVARIANT EvenDistribution
INVARIANT EnoughTicks
INVARIANT RoundRobinInTime
INVARIANT StopsWhenDone
INVARIANT ReplayAgrees
INVARIANT LogsAgree
INVARIANT StatisticsMeanWhatTheySay
INVARIANT ReportsAgree
INVARIANT ChartsAgree
INVARIANT NoDivisionByZero
INVARIANT OutputsInOrder
PROPERTY RerunChangesNothing
PROPERTY CommandEnds
