SPECIFICATION Spec
CONSTANTS
  NumFloors = 3
  MaxCapacity = 1
  Files <- SmallFiles
  ErrorsShown = 2
INVARIANT RaisesOnlyInvalidRequest
