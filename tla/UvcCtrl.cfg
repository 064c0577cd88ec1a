SPECIFICATION Spec
CONSTANTS
  Entities <- CameraEntities
  Product = "06f8:3005"
  Highest = 1
  Factory = 1
  Asked = {0}
  Steps = 2
  Events = TRUE
INVARIANTS
  CacheIsTrue
  DoneMeansSet
  ReadIsTrue
CONSTRAINT
  Unspoiled
