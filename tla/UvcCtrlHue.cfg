SPECIFICATION Spec
CONSTANTS
  Entities <- HueEntities
  Product = "046d:0825"
  Highest = 1
  Factory = 1
  Asked = {0}
  Steps = 1
  Events = FALSE
INVARIANTS
  CachedNotUsed
