SPECIFICATION Spec
CONSTANTS
  None = None
  Ids = {i1, i2}
  PageSize = 1
  MaxPages = 2
  SearchCap = 2
  MaxChanges = 2
PROPERTY SeenIsLive
