SPECIFICATION Spec
CONSTANTS
  SlotsPerBlock = 8
  MetaBlock = 0
  SbFirst = 3
  SbEnd = 5
  MaxNodes = 4
  Trees <- SmallTrees
  TableSizes = {0, 1}
INVARIANTS
  TypeOK
  InodesDisjoint
  WritesStayInFootprint
  InodesInRegion
  PayloadsDisjoint
  LayoutComplete
  SkipIsFirstClear
PROPERTY
  Terminates
CHECK_DEADLOCK FALSE
