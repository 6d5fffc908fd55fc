SPECIFICATION Spec
CONSTANTS
  MaxWrites = 4
  Sizes = {0, 2, 3}
  MaxSize <- MCMaxSize
INVARIANTS WalkIsComplete EmptyPageHasACause RowComesOnce
CHECK_DEADLOCK FALSE
