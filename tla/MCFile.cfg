SPECIFICATION Spec
CONSTANTS
  Task = {t1, t2}
  Thread = {th1, th2}
  Original <- MCOriginal
  Seeks <- MCSeeks
  Buffers <- MCBuffers
  ReadSizes = {1, 2}
  MaxCalls = 3
  Faults = 1
INVARIANTS NoWaiterStranded CacheIsFile AnswersAreTrue DropKeepsData
CHECK_DEADLOCK FALSE
SYMMETRY Symmetry
