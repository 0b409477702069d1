SPECIFICATION Spec
CONSTANTS
  N = 3
  MAX_ROWS_PER_UPSERT = 2
  MAX_ROW_IDS_PER_DELETE = 3
  MaxRows <- MCMaxRows
  MaxRowBytes = 100
  MaxRequestBytes = 177
  KeyBytes = 12
  Batches <- MCBatches
  HeavyRow <- MCHeavyRow
  Wire <- MCWire
  Body <- MCBody
  ChunkCost = 2
  MaxCalls = 1
  TotalS = 4
  TailS = 1
  MaxTime = 4
INVARIANTS
  PartialSuccessIsReported
CHECK_DEADLOCK FALSE
