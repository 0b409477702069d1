SPECIFICATION Spec
CONSTANTS
  Launches <- MCLaunches
  Environs <- MCEnvirons
  Elsewhere <- MCElsewhere
  Lines <- MCLines
  MaxRuns = 2
  MaxEdits = 3
INVARIANTS
  InitDelivers
  ServesAsTold
PROPERTIES
  InitKeepsStarts
  RerunChangesNothing
