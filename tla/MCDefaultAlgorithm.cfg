CONSTANTS
  t1 = t1  t2 = t2  t3 = t3  t4 = t4  t5 = t5  t6 = t6
  two = two  one = one  zero = zero  free = free
  r1 = r1  r2 = r2
  NoResource = NoResource
  Tasks <- MCTasks
  Types <- MCTypes
  Resources <- MCResources
  TypeOf <- MCTypeOf
  Cores <- MCCores
  Ignoring <- MCIgnoring
  NbCores <- MCNbCores
  Accepted <- MCAccepted
SPECIFICATION Spec
INVARIANT DistinctWorkers
INVARIANT PlacementFits
INVARIANT ErrorOnlyIfHopeless
CHECK_DEADLOCK TRUE
