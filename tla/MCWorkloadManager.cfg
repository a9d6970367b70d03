CONSTANTS
  t1 = t1  t2 = t2  t3 = t3
  one = one  two = two  huge = huge
  r1 = r1
  NoResource = NoResource
  Tasks <- MCTasks
  Types <- MCTypes
  Resources <- MCResources
  TypeOf <- MCTypeOf
  Cores <- MCCores
  Ignoring = {}
  NbCores <- MCNbCores
  Accepted <- MCAccepted
  Throwing <- MCThrowing
  MaxStarts = 2
SPECIFICATION FairSpec
INVARIANT FinishedAreRunning
PROPERTY IsTaskPool
PROPERTY StopReturns
PROPERTY EveryTaskServed
CHECK_DEADLOCK TRUE
