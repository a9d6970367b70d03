CONSTANTS
  a = a  b = b  c = c  d = d  e = e  f = f  big = big  small = small
  NoResource = NoResource
  Tasks <- Join
  Links <- JoinLinks
  After <- JoinAfter
  Invalid = {}
  Failures <- MCFailures
  MaxNbThreads = 2
  ProblemLimit = 1
  Spurious = TRUE
  Types <- MCTypes
  TypeOf <- MCTypeOf
  Resources <- MCResources
  Cores <- MCCores
  Ignoring = {"free"}
  NbCores <- MCNbCores
  Accepted <- MCAccepted
SPECIFICATION FairSpec
INVARIANT AsleepOverMissed
INVARIANT FinishedButEarly
PROPERTY ClientOfManager
PROPERTY IsWorkflow
PROPERTY RunEnds
CHECK_DEADLOCK TRUE
