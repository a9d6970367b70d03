CONSTANTS
  t1 = t1  t2 = t2  t3 = t3  t4 = t4  t5 = t5
  c1 = c1  c2 = c2  c3 = c3
  Tasks <- MCTasks
  Containers <- MCContainers
  ContainerOf <- MCContainerOf
  Width <- MCWidth
  NbMachines = 1
  NbCores <- OneMachine
SPECIFICATION Spec
INVARIANT CoresOfWorkingTasks
INVARIANT NeverThrows
CHECK_DEADLOCK FALSE
