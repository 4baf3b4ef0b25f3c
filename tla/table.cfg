CONSTANTS
  NR_TASKS = 1
  NR_PROCS = 2
  priority <- Slices
  stacksize <- Stacks
  STACK_SIZE_TOTAL = 98304
  proc_table = 208896
  task_stack = 262144
  tss = 212992
  Word = 8
  Vectors = {0, 13}
SPECIFICATION Spec
INVARIANT TableHoldsAll
CHECK_DEADLOCK FALSE
