SPECIFICATION Spec
CONSTANTS
  c1 = c1
  c2 = c2
  t1 = t1
  t2 = t2
  t3 = t3
  Callers <- MCCallers
  Tasks <- MCTasks
INVARIANTS
  TypeOK
  NoLostWakeup
  NoLostQuit
PROPERTIES
  ImplementsTaskQueue
  QuitEndsLoop
