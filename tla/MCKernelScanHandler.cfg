SPECIFICATION Spec
CONSTANTS
  text = text
  edge = edge
  vmalloc = vmalloc
  t1 = t1
  t2 = t2
  Pages <- MCPages
  Tasks <- MCTasks
  Info <- MCInfo
INVARIANT
  HandlerTargetAlive
