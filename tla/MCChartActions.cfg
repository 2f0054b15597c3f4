CONSTANTS
  Callers = {t1, t2}
  Contexts = {c1}
  Background = Background
  Dirs = {d1}
  NoDir = NoDir
SPECIFICATION Spec
SYMMETRY Symmetry
INVARIANTS
  TypeOK
  CancelledLeavesRecord
  RefusalTouchesNothing
  OnlyWholeChartsRun
PROPERTIES
  ImplementsScratch
