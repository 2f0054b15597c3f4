CONSTANTS
  Callers = {t1}
  Contexts = {c1}
  Background = Background
  Dirs = {d1}
  NoDir = NoDir
SPECIFICATION FairSpec
PROPERTIES
  CancelReturns
  CancelledComesBack
