CONSTANTS
  t1 = t1
  t2 = t2
  Callers = {t1, t2}
  Asks <- Sharing
  Charts = {c1}
  Dests = {d1}
  Contents = {x, y}
  None = None
  Partial = Partial
SPECIFICATION Spec
SYMMETRY Symmetry
INVARIANTS
  SignedVerifies
  IndexIsTrue
PROPERTIES
  ImplementsScratch
