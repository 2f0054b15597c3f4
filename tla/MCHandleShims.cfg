CONSTANTS
  Threads = {t1, t2}
  Objects = {o1, o2}
  NoObject = NoObject
  MaxID = 2
SPECIFICATION Spec
SYMMETRY Symmetry
INVARIANTS
  TypeOK
  LeakProbeBalances
  NeverAliases
  TypeTagHolds
  DoubleFreeMisses
  NoOrphanKubeconfig
  FreedContextIsCancelled
PROPERTY ImplementsContract
