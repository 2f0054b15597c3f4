CONSTANTS
  Callers = {t1, t2}
  Home = Home
  Others = {n1}
  All = All
  Clients = {r1}
  NoClient = NoClient
  Shared = Shared
  Driver = "memory"
  NoLimit = NoLimit
  Limits = {NoLimit, m1}
SPECIFICATION Spec
SYMMETRY Symmetry
INVARIANT ListsWhatIsInstalled
