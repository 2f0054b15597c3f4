CONSTANTS
  Names = {"db", "db-tools"}
  Deps = {"db", "db-tools"}
  Longer <- Tools
  Versions = {1, 2}
  Archives <- Files
  Dirs = {dir}
  Loose = Loose
  Declared <- Declarations
  None = None
  Broken = Broken
  Invalid = Invalid
  MaxEdits = 1
SPECIFICATION Spec
INVARIANTS
  TypeOK
  ListingIsTrue
