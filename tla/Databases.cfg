SPECIFICATION Spec
CONSTANTS
  Names = {d1, d2}
  Tables = {t1, t2, t3}
  CatalogRoom = 2
  None = none
  Unreadable = unreadable
SYMMETRY Symmetry
INVARIANTS
  CatalogCoversStorage
  StorageMatchesFiles
  PromisesKept
  RefusalHasCause
