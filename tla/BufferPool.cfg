SPECIFICATION Spec
CONSTANTS
  MaxPages = 4
  Content = {a}
  Catalogs = {c1, c2}
  Zero = zero
  Torn = torn
  Capacity = 2
  Guards = {g1, g2}
  MaxClock = 5
SYMMETRY Symmetry
INVARIANTS
  TypeOK
  PinsMatchGuards
  CleanFramesMatchFile
  CatalogNotOverwritten
  WithinCapacity
  LastUsedDistinct
PROPERTY StoreSpec
