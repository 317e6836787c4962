SPECIFICATION Spec
CONSTANTS
  NPages = 10
  Proc = {p1, p2}
  initproc = p1
  None = None
  Page <- AllPages
  Value = {0}
  Zero = 0
  Junk = Junk
  RefMod = 64
  NVA = 3
  NPTE = 2
  MaxGrow = 2
  BootSz = 1
  Layout <- RWLayout
  BootPtr <- BootPages
ACTION_CONSTRAINT LowestPageFirst
VIEW UpToPageNames
INVARIANTS RefCountExact PageAccounting TablesConsistent ControlInv
