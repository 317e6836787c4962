SPECIFICATION Spec
CONSTANTS
  NPages = 8
  Proc = {p1, p2}
  initproc = p1
  None = None
  Page <- AllPages
  Value = {0}
  Zero = 0
  Junk = Junk
  RefMod = 64
  NVA = 2
  NPTE = 1
  MaxGrow = 0
  BootSz = 2
  Layout <- RWLayout
  BootPtr <- BootPages
ACTION_CONSTRAINT LowestPageFirst
INVARIANTS ForkFailsGracefully
