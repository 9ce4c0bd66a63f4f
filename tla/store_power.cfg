CONSTANTS
  t1 = t1  t2 = t2  t3 = t3  p1 = p1  p2 = p2  i1 = i1  i2 = i2
  n1 = n1  n2 = n2  a = a  b = b  None = None  r1 = r1
  Thread = {t1, t2}  Proc = {p1, p2}  Home <- TwoProcs  Reader = {}
  Id = {i1}  Inode = {n1, n2}  Block = {a, b}  Initial <- TwoFiles
  MaxBlocks = 2  MaxLen = 3  Budget <- PowerBudget  CoarseClock = FALSE
SPECIFICATION Spec
INVARIANT CreatedIsDurable
PROPERTIES
  StablePairImmutable
  ImplementsMap
  FrozenIsCurrent
