SPECIFICATION Spec
CONSTANTS
  Proc = {p1, p2, p3}
  Page = {text, dat, stack}
  Writable = {dat, stack}
  Loaded = {text, dat}
  Frame = {f1, f2, f3, f4}
  Word = {w1, w2}
  Value = {x, y}
  None = None
  Nothing = Nothing
  First = p1
SYMMETRY Symmetry
INVARIANTS
  MapsOK
  RefsExact
  WritableIsPrivate
PROPERTIES
  MemoryIsPrivate
