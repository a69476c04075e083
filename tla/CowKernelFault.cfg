SPECIFICATION Spec
CONSTANTS
  Proc = {p1, p2}
  Page = {dat}
  Writable = {dat}
  Loaded = {dat}
  Frame = {f1, f2}
  Word = {w1}
  Value = {x, y}
  None = None
  Nothing = Nothing
  First = p1
INVARIANT KernelNeverFaults
