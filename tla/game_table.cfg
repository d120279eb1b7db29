\* Two servers; every set of keys, with room in the vector or without.
CONSTANTS
  s1 = s1
  s2 = s2
  a = a
  b = b
  B = B
  r = r
  x = x
  None = None
  Default = Default
  Servers = {s1, s2}
  Keys = {a, b, B, r, x}
  Order <- Sorted
  Column <- FoldCase
  Illegal = {x}
  Reserved = {r}
  Configured = {a}
  AddKeys = TRUE
  SPARE = 1
  Values = {"1", "2"}
SPECIFICATION Spec
INVARIANTS TypeOK CachedHaveColumn  
 
