\* Two names, one of them also the name of a mobile; three connections.
CONSTANTS
  d1 = d1  d2 = d2  d3 = d3
  c1 = c1  c2 = c2  c3 = c3  c4 = c4
  n1 = n1  n2 = n2
  i1 = i1  i2 = i2  i3 = i3
  Descs = {d1, d2, d3}
  Chars = {c1, c2, c3, c4}
  Names = {n1, n2}
  MobNames = {n2}
  Ids = {i1, i2, i3}
  MaxData = 1
  None = None
SPECIFICATION Spec
SYMMETRY Symmetry
INVARIANTS TypeOK LinksMutual OneBody QuitDurable
PROPERTY SessionSpec
