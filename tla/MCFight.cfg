\* A player and two creatures, so that one may stand in for another; two rooms.
CONSTANTS
  p1 = p1  m1 = m1  m2 = m2  hall = hall  field = field
  Players = {p1}
  Mobiles = {m1, m2}
  Rooms = {hall, field}
  Hall = hall
  default_pos <- MCdefault_pos
  None = None
SPECIFICATION Spec
SYMMETRY Symmetry
INVARIANTS TypeOK FightersInWorld PositionTrue
PROPERTY TurnsOnAttackers
