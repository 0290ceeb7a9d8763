\* Two players; a mobile raised from the dead, and one under wound transfer
\* that is wild, a pet of the shop or a horse.
CONSTANTS
  p1 = p1  p2 = p2
  m1 = m1  m2 = m2
  red = red
  Players = {p1, p2}
  Mobs = {m1, m2}
  Wild = {m2}
  Tame = {m2}
  Steeds = {m2}
  Undead = {m1}
  Bound = {m2}
  Teams = {red}
  None = None
SPECIFICATION Spec
SYMMETRY Symmetry
INVARIANTS TypeOK CompanyHere LeaderIsMaster PetIsOwn RidersCarried
