\* A player with two hands and a mobile; two weapons, a floating disc, the
\* player's corpse and a gem; the street and the place where the dead go.
CONSTANTS
  pc = pc  mob = mob
  street = street  hall = hall
  w1 = w1  w2 = w2
  disc = disc  corpse = corpse  gem = gem
  Players = {pc}
  Mobs = {mob}
  Rooms = {street, hall}
  Hall = hall
  Weapons = {w1, w2}
  Bags = {disc}
  Discs = {disc}
  Corpses = {corpse}
  Carcasses = {}
  Things = {gem}
  Gems = {gem}
  Anti = {w1, w2}
  Dual = {pc}
  MaxNumber = 20
  Lost = Lost
  None = None
SPECIFICATION Spec
SYMMETRY Symmetry
INVARIANTS TypeOK Rooted HandsRight NumberRight
