\* As MCObjects: the player holds two weapons and something else when it dies.
\* Without symmetry, which a counterexample does not need.
CONSTANTS
  pc = pc  mob = mob
  street = street  hall = hall
  w1 = w1  w2 = w2
  disc = disc  corpse = corpse  gem = gem
  Players = {pc}
  Mobs = {mob}
  Rooms = {street, hall}
  Hall = hall
  Weapons = {w1, w2}
  Bags = {disc}
  Discs = {disc}
  Corpses = {corpse}
  Carcasses = {}
  Things = {gem}
  Gems = {gem}
  Anti = {w1, w2}
  Dual = {pc}
  MaxNumber = 20
  Lost = Lost
  None = None
SPECIFICATION Spec
PROPERTY CorpseHasAll
