\* Two players; no symmetry, for the liveness property.
CONSTANTS
  p1 = p1  p2 = p2
  Persons = {p1, p2}
  JoinTicks = 3
  BetTicks = 2
  IdleTicks = 2
  Amounts = {0, 1}
  MaxPlaying = 3
  Nobody = Nobody
SPECIFICATION ArenaSpec
INVARIANTS ArenaTypeOK OwnBet CountRight
PROPERTY CountdownEnds
