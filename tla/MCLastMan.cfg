\* Three players, one left over from an earlier event.
CONSTANTS
  p1 = p1  p2 = p2  p3 = p3
  Persons = {p1, p2, p3}
  JoinTicks = 3
  BetTicks = 1
  IdleTicks = 1
  Amounts = {}
  MaxPlaying = 3
  Nobody = Nobody
SPECIFICATION ArenaSpec
SYMMETRY Symmetry
INVARIANT LastManStanding
