\* Two weapons of different weight that both weigh on the strength, a belt that
\* gives it, a plague that takes it.  The belt gives a bit of affected_by that
\* the plague gives too, the sword one of imm_flags that a blessing gives.
CONSTANTS
  bless = bless  plague = plague
  axe = axe  sword = sword  belt = belt
  sick = sick  warded = warded
  Spells = {bless, plague}
  Joined = {plague}
  Items = {axe, sword, belt}
  Effects <- MCEffects
  Native <- MCNative
  Fits <- MCFits
  Need <- MCNeed
  Vectors = {sick, warded}
  AffBits = {sick}
  Race = {}
  MaxStack = 2
  MaxEtch = 1
  MaxSaves = 0
  None = None
SPECIFICATION Spec
INVARIANTS TypeOK Exact BitsHeld
