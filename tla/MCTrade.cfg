\* Two people, a coin each and an item, which may be a robe; two trades, so
\* that one can be left behind.
CONSTANTS
  s1 = s1  s2 = s2
  p1 = p1  p2 = p2
  t1 = t1  t2 = t2
  r1 = r1  r2 = r2
  gold = gold
  item = item
  Slots = {s1, s2}
  Persons = {p1, p2}
  Trades = {t1, t2}
  Rooms = {r1, r2}
  Currencies = {gold}
  Items = {item}
  None = None
SPECIFICATION Spec
SYMMETRY Symmetry
INVARIANTS TypeOK Linked ApprovalCurrent ItemsApart CoinsNotMade
PROPERTY Consent
