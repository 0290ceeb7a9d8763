\* Three connections, so that one taking another over passes by a third; two
\* names; one line of input and one pulse of wait.
CONSTANTS
  Desc = {d1, d2, d3}
  Names = {a, b}
  MaxLines = 1
  MaxWait = 1
  None = None
SPECIFICATION Spec
INVARIANTS TypeOK WalkRight
PROPERTY Answered
