\* Two pages, and enough draws to meet every number and the boundaries between them.
SPECIFICATION TurnSpec
CONSTANTS
  Page = {p1, p2}
  Resolution = 20
SYMMETRY Symmetry
INVARIANT
  NeverRefused
CHECK_DEADLOCK FALSE
