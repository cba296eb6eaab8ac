\* Two requests in one batch, rings of the least size the assumption allows, and
\* prompt chunks of up to twice the ring, which complete two groups: two work items.
CONSTANTS
  Req = {r1, r2}
  Block = {b1, b2}
  NoBlock = NoBlock
  Key = {k1, k2}
  Stale = Stale
  R = 2
  K = 1
  C = 2
  MaxChunk = 4
  MaxLen = 5
SPECIFICATION Spec
SYMMETRY MCSymmetry
INVARIANTS TypeOK RingKeepsOpenGroup QueriesSeeTrueGroups
PROPERTIES CommittedGroupsAreFinal ImplementsContext
