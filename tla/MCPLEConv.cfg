\* Two requests and a padding row in one batch; two taps two positions apart, one draft, more tokens than a slot holds.
CONSTANTS
  Req = {r1, r2}
  Pad = {p1}
  Slot = {s1, s2}
  NullSlot = NullSlot
  Key = {k1, k2}
  Zero = Zero
  Stale = Stale
  Taps = 2
  Dilation = 2
  Drafts = 1
  MaxChunk = 2
  MaxTokens = 4
SPECIFICATION Spec
SYMMETRY MCSymmetry
INVARIANTS TypeOK RowsSeeTheirHistory StateHoldsLastInputs
PROPERTY OthersKeepTheirState
