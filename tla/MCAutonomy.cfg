SPECIFICATION Spec
CONSTANTS
  d1 = d1
  d2 = d2
  d3 = d3
  Pairs = {"question", "bug"}
  Posting = {"question", "bug"}
  Listed = {"question"}
  Drafts = {d1, d2, d3}
  PairOf <- MCPairOf
  Gateways = {g1}
  None = None
  Streak = 2
INVARIANTS TrustIsEarned SuggestedOnce
SYMMETRY Symmetry
