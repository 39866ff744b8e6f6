SPECIFICATION MCSpec
CONSTANTS
  Keys = {digest, notice}
  OwnerKeys = {digest}
  DigestKeys = {digest}
  Gateways = {g1}
  Worker = worker
  NoKey = NoKey
  Timeout = 1
  Grace = 3
  MaxAge = 4
  Longest = 3
INVARIANTS OnePostInFlight DuplicatesNeedDoubt TextKept
PROPERTIES SentIsFinal UncertainSettles
