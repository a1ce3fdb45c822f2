\* A request may end rejected, removed or paid, with every key used.
CHECK_DEADLOCK FALSE
SPECIFICATION Spec
CONSTANTS
  ann = ann
  bob = bob
  cat = cat
  k1 = k1
  k2 = k2
  s1 = s1
  s2 = s2
  Sessions = {s1, s2}
  Keys = {k1, k2}
  AmountOf <- MCAmountOf
  Edits = {e1}
  People = {ann, bob, cat}
  Requester = ann
  Managers = {bob}
  Purchasers = {cat}
  Financiers = {ann, cat}
  MaxAmount = 3
  NoKey = NoKey
  NoEdit = NoEdit
SYMMETRY Interchangeable
INVARIANTS TypeOK LockedReadsHold LedgerAddsUp NothingUnpricedIsPayable
PROPERTIES AmountIsAgreed EditsFollowTheChain KeepsLedger
