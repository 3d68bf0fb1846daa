SPECIFICATION Spec
CONSTANTS
  None = None
  ann = ann
  bob = bob
  cat = cat
  e1 = e1
  e2 = e2
  e3 = e3
  e4 = e4
  d1 = d1
  d2 = d2
  d3 = d3
  People = {ann, bob, cat}
  Emails = {e1, e2, e3, e4}
  Deliveries = {d1, d2, d3}
  Events <- mcEvents
  Requests = {r1, r2, r3}
  Proposals = {a1}
  Founders <- mcFounders
  Usages <- mcUsages
INVARIANTS AppliedOnce LedgerIsTruthful DeletedHoldsNothingInTurn AdministrableInTurn
PROPERTIES RoleChangesTakeTwo
SYMMETRY mcSymmetry
CHECK_DEADLOCK FALSE
