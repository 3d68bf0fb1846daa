SPECIFICATION Spec
CONSTANTS
  None = None
  o1 = o1
  r1 = r1
  q1 = q1
  q2 = q2
  c1 = c1
  c2 = c2
  Owner = o1
  Owners <- MCOwners
  Renters <- MCRenters
  QuoteIds <- MCQuoteIds
  Calls <- MCCalls
  HalfFallsShort <- MCHalfFallsShort
  ReplacementValue = 60000
  Usages <- MCUsages
  QUOTE_VALIDITY = 1
  HOUR = 1
  DAY = 2
  MaxVersions = 2
  MaxAttempts = 2
SYMMETRY MCHireSymmetry
INVARIANTS QuotedTheCheapest AgreedTermsAreCharged BooksBalance
CHECK_DEADLOCK FALSE
