SPECIFICATION FairSpec
CONSTANTS
  b1 = b1
  b2 = b2
  k1 = k1
  Bookings = {b1, b2}
  Conflicts <- MCConflicts
  Blocks = {}
  Hits <- MCHits
  Handlers = {h1}
  Sweepers = {s1, s2}
  NoBooking = NoBooking
  BATCH_LIMIT = 1
  DEADLOCK_ATTEMPTS = 2
  MaxPaymentFailures = 0
  MaxCrashes = 1
PROPERTIES OverdueResolved
