SPECIFICATION Spec
CONSTANTS
  Bookings = {b1}
  Payers = {p1, p2}
  Sweeps = {s1}
  NoBooking = NoBooking
  BATCH_LIMIT = 2
  MaxAttempts = 2
  MaxCrashes = 1
SYMMETRY Symmetry
INVARIANTS AtMostOneCapture BooksFollowTheCharges ReservedIsPaid
