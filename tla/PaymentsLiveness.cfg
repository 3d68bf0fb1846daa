SPECIFICATION FairSpec
CONSTANTS
  Bookings = {b1, b2}
  Payers = {p1}
  Sweeps = {s1}
  NoBooking = NoBooking
  BATCH_LIMIT = 1
  MaxAttempts = 1
  MaxCrashes = 1
PROPERTIES SettledUnlessCrowdedOut
