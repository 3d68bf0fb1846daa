---- MODULE BookingStates ----
(***************************************************************************)
(* The booking lifecycle of booking-state-machine.ts: the table of legal   *)
(* moves, the states that hold a listing's dates, and the copy of that     *)
(* second set which the database's EXCLUDE constraint carries.             *)
(***************************************************************************)

\* BOOKING_STATES.  DRAFT and ABANDONED are never entered by the code.
States ==
  {"DRAFT", "ABANDONED", "REQUESTED", "DECLINED", "EXPIRED", "ACCEPTED",
   "AWAITING_PAYMENT", "PAYMENT_FAILED", "RESERVED", "READY_FOR_COLLECTION",
   "SECURITY_FAILED", "NO_SHOW", "COLLECTED", "RETURN_DUE", "LATE",
   "RETURNED_PENDING_CONFIRMATION", "COMPLETED", "REVIEW_WINDOW", "DISPUTED",
   "REFUNDED", "PARTIALLY_REFUNDED", "CANCELLED", "CLOSED"}

\* "NONE" stands for the absence of a row: a quote nobody has booked yet, and
\* the null fromState of a booking's first event.
RowStates == States \cup {"NONE"}

\* TRANSITIONS, as the set of its edges.
TRANSITIONS ==
  LET From(s, targets) == {s} \X targets IN
  UNION {
    From("DRAFT", {"REQUESTED", "ABANDONED"}),
    From("REQUESTED", {"ACCEPTED", "DECLINED", "EXPIRED", "CANCELLED"}),
    From("ACCEPTED", {"AWAITING_PAYMENT", "RESERVED"}),
    From("AWAITING_PAYMENT", {"RESERVED", "PAYMENT_FAILED", "EXPIRED"}),
    From("PAYMENT_FAILED", {"AWAITING_PAYMENT", "EXPIRED", "CANCELLED"}),
    From("RESERVED", {"READY_FOR_COLLECTION", "CANCELLED", "DISPUTED"}),
    From("READY_FOR_COLLECTION",
         {"COLLECTED", "NO_SHOW", "CANCELLED", "SECURITY_FAILED"}),
    From("SECURITY_FAILED", {"READY_FOR_COLLECTION", "CANCELLED", "DISPUTED"}),
    From("NO_SHOW", {"CANCELLED", "DISPUTED", "CLOSED"}),
    From("COLLECTED",
         {"RETURN_DUE", "RETURNED_PENDING_CONFIRMATION", "DISPUTED"}),
    From("RETURN_DUE", {"RETURNED_PENDING_CONFIRMATION", "LATE"}),
    From("LATE", {"RETURNED_PENDING_CONFIRMATION", "DISPUTED"}),
    From("RETURNED_PENDING_CONFIRMATION", {"COMPLETED", "DISPUTED"}),
    From("COMPLETED", {"REVIEW_WINDOW"}),
    From("REVIEW_WINDOW", {"CLOSED"}),
    From("DISPUTED", {"COMPLETED", "REFUNDED", "PARTIALLY_REFUNDED", "CLOSED"}),
    {"REFUNDED", "PARTIALLY_REFUNDED", "DECLINED", "EXPIRED", "CANCELLED"}
      \X {"CLOSED"}}

canTransition(from, to) == <<from, to>> \in TRANSITIONS

CALENDAR_OCCUPYING_STATES ==
  {"ACCEPTED", "AWAITING_PAYMENT", "PAYMENT_FAILED", "RESERVED",
   "READY_FOR_COLLECTION", "SECURITY_FAILED", "COLLECTED", "RETURN_DUE", "LATE"}

\* Mutant: the SQL list has lost a state.
EXCLUDED_STATES_short ==
  {"ACCEPTED", "PAYMENT_FAILED", "RESERVED",
   "READY_FOR_COLLECTION", "SECURITY_FAILED", "COLLECTED", "RETURN_DUE", "LATE"}

\* The WHERE of the constraint booking_periods_do_not_overlap: a second,
\* independent list, written in SQL.
EXCLUDED_STATES ==
  {"ACCEPTED", "AWAITING_PAYMENT", "PAYMENT_FAILED", "RESERVED",
   "READY_FOR_COLLECTION", "SECURITY_FAILED", "COLLECTED", "RETURN_DUE", "LATE"}

PAYABLE_STATES == {"ACCEPTED", "AWAITING_PAYMENT", "PAYMENT_FAILED"}
====
