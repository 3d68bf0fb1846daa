------------------------------- MODULE MCHire ------------------------------
(***************************************************************************)
(* Small instances of Hire.  Amounts are pence; each rate card makes a     *)
(* different unit the cheapest, and each configuration differs in what a   *)
(* hire pays under it.                                                     *)
(***************************************************************************)
EXTENDS Hire

CONSTANTS o1, r1, q1, q2, c1, c2

MCOwners == {o1}
MCRenters == {r1}
MCQuoteIds == {q1, q2}
MCCalls == {c1, c2}

\* No amount used here makes a double fall short of half a penny.
MCHalfFallsShort(amount, basisPoints) == FALSE

Rates(daily, weekend, weekly) == [daily |-> daily, weekend |-> weekend, weekly |-> weekly]

\* A week cheaper than five days; no other unit; a weekend dearer than three days.
WeekCard == Rates(1500, 3300, 6100)
DayCard == Rates(1050, None, None)
WeekendCard == Rates(1005, 3500, 5000)

Policy(commission, fee, minimumTotal, minimumFee) ==
  [ownerCommissionBasisPoints |-> commission, renterFeeBasisPoints |-> fee,
   minimumBookingTotal |-> minimumTotal, minimumPlatformFee |-> minimumFee]

Configuration(policy, band, days, hours) ==
  [feePolicy |-> policy, damageSecurity |-> band, maximumRentalDays |-> days,
   requestExpiryHours |-> hours]

Band(floor, percentage, ceiling) ==
  [excessFloor |-> floor, excessPercentageBasisPoints |-> percentage, recoveryCeiling |-> ceiling]

\* The second has no damage security; the third loses money at its floor, and
\* is refused.
Secured == Configuration(Policy(1500, 1000, 1150, 0), Band(5000, 1000, 20000), 14, 2)
Unsecured == Configuration(Policy(1250, 500, 2000, 150), None, 15, 1)
LossMaking == Configuration(Policy(100, 100, 0, 0), None, 15, 1)

Usage(qs, dates, lengths, ops, rates, configurations, maxNow, maxEdits, maxAttempts) ==
  [quotes |-> qs, dates |-> dates, lengths |-> lengths, ops |-> ops, rates |-> rates,
   configurations |-> configurations, maxNow |-> maxNow, maxEdits |-> maxEdits,
   maxAttempts |-> maxAttempts]

\* Every length from every weekday that matters; one hire requested while the
\* rates and the category change; two competing requests; one booking paid and
\* held while the category changes; one paid, and its capture corrected.
MCUsages ==
  {Usage({q1}, {0, 4, 5}, 1..15, {"quote"}, {WeekCard, DayCard, WeekendCard},
         {Secured, Unsecured, LossMaking}, 2, 1, 0),
   Usage({q1}, {1}, {2}, {"quote", "request", "reconfigure", "erase"},
         {DayCard, WeekendCard}, {Secured, Unsecured, LossMaking}, 2, 1, 0),
   Usage({q1, q2}, {1, 2}, {2}, {"quote", "request", "erase"}, {WeekCard}, {Secured}, 1, 0, 0),
   Usage({q1}, {4}, {3}, {"quote", "request", "pay", "hold", "reconfigure"},
         {WeekCard}, {Secured, Unsecured}, 0, 0, 1),
   Usage({q1}, {4}, {3}, {"quote", "request", "pay", "reverse"}, {WeekCard}, {Secured}, 0, 1, 2)}

MCHireSymmetry == Permutations(MCCalls)

=============================================================================
