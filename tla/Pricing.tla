------------------------------ MODULE Pricing ------------------------------
(***************************************************************************)
(* What a hire costs, who earns what, and which settings are allowed: the  *)
(* money, pricing and settlement functions, none of which has state.       *)
(* An amount is a whole number of pence, a rate a whole number of basis    *)
(* points, and None stands for null.  There is one currency, GBP.          *)
(***************************************************************************)
EXTENDS Integers, FiniteSetsExt

CONSTANTS
  None,
  HalfFallsShort(_, _)   \* where amount * rate is half a penny, is the double below it?

(***************************************************************************)
(* Money.                                                                  *)
(***************************************************************************)
BASIS_POINTS_PER_UNIT == 10000

\* multiply, half-up, by the rate n / d.
multiply(amount, n, d) == (2 * amount * n + d) \div (2 * d)

percentageOf(amount, basisPoints) ==
  LET rounded == multiply(amount, basisPoints, BASIS_POINTS_PER_UNIT)
      tie     == (2 * amount * basisPoints) % (2 * BASIS_POINTS_PER_UNIT) = BASIS_POINTS_PER_UNIT
  IN IF tie /\ HalfFallsShort(amount, basisPoints) THEN rounded - 1 ELSE rounded

maxOf(a, b) == IF a > b THEN a ELSE b
minOf(a, b) == IF a < b THEN a ELSE b

(***************************************************************************)
(* The settings of a category version, and when they are accepted.         *)
(***************************************************************************)
MAX_FEE_BASIS_POINTS == 5000
MAX_PRICING_FLOOR_MINOR_UNITS == 1000000
MAX_EXCESS_PERCENTAGE_BASIS_POINTS == 10000
MAX_DAMAGE_SECURITY_MINOR_UNITS == 1000000
MAX_MAXIMUM_RENTAL_DAYS == 88
MAX_REQUEST_EXPIRY_HOURS == 336

feeBasisPointsSchema == 0..MAX_FEE_BASIS_POINTS
pricingFloorSchema == 0..MAX_PRICING_FLOOR_MINOR_UNITS

CategoryFeePolicy ==
  [ownerCommissionBasisPoints : feeBasisPointsSchema, renterFeeBasisPoints : feeBasisPointsSchema,
   minimumBookingTotal : pricingFloorSchema, minimumPlatformFee : pricingFloorSchema]

checkFloorsAgree(p) == p.minimumPlatformFee <= p.minimumBookingTotal

categoryFeePolicySchema(p) == p \in CategoryFeePolicy /\ checkFloorsAgree(p)

excessPercentageBasisPointsSchema == 0..MAX_EXCESS_PERCENTAGE_BASIS_POINTS
excessFloorSchema == 0..MAX_DAMAGE_SECURITY_MINOR_UNITS
recoveryCeilingSchema == 1..MAX_DAMAGE_SECURITY_MINOR_UNITS

DamageSecurityPolicy ==
  [excessFloor : excessFloorSchema, recoveryCeiling : recoveryCeilingSchema,
   excessPercentageBasisPoints : excessPercentageBasisPointsSchema]

checkExcessBandAgrees(b) == b.excessFloor <= b.recoveryCeiling

damageSecurityPolicySchema(b) == b \in DamageSecurityPolicy /\ checkExcessBandAgrees(b)

maximumRentalDaysSchema(d) == d \in 1..MAX_MAXIMUM_RENTAL_DAYS
requestExpiryHoursSchema(h) == h \in 1..MAX_REQUEST_EXPIRY_HOURS

\* What reconfiguring a category submits, as far as money and time go.
categoryConfigurationSchema(c) ==
  /\ categoryFeePolicySchema(c.feePolicy)
  /\ c.damageSecurity = None \/ damageSecurityPolicySchema(c.damageSecurity)
  /\ maximumRentalDaysSchema(c.maximumRentalDays)
  /\ requestExpiryHoursSchema(c.requestExpiryHours)

MIN_RENTAL_RATE_MINOR_UNITS == 100
MAX_RENTAL_RATE_MINOR_UNITS == 1000000

rentalRateSchema == MIN_RENTAL_RATE_MINOR_UNITS..MAX_RENTAL_RATE_MINOR_UNITS

ListingRateCard ==
  [daily : rentalRateSchema \cup {None}, weekend : rentalRateSchema \cup {None},
   weekly : rentalRateSchema \cup {None}]

\* No weekend or weekly rate without a daily one.
listingRateCardSchema(rates) ==
  rates \in ListingRateCard /\ (rates.daily = None => rates.weekend = None /\ rates.weekly = None)

(***************************************************************************)
(* The fee the renter pays, and the price a listing shows per day.         *)
(***************************************************************************)
renterFeeOn(charge, policy) ==
  LET percentage == percentageOf(charge, policy.renterFeeBasisPoints)
      floored    == percentage < policy.minimumPlatformFee
  IN [fee |-> IF floored THEN policy.minimumPlatformFee ELSE percentage,
      minimumFeeApplied |-> floored]

inclusiveDailyPrice(rates, policy) ==
  IF rates.daily = None THEN None
  ELSE LET f == renterFeeOn(rates.daily, policy)
       IN [rate |-> rates.daily, renterFee |-> f.fee, total |-> rates.daily + f.fee,
           minimumFeeApplied |-> f.minimumFeeApplied]

(***************************************************************************)
(* The damage excess.                                                      *)
(***************************************************************************)
appliedExcessFor(band, replacementValue) ==
  LET percentage == percentageOf(replacementValue, band.excessPercentageBasisPoints)
      greater    == maxOf(band.excessFloor, percentage)
  IN IF greater > band.recoveryCeiling
     THEN [amount |-> band.recoveryCeiling, boundBy |-> "ceiling"]
     ELSE [amount |-> greater,
           boundBy |-> IF percentage > band.excessFloor THEN "percentage" ELSE "floor"]

appliedExcessOrNone(band, replacementValue) ==
  IF band = None THEN None ELSE appliedExcessFor(band, replacementValue)

(***************************************************************************)
(* The period.  Dates are numbers, the instant a date starts at is the     *)
(* date, and a hire's last instant is the start of the day after its last. *)
(***************************************************************************)
periodFromLocalDates(startDate, endDate) == [startAt |-> startDate, endAt |-> endDate + 1]

rentalPeriodDays(p) == maxOf(1, p.endAt - p.startAt)

refusePeriod(p, maximumDays) ==
  \/ p.endAt <= p.startAt
  \/ rentalPeriodDays(p) > minOf(maximumDays, MAX_MAXIMUM_RENTAL_DAYS)

(***************************************************************************)
(* The charge: the cheapest units of the owner's rates covering the hire.  *)
(***************************************************************************)
RENTAL_UNIT_DAYS == [day |-> 1, weekend |-> 3, week |-> 7]
WEEKEND_START_WEEKDAY == 5

\* The rates of the units this hire may be made of.
toAvailableRates(rates, startsOnWeekday) ==
  [day |-> rates.daily,
   weekend |-> IF startsOnWeekday = WEEKEND_START_WEEKDAY THEN rates.weekend ELSE None,
   week |-> rates.weekly]

costOf(counts, rates) ==
  MapThenSumSet(LAMBDA unit : IF counts[unit] > 0 THEN counts[unit] * rates[unit] ELSE 0,
                DOMAIN counts)

ceilDiv(a, b) == (a + b - 1) \div b

\* The combinations considered: so many weekends, so many weeks, days for the rest.
Combination(days, weekends, weeks) ==
  LET afterWeekends == maxOf(0, days - weekends * RENTAL_UNIT_DAYS.weekend)
  IN [weekend |-> weekends, week |-> weeks,
      day |-> maxOf(0, afterWeekends - weeks * RENTAL_UNIT_DAYS.week)]

Combinations(days, rates) ==
  UNION {LET afterWeekends == maxOf(0, days - w * RENTAL_UNIT_DAYS.weekend)
             weekLimit == IF rates.week = None THEN 0 ELSE ceilDiv(afterWeekends, RENTAL_UNIT_DAYS.week)
         IN {Combination(days, w, k) : k \in 0..weekLimit} :
         w \in 0..(IF rates.weekend = None THEN 0 ELSE 1)}

\* Mutant: divide by seven, charge the weeks, charge the remainder daily.
cheapestCombination_decomposed(days, rates) ==
  Combination(days, 0, IF rates.week = None THEN 0 ELSE days \div RENTAL_UNIT_DAYS.week)

\* The search goes from more weekends to fewer and from more weeks to fewer,
\* and only a strictly cheaper combination replaces the one it holds.
cheapestCombination(days, rates) ==
  CHOOSE c \in Combinations(days, rates) :
    \A d \in Combinations(days, rates) \ {c} :
      \/ costOf(c, rates) < costOf(d, rates)
      \/ /\ costOf(c, rates) = costOf(d, rates)
         /\ d.weekend < c.weekend \/ (d.weekend = c.weekend /\ d.week < c.week)

toLineItems(counts, rates) ==
  {[unit |-> u, count |-> counts[u], unitPrice |-> rates[u], subtotal |-> counts[u] * rates[u]] :
     u \in {v \in DOMAIN counts : counts[v] > 0}}

chooseCheapestUnits(days, startsOnWeekday, rates) ==
  IF rates.daily = None \/ days < 1 THEN None
  ELSE LET available == toAvailableRates(rates, startsOnWeekday)
           best == cheapestCombination(days, available)
       IN [lineItems |-> toLineItems(best, available), itemCharge |-> costOf(best, available)]

priceRental(days, startsOnWeekday, rates, policy) ==
  LET units == chooseCheapestUnits(days, startsOnWeekday, rates)
  IN IF units = None THEN None
     ELSE LET f == renterFeeOn(units.itemCharge, policy)
          IN [lineItems |-> units.lineItems, itemCharge |-> units.itemCharge,
              renterFee |-> f.fee, minimumFeeApplied |-> f.minimumFeeApplied,
              total |-> units.itemCharge + f.fee]

refuseBelowMinimumBooking(total, policy) == total < policy.minimumBookingTotal

(***************************************************************************)
(* What the platform earns and spends, and the rule a fee policy must      *)
(* meet.  Rates of costs are in basis points; refundRate and               *)
(* chargebackRate, 0.03 and 0.005, too.                                    *)
(***************************************************************************)
UK_STRIPE_COST_MODEL ==
  [cardProcessing |-> [percent |-> 150, fixed |-> 20],
   damageSecurityProcessing |-> [percent |-> 150, fixed |-> 20],
   payout |-> [percent |-> 25, fixed |-> 10],
   connectedAccountMonthly |-> 200, extendedAuthorisation |-> 0, identityVerification |-> 0,
   smsPerMessage |-> 4, criticalMessagesPerBooking |-> 2,
   disputeFee |-> 2000, refundRate |-> 300, chargebackRate |-> 50, supportPerBooking |-> 15]

applyRate(rate, to) == percentageOf(to, rate.percent) + rate.fixed

unitEconomicsOf(gross, captured, bookingsPerMonth, policy, model) ==
  LET renterFee  == renterFeeOn(gross, policy).fee
      commission == percentageOf(gross, policy.ownerCommissionBasisPoints)
      card       == applyRate(model.cardProcessing, gross + renterFee)
      security   == IF captured = 0 THEN 0 ELSE applyRate(model.damageSecurityProcessing, captured)
      payout     == applyRate(model.payout, gross - commission)
      account    == multiply(model.connectedAccountMonthly, 1, bookingsPerMonth)
      sms        == model.smsPerMessage * model.criticalMessagesPerBooking
      refunds    == percentageOf(card, model.refundRate)
      chargebacks == percentageOf(model.disputeFee + card, model.chargebackRate)
      totalCost  == card + security + payout + account + model.extendedAuthorisation
                      + model.identityVerification + sms + refunds + chargebacks
                      + model.supportPerBooking
  IN [platformRevenue |-> renterFee + commission, totalCost |-> totalCost,
      contributionMargin |-> renterFee + commission - totalCost]

NO_FLOOR_PROBE == 100
RULE_ACTIVITY_LEVEL == 1

\* The booking the rule is judged at: the floor, taken as the hire charge.
marginVerdictFor(policy, model) ==
  LET judgedAt == IF policy.minimumBookingTotal > 0 THEN policy.minimumBookingTotal
                  ELSE NO_FLOOR_PROBE
      margin == unitEconomicsOf(judgedAt, 0, RULE_ACTIVITY_LEVEL, policy, model).contributionMargin
  IN [meetsRule |-> margin >= 0, judgedAt |-> judgedAt, contributionMargin |-> margin]

meetsMarginRule(policy) == marginVerdictFor(policy, UK_STRIPE_COST_MODEL)

(***************************************************************************)
(* The settlement of a charge that has been taken.                         *)
(***************************************************************************)
\* A row whose parts are not its total is not settled.
settleable(charge) == charge.itemCharge + charge.renterFee = charge.total

settleHire(charge, policy) ==
  LET commission == percentageOf(charge.itemCharge, policy.ownerCommissionBasisPoints)
      ownerEarns == charge.itemCharge - commission
  IN [renterPays |-> charge.total, ownerEarns |-> ownerEarns,
      platformEarns |-> charge.total - ownerEarns, ownerCommission |-> commission]

=============================================================================
