------------------------------- MODULE Hire --------------------------------
(***************************************************************************)
(* The terms of a hire, from the price a renter is quoted to the money in  *)
(* the ledger: QuotesService, BookingsService.request, payForHire and      *)
(* holdDamageSecurity, while the owner edits the rates and administrators  *)
(* publish new versions of the category.                                   *)
(*                                                                         *)
(* One listing.  Calls are cut where the terms they hold can go stale.     *)
(* Bookings.tla has the races over the calendar and Payments.tla those     *)
(* over attempts; here the amounts are at stake.  A refusal changes        *)
(* nothing and is not a step.                                              *)
(***************************************************************************)
EXTENDS Ledger, BookingStates, Sequences

CONSTANTS
  Owner,             \* the listing's owner, one of Owners
  Renters,
  QuoteIds,
  Calls,             \* concurrent requests and sweeps
  ReplacementValue,  \* the listing's
  Usages,            \* what a behaviour asks for, and how long it may go on for:
                     \* [quotes, dates, lengths, ops, rates, configurations, maxNow, maxEdits,
                     \* maxAttempts]
  QUOTE_VALIDITY, HOUR, DAY,   \* on the clock
  MaxVersions, MaxAttempts     \* bounds

ASSUME HireAssumption ==
  Owner \in Owners /\ Owner \notin Renters /\ ReplacementValue \in Nat /\ DAY \in Nat \ {0}

VARIABLES
  listing,    \* the row: its rates, and whether the public sees it
  versions,   \* category_versions, by versionNumber
  quotes,     \* the quotes table
  bookings,   \* the bookings table, by quoteId, which is unique
  intents,    \* payment_intents, by attempt key
  charges,    \* external: what the provider has under each attempt key
  calls,      \* what each call is doing
  now,
  usage, edits

rows == <<listing, versions, quotes, bookings, intents, charges, ledgerVars>>
vars == <<rows, calls, now, usage, edits>>

Idle == [at |-> "idle"]

current == versions[Len(versions)]
today == now \div DAY
weekdayOf(date) == (date % 7) + 1

Return(c) == calls' = [calls EXCEPT ![c] = Idle]
Goto(c, record) == calls' = [calls EXCEPT ![c] = record]

(***************************************************************************)
(* The catalogue's side.                                                   *)
(***************************************************************************)
\* What a quote needs to know of the listing, with the category's current
\* settings, in one query.
QuotableListing ==
  [ownerId |-> Owner, rates |-> listing.rates, replacementValue |-> ReplacementValue,
   currentCategoryVersionId |-> Len(versions), currentFeePolicy |-> current.feePolicy,
   currentDamageSecurity |-> current.damageSecurity,
   currentMaximumRentalDays |-> current.maximumRentalDays,
   currentRequestExpiryHours |-> current.requestExpiryHours]

\* Only while the public sees the listing.
findQuotable == IF listing.visible THEN QuotableListing ELSE None

editRates(rates) ==
  /\ edits < usage.maxEdits /\ rates # listing.rates
  /\ listingRateCardSchema(rates) /\ rates.daily # None
  /\ listing' = [listing EXCEPT !.rates = rates]
  /\ edits' = edits + 1
  /\ UNCHANGED <<versions, quotes, bookings, intents, charges, ledgerVars, calls, now, usage>>

pauseOrResume ==
  /\ edits < usage.maxEdits
  /\ listing' = [listing EXCEPT !.visible = ~listing.visible]
  /\ edits' = edits + 1
  /\ UNCHANGED <<versions, quotes, bookings, intents, charges, ledgerVars, calls, now, usage>>

\* reconfigure: the settings are judged, then the latest number is read and the
\* next one inserted; the unique number refuses the second of two.
reconfigure(c, configuration) ==
  /\ calls[c] = Idle /\ "reconfigure" \in usage.ops
  /\ categoryConfigurationSchema(configuration)
  /\ meetsMarginRule(configuration.feePolicy).meetsRule
  /\ Goto(c, [at |-> "addVersion", number |-> Len(versions) + 1, configuration |-> configuration])
  /\ UNCHANGED <<rows, now, usage, edits>>

addVersion(c) ==
  /\ calls[c].at = "addVersion"
  /\ versions' = IF calls[c].number = Len(versions) + 1 /\ Len(versions) < MaxVersions
                 THEN Append(versions, calls[c].configuration) ELSE versions
  /\ Return(c)
  /\ UNCHANGED <<listing, quotes, bookings, intents, charges, ledgerVars, now, usage, edits>>

findFeePolicy(id) == versions[id].feePolicy

(***************************************************************************)
(* Quotes.                                                                 *)
(***************************************************************************)
overlaps(a, b) == a.startAt < b.endAt /\ b.startAt < a.endAt

\* reasonUnavailable, of this listing's bookings.
unavailable(period) ==
  \E q \in QuoteIds : /\ bookings[q] # None
                      /\ bookings[q].state \in CALENDAR_OCCUPYING_STATES
                      /\ overlaps(bookings[q], period)

\* A hire starts today at the earliest.
refusePastPeriod(start) == start < today

\* quote: the listing, then every refusal, in order.
quote(c, q, renter, start, length) ==
  /\ calls[c] = Idle /\ "quote" \in usage.ops
  /\ quotes[q] = None /\ \A d \in Calls : calls[d].at = "quote" => calls[d].q # q
  /\ LET found  == findQuotable
         period == periodFromLocalDates(start, start + length - 1) IN
     /\ found # None
     /\ renter # found.ownerId
     /\ ~refusePeriod(period, found.currentMaximumRentalDays)
     /\ ~refusePastPeriod(start)
     /\ Goto(c, [at |-> "quote", q |-> q, renter |-> renter, period |-> period, found |-> found])
  /\ UNCHANGED <<rows, now, usage, edits>>

expiryFromNow == now + QUOTE_VALIDITY

\* The row: every term pinned, nothing of it to be worked out again.  The rates
\* it was priced from are kept beside it, for the properties.
NewQuote(call, priced) ==
  [renter |-> call.renter, startAt |-> call.period.startAt, endAt |-> call.period.endAt,
   categoryVersionId |-> call.found.currentCategoryVersionId,
   itemCharge |-> priced.itemCharge, renterFee |-> priced.renterFee, total |-> priced.total,
   minimumFeeApplied |-> priced.minimumFeeApplied, lineItems |-> priced.lineItems,
   appliedExcess |-> appliedExcessOrNone(call.found.currentDamageSecurity,
                                         call.found.replacementValue),
   expiresAt |-> expiryFromNow, rates |-> call.found.rates]

\* ... the calendar, the price, and the row.
quoteCreate(c) ==
  /\ calls[c].at = "quote"
  /\ LET call == calls[c]
         priced == priceRental(rentalPeriodDays(call.period), weekdayOf(call.period.startAt),
                               call.found.rates, call.found.currentFeePolicy)
         refused == \/ unavailable(call.period)
                    \/ refuseBelowMinimumBooking(priced.total, call.found.currentFeePolicy) IN
     quotes' = IF refused THEN quotes ELSE [quotes EXCEPT ![call.q] = NewQuote(call, priced)]
  /\ Return(c)
  /\ UNCHANGED <<listing, versions, bookings, intents, charges, ledgerVars, now, usage, edits>>

\* eraseFor: the renter's quotes no booking was made from.
eraseFor(renter) ==
  /\ "erase" \in usage.ops
  /\ quotes' = [q \in QuoteIds |->
                  IF quotes[q] # None /\ quotes[q].renter = renter /\ bookings[q] = None
                  THEN None ELSE quotes[q]]
  /\ quotes' # quotes
  /\ UNCHANGED <<listing, versions, bookings, intents, charges, ledgerVars, calls, now, usage, edits>>

(***************************************************************************)
(* The request and its answer.                                             *)
(***************************************************************************)
\* request: the quote, while it is valid, and the listing again.
request(c, q) ==
  /\ calls[c] = Idle /\ "request" \in usage.ops
  /\ quotes[q] # None /\ quotes[q].expiresAt > now
  /\ findQuotable # None /\ findQuotable.ownerId # quotes[q].renter
  /\ Goto(c, [at |-> "request", quoteId |-> q, quote |-> quotes[q], found |-> findQuotable])
  /\ UNCHANGED <<rows, now, usage, edits>>

requestDeadline(hours) == now + HOUR * hours

\* Mutant: the version is the category's current one.
NewBooking_current(call) ==
  [renter |-> call.quote.renter, state |-> "REQUESTED", startAt |-> call.quote.startAt,
   endAt |-> call.quote.endAt, categoryVersionId |-> call.found.currentCategoryVersionId,
   itemCharge |-> call.quote.itemCharge, renterFee |-> call.quote.renterFee,
   total |-> call.quote.total, appliedExcess |-> call.quote.appliedExcess,
   requestExpiresAt |-> requestDeadline(call.found.currentRequestExpiryHours)]

\* The row: the terms are the quote's, the deadline is the category's.
NewBooking(call) ==
  [renter |-> call.quote.renter, state |-> "REQUESTED", startAt |-> call.quote.startAt,
   endAt |-> call.quote.endAt, categoryVersionId |-> call.quote.categoryVersionId,
   itemCharge |-> call.quote.itemCharge, renterFee |-> call.quote.renterFee,
   total |-> call.quote.total, appliedExcess |-> call.quote.appliedExcess,
   requestExpiresAt |-> requestDeadline(call.found.currentRequestExpiryHours)]

\* The calendar, then the insert, which is refused where the quote has a booking
\* already or has been erased.
requestCreate(c) ==
  /\ calls[c].at = "request"
  /\ LET call == calls[c]
         q == call.quoteId IN
     bookings' = IF unavailable(call.quote) \/ bookings[q] # None \/ quotes[q] = None
                 THEN bookings ELSE [bookings EXCEPT ![q] = NewBooking(call)]
  /\ Return(c)
  /\ UNCHANGED <<listing, versions, quotes, intents, charges, ledgerVars, now, usage, edits>>

\* accept, one transaction: the overlapping requests are declined with it.
accept(q) ==
  /\ "request" \in usage.ops
  /\ bookings[q] # None /\ bookings[q].state = "REQUESTED"
  /\ bookings[q].requestExpiresAt > now
  /\ ~unavailable(bookings[q])
  /\ bookings' = [p \in QuoteIds |->
       IF p = q THEN [bookings[p] EXCEPT !.state = "ACCEPTED"]
       ELSE IF bookings[p] # None /\ bookings[p].state = "REQUESTED"
                 /\ overlaps(bookings[p], bookings[q])
            THEN [bookings[p] EXCEPT !.state = "DECLINED"]
            ELSE bookings[p]]
  /\ UNCHANGED <<listing, versions, quotes, intents, charges, ledgerVars, calls, now, usage, edits>>

(***************************************************************************)
(* Attempts at the charge and at the hold, and their outcomes.             *)
(***************************************************************************)
TERMINAL_STATUSES == {"succeeded", "failed"}
ProviderStatuses == {"pending_payer_action", "processing"} \cup TERMINAL_STATUSES

\* hireAttemptKey, securityHoldKey
Keys == {"hire_charge", "damage_security"} \X QuoteIds \X (0..(MaxAttempts - 1))

attemptKeyFor(q, purpose) ==
  <<purpose, q, Cardinality({k \in Keys : /\ k[1] = purpose /\ k[2] = q
                                          /\ intents[k] # None /\ intents[k].status = "failed"})>>

NewHireCharge(q) ==
  [booking |-> q, purpose |-> "hire_charge", owner |-> Owner, status |-> "initiated",
   categoryVersionId |-> bookings[q].categoryVersionId, itemCharge |-> bookings[q].itemCharge,
   renterFee |-> bookings[q].renterFee, amount |-> bookings[q].total]

NewDamageSecurityHold(q) ==
  [booking |-> q, purpose |-> "damage_security", owner |-> Owner, status |-> "initiated",
   categoryVersionId |-> bookings[q].categoryVersionId, itemCharge |-> None,
   renterFee |-> None, amount |-> bookings[q].appliedExcess.amount]

\* assertSameAttempt: the row found under the key is for the payment proposed.
assertSameAttempt(proposed, found) ==
  [found EXCEPT !.status = proposed.status] = proposed

\* begin: the row under the key, made unless it is there.  Only an attempt
\* nothing was heard of is taken to the provider.
begin(c, key, proposed) ==
  LET found == IF intents[key] = None THEN proposed ELSE intents[key] IN
  /\ key \in Keys /\ key[3] < usage.maxAttempts
  /\ assertSameAttempt(proposed, found)
  /\ intents' = [intents EXCEPT ![key] = found]
  /\ Goto(c, [at |-> IF found.status = "initiated" THEN "provider" ELSE "settle",
              key |-> key, seen |-> found.status, answer |-> found.status])

\* pay, movePayable and payForHire: the settlement is tried before anything of
\* the attempt is written.
payForHire(c, q) ==
  LET proposed == NewHireCharge(q) IN
  /\ calls[c] = Idle /\ "pay" \in usage.ops
  /\ bookings[q] # None /\ bookings[q].state \in PAYABLE_STATES
  /\ settleable([itemCharge |-> proposed.itemCharge, renterFee |-> proposed.renterFee,
                 total |-> proposed.amount])
  /\ begin(c, attemptKeyFor(q, "hire_charge"), proposed)
  /\ bookings' = [bookings EXCEPT ![q].state = "AWAITING_PAYMENT"]
  /\ UNCHANGED <<listing, versions, quotes, charges, ledgerVars, now, usage, edits>>

\* secureCollection and holdDamageSecurity.  No excess, or an excess of
\* nothing, asks for no hold.
holdDamageSecurity(c, q) ==
  /\ calls[c] = Idle /\ "hold" \in usage.ops
  /\ bookings[q] # None /\ bookings[q].state = "READY_FOR_COLLECTION"
  /\ bookings[q].appliedExcess # None /\ bookings[q].appliedExcess.amount # 0
  /\ begin(c, attemptKeyFor(q, "damage_security"), NewDamageSecurityHold(q))
  /\ UNCHANGED <<listing, versions, quotes, bookings, charges, ledgerVars, now, usage, edits>>

\* External: the provider opens a charge under the key or answers with the one
\* it has.  The answer may be lost.
ProviderBegin(c, status) ==
  /\ calls[c].at = "provider"
  /\ LET key == calls[c].key IN
     /\ charges[key] \in {None, status}
     /\ charges' = [charges EXCEPT ![key] = status]
     /\ \/ Goto(c, [calls[c] EXCEPT !.at = "apply", !.answer = status])
        \/ Return(c)
  /\ UNCHANGED <<listing, versions, quotes, bookings, intents, ledgerVars, now, usage, edits>>

\* External: a charge goes on at the provider.
ChargeProgress(key, status) ==
  /\ charges[key] \in {"pending_payer_action", "processing"}
  /\ status \in {"processing"} \cup TERMINAL_STATUSES /\ status # charges[key]
  /\ charges' = [charges EXCEPT ![key] = status]
  /\ UNCHANGED <<listing, versions, quotes, bookings, intents, ledgerVars, calls, now, usage, edits>>

\* refresh: what has become of an attempt that has not ended.
refresh(c, key) ==
  /\ calls[c] = Idle /\ "pay" \in usage.ops
  /\ intents[key] # None /\ intents[key].status \in {"pending_payer_action", "processing"}
  /\ Goto(c, [at |-> "apply", key |-> key, seen |-> intents[key].status,
              answer |-> charges[key]])
  /\ UNCHANGED <<rows, now, usage, edits>>

\* postCapture's draft, from the attempt's own terms and the version it pins.
captureDraft(intent) ==
  LET settlement == settleHire([itemCharge |-> intent.itemCharge, renterFee |-> intent.renterFee,
                                total |-> intent.amount],
                               findFeePolicy(intent.categoryVersionId))
  IN Draft(hireCaptureKey(intent.booking), "hire_charge_captured", intent.booking, None,
           hireCaptureEntries(settlement, intent.owner))

\* applyOutcome, of the attempt as it was read: nothing new is ignored; a
\* charge that succeeded is posted, its accounts opened and its key looked up,
\* before it is recorded.
applyOutcome(c) ==
  /\ calls[c].at = "apply"
  /\ LET call == calls[c]
         intent == intents[call.key]
         draft == captureDraft(intent) IN
     \/ /\ call.answer = call.seen
        /\ Goto(c, [call EXCEPT !.at = "settle"])
        /\ UNCHANGED accounts
     \/ /\ call.answer # call.seen /\ call.answer = "succeeded" /\ intent.purpose = "hire_charge"
        /\ assertPostable(draft)
        /\ accountFor({accountIdentityOf(kind, intent.owner) : kind \in LEDGER_ACCOUNT_KINDS})
        /\ \/ /\ findByIdempotencyKey(draft.key) = {}
              /\ Goto(c, [at |-> "post", draft |-> draft, key |-> call.key])
           \/ /\ findByIdempotencyKey(draft.key) # {}
              /\ IF assertSameTransaction(draft) THEN Goto(c, [call EXCEPT !.at = "record"])
                 ELSE Return(c)
     \/ /\ call.answer # call.seen /\ ~(call.answer = "succeeded" /\ intent.purpose = "hire_charge")
        /\ Goto(c, [call EXCEPT !.at = "record"])
        /\ UNCHANGED accounts
  /\ UNCHANGED <<listing, versions, quotes, bookings, intents, charges, ledger, now, usage, edits>>

\* The insert of a capture or of a correction.
post(c) ==
  /\ calls[c].at = "post"
  /\ create(calls[c].draft)
  /\ IF calls[c].key = None \/ ~assertSameTransaction(calls[c].draft) THEN Return(c)
     ELSE Goto(c, [at |-> "record", key |-> calls[c].key, seen |-> "", answer |-> "succeeded"])
  /\ UNCHANGED <<listing, versions, quotes, bookings, intents, charges, accounts, now, usage, edits>>

\* recordOutcome: an UPDATE by id; the index refuses a second success.
recordOutcome(c) ==
  /\ calls[c].at = "record"
  /\ LET key == calls[c].key
         second == calls[c].answer = "succeeded" /\ \E k \in Keys \ {key} :
                     /\ k[1] = key[1] /\ k[2] = key[2]
                     /\ intents[k] # None /\ intents[k].status = "succeeded" IN
     \/ second /\ Return(c) /\ UNCHANGED intents
     \/ /\ ~second
        /\ intents' = [intents EXCEPT ![key].status = calls[c].answer]
        /\ Goto(c, [calls[c] EXCEPT !.at = "settle"])
  /\ UNCHANGED <<listing, versions, quotes, bookings, charges, ledgerVars, now, usage, edits>>

\* The booking follows the charge, and of a hold only one that failed: a
\* compare-and-set that may find nothing to move.
settle(c) ==
  /\ calls[c].at = "settle"
  /\ LET q == calls[c].key[2]
         answer == calls[c].answer
         move == CASE calls[c].key[1] = "hire_charge" /\ answer = "succeeded"
                        -> <<"AWAITING_PAYMENT", "RESERVED">>
                   [] calls[c].key[1] = "hire_charge" /\ answer = "failed"
                        -> <<"AWAITING_PAYMENT", "PAYMENT_FAILED">>
                   [] calls[c].key[1] = "damage_security" /\ answer = "failed"
                        -> <<"READY_FOR_COLLECTION", "SECURITY_FAILED">>
                   [] OTHER -> <<"", "">> IN
     bookings' = IF bookings[q].state = move[1] THEN [bookings EXCEPT ![q].state = move[2]]
                 ELSE bookings
  /\ Return(c)
  /\ UNCHANGED <<listing, versions, quotes, intents, charges, ledgerVars, now, usage, edits>>

\* LedgerService.reverse, under a key of the caller's: the original is read,
\* the draft checked and its key looked up.
reverse(c, t, key) ==
  /\ calls[c] = Idle /\ "reverse" \in usage.ops
  /\ assertPostable(reversalOf(t, key))
  /\ findByIdempotencyKey(key) = {}
  /\ Goto(c, [at |-> "post", draft |-> reversalOf(t, key), key |-> None])
  /\ UNCHANGED <<rows, now, usage, edits>>

\* Nothing in the repository opens the collection window yet.
CollectionOpens(q) ==
  /\ "hold" \in usage.ops
  /\ bookings[q] # None /\ bookings[q].state \in {"RESERVED", "SECURITY_FAILED"}
  /\ bookings' = [bookings EXCEPT ![q].state = "READY_FOR_COLLECTION"]
  /\ UNCHANGED <<listing, versions, quotes, intents, charges, ledgerVars, calls, now, usage, edits>>

\* A process ends between two statements.
Crash(c) ==
  /\ calls[c].at \in {"post", "record", "settle"} /\ edits < usage.maxEdits
  /\ edits' = edits + 1
  /\ Return(c)
  /\ UNCHANGED <<rows, now, usage>>

Tick == now < usage.maxNow /\ now' = now + 1 /\ UNCHANGED <<rows, calls, usage, edits>>

Init ==
  /\ usage \in Usages
  /\ listing \in [rates : {r \in usage.rates : r.daily # None}, visible : {TRUE}]
  /\ versions \in {<<c>> : c \in {d \in usage.configurations :
                     categoryConfigurationSchema(d) /\ meetsMarginRule(d.feePolicy).meetsRule}}
  /\ quotes = [q \in QuoteIds |-> None]
  /\ bookings = [q \in QuoteIds |-> None]
  /\ intents = [k \in Keys |-> None] /\ charges = [k \in Keys |-> None]
  /\ accounts = {} /\ ledger = {}
  /\ calls = [c \in Calls |-> Idle]
  /\ now = 0 /\ edits = 0

Step(c) ==
  \/ addVersion(c) \/ quoteCreate(c) \/ requestCreate(c)
  \/ \E status \in ProviderStatuses : ProviderBegin(c, status)
  \/ applyOutcome(c) \/ post(c) \/ recordOutcome(c) \/ settle(c) \/ Crash(c)

Start(c) ==
  \/ \E configuration \in usage.configurations : reconfigure(c, configuration)
  \/ \E q \in usage.quotes, r \in Renters, d \in usage.dates, n \in usage.lengths : quote(c, q, r, d, n)
  \/ \E q \in QuoteIds : request(c, q)
  \/ \E q \in QuoteIds : payForHire(c, q) \/ holdDamageSecurity(c, q)
  \/ \E k \in Keys : refresh(c, k)
  \/ \E t \in ledger, n \in 1..2 : reverse(c, t, <<"correction", n>>)

Next ==
  \/ \E c \in Calls : Step(c) \/ Start(c)
  \/ \E rates \in usage.rates : editRates(rates)
  \/ pauseOrResume
  \/ \E r \in Renters : eraseFor(r)
  \/ \E q \in QuoteIds : accept(q) \/ CollectionOpens(q)
  \/ \E k \in Keys, status \in ProviderStatuses : ChargeProgress(k, status)
  \/ Tick

Spec == Init /\ [][Next]_vars

(***************************************************************************)
(* Properties.                                                             *)
(***************************************************************************)

\* Every way of covering a hire with the owner's units, at most one of them a
\* weekend, and that only from a Friday.
Covers(q) ==
  LET days == q.endAt - q.startAt
      weekends == IF q.rates.weekend # None /\ weekdayOf(q.startAt) = 5 THEN {0, 1} ELSE {0}
      weeks == IF q.rates.weekly # None THEN 0..(days \div 7 + 1) ELSE {0}
  IN {n \in (0..days) \X weekends \X weeks : n[1] + 3 * n[2] + 7 * n[3] >= days}

CoverPrice(q, n) ==
  n[1] * q.rates.daily + (IF n[2] > 0 THEN n[2] * q.rates.weekend ELSE 0)
                       + (IF n[3] > 0 THEN n[3] * q.rates.weekly ELSE 0)

\* rental-quote.ts: a renter is quoted the cheapest cover of their dates at the
\* owner's rates and never more than a longer hire's; the lines add up to the
\* charge, and the charge and the fee of the version it pins to the total,
\* which is never below that version's minimum, nor for a day's hire above the
\* price per day the listing shows.
QuotedTheCheapest ==
  \A i \in {j \in QuoteIds : quotes[j] # None} :
    LET q == quotes[i]
        policy == versions[q.categoryVersionId].feePolicy IN
    /\ q.itemCharge = Min({CoverPrice(q, n) : n \in Covers(q)})
    /\ MapThenSumSet(LAMBDA l : l.subtotal, q.lineItems) = q.itemCharge
    /\ q.renterFee >= policy.minimumPlatformFee
    /\ 2 * BASIS_POINTS_PER_UNIT * q.renterFee
         <= maxOf(2 * BASIS_POINTS_PER_UNIT * policy.minimumPlatformFee,
                  2 * q.itemCharge * policy.renterFeeBasisPoints + BASIS_POINTS_PER_UNIT)
    /\ q.total = q.itemCharge + q.renterFee /\ q.total >= policy.minimumBookingTotal
    /\ q.endAt - q.startAt = 1 => q.total <= inclusiveDailyPrice(q.rates, policy).total

\* What a renter agreed to is what is charged, held and paid out, however the
\* rates and the category change meanwhile: the capture takes the quoted total,
\* keeps the commission of the version quoted under and owes the owner the
\* rest, the hold is the quoted excess, and the quote a booking was made from
\* is there to say so.
AgreedTermsAreCharged ==
  \A i \in {j \in QuoteIds : bookings[j] # None} :
    /\ quotes[i] # None
    /\ LET q == quotes[i]
           policy == versions[q.categoryVersionId].feePolicy
           kept == percentageOf(q.itemCharge, policy.ownerCommissionBasisPoints) IN
       /\ \A t \in {u \in ledger : u.booking = i /\ u.reverses = None} :
            /\ balanceOf(t.entries, accountIdentityOf("provider_clearing", None)) = q.total
            /\ balanceOf(t.entries, accountIdentityOf("owner_payable", Owner)) = q.itemCharge - kept
            /\ balanceOf(t.entries, accountIdentityOf("platform_revenue", None)) = q.renterFee + kept
       /\ \A k \in Keys : k[2] = i /\ intents[k] # None =>
            intents[k].amount = IF k[1] = "hire_charge" THEN q.total ELSE q.appliedExcess.amount
       /\ bookings[i].state = "RESERVED" => findByIdempotencyKey(hireCaptureKey(i)) # {}

\* margin-rule.ts: a category may not be enabled for public booking if the
\* contribution margin at the minimum booking total is negative; so no quote a
\* category admits loses the platform money.
NoQuoteLosesMoney ==
  \A i \in {j \in QuoteIds : quotes[j] # None} :
    unitEconomicsOf(quotes[i].itemCharge, 0, RULE_ACTIVITY_LEVEL,
                    versions[quotes[i].categoryVersionId].feePolicy,
                    UK_STRIPE_COST_MODEL).contributionMargin >= 0

=============================================================================
