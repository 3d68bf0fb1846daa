# The rental marketplace in TLA+

A renter searches for a tool, is quoted a price, requests a booking; the
listing's owner accepts or declines, an unanswered request expires, an accepted
one is paid for and held against damage. The API (`apps/api`, NestJS over
Postgres, Redis and an object store) does this in request handlers that run
concurrently with each other and with sweeps the worker (`apps/worker`, BullMQ)
triggers. The site (`apps/web`, Next.js) calls the API from server actions and
tells people what happened. `scripts/deploy.mjs` releases all three.

This directory models those parts as state machines, checks them with TLC on
small instances, and proves the main safety results with TLAPS for every
instance. Paths below are relative to `src/apps/api/src` unless they start with
`apps`, `packages` or `scripts`. `PROJECT.json` maps every definition to the
lines it models, and lists every part of the system, modelled or not, and the
hazards of the code with the properties that cover them.

## The parts and the modules

| Part | Modules | State | Proofs |
|---|---|---|---|
| Bookings and availability (`booking/`) | `BookingStates`, `Bookings`, `Calendar` (abstract) | `bookings`, `booking_events`, `availability_blocks`, calls with their locks | `BookingsProofs` |
| Payments and reconciliation (`payments/`) | `Payments` | the booking's payment states, `payment_intents`, the ledger's captures, charges at the provider | `PaymentsProofs` |
| Terms and money (`pricing/`, `booking/quotes.service.ts`, `payments/ledger*.ts`) | `Pricing`, `Ledger`, `Hire` | quotes, bookings' terms, accounts and entries | |
| Catalogue (`catalogue/`) | `Listings`, `ListingMedia`, `Catalogue` | category versions, listings, locations, photograph rows and their objects | `CatalogueInvariant`, `CatalogueProofs` |
| Identity and administration (`identity/`, `profiles/`) | `Accounts`, `Administration`, `Identity` | users, profiles, sign-ins, the webhook ledger, role approvals | `IdentityInvariant`, `IdentityProofs` |
| Processes, limiter, switches (`apps/worker/src`, `packages/runtime`, `rate-limiting/`, `feature-flags/`) | `Processes`, `Gates` | the broker, schedules, jobs, health file, closing sequence; the Redis counter; a switch and its cached copy | `PlatformProofs` |
| Releases (`scripts/deploy.mjs`, `scripts/lib/release-plan.mjs`) | `Release` | state file, env file, containers, images, database migrations | `ReleaseProofs` |
| Forms and answers (controllers, `apps/web/src/lib`, server actions) | `Endpoints`, `Clients`, `Pages`, `Journeys` | one person, one form, its attempts on a lossy network | |
| Screens (`apps/web/src/app`, `apps/web/src/components`, `search-location/`) | `Search`, `AttributeForms`, `CalendarPage`, `OwnerPage`, `Screens` | what a page shows and what it was drawn from | `PlatformProofs` (`OwnerPage`) |

`Operations` is the choice between the platform (`Processes` with `Gates`) and a
release; `Screens` the choice between four pages that share no state. A behaviour
follows one of them. The `MC*` modules give the constants their values.

The parts meet where the code lets them: `Bookings` sees payments as the moves
`advance` makes, `Payments` sees a booking between acceptance and reservation,
`Hire` carries the terms from the quote to the ledger, `Catalogue` takes bookings
as foreign keys on its listings, `Journeys` takes each endpoint's answers from
`Endpoints`.

### Bookings

One step per SQL statement that can interleave. `state`, `events` and `blocks`
are committed rows; `op[p]` is what call `p` is doing, with the rows it has locked
(`held`) and has yet to lock (`todo`). Uncommitted writes stay in the record and
appear at the commit. A statement reads committed rows; an `UPDATE` waits while
another call holds the row (`Locked`); the exclusion constraint refuses a
committed overlap and waits for an uncommitted one (`ConflictCommitted`,
`ConflictInFlight`); a cycle of waits makes any of its members the victim
(`DeadlockVictim`), and `accept` retries up to `DEADLOCK_ATTEMPTS`.

| Action | Code |
|---|---|
| `RequestChecks`, `RequestInsert` | `BookingsService.request`; `PrismaBookingStore.write` and the unique index on `quoteId` |
| `AcceptChecks`, `AcceptDates` | the reads of `BookingsService.accept` |
| `AcceptRead`, `AcceptUpdate`, `AcceptExclude`, `AcceptLoser`, `AcceptCommit` | the transaction of `PrismaBookingStore.accept` |
| `DeclineRead`, `DeclineUpdate` | `decline` |
| `SweepSelect`, `SweepRow`, `SweepCommit` | `expireRequests` |
| `Advance` | `advance`, for the moves payments make |
| `block`, `unblock`, `DeadlinePasses`, `Crash` | the owner's calendar, the clock, a call cut short |

`Calendar` is the promise in one variable: the set of bookings that hold their
dates, to which one is added only when it overlaps none. `Bookings` implements it
with `taken <- Occupying`.

### Payments

One press of pay from `BookingsService.pay` through `payForHire` to `settle`, and
`ReconciliationService.sweep` through `refresh`; both share `applyOutcome` and
`recordOutcome`. An attempt is `<<booking, n>>`, its key `hire:<booking>:<n>`.
`charge` is the provider's side and is external: `begin` is idempotent per key, a
charge moves on its own, its ending is final, any answer may be lost, and an
answer in hand may be older than the charge. `older` is the order of `updatedAt`,
which `findUnsettled` sorts by.

### Hire, Pricing, Ledger

`Pricing` has the cheapest cover of a period by day, weekend and week rates, the
fee policy with its minimum, the damage band and the margin rule, in pence with
the code's rounding. `Hire` cuts `QuotesService.quote`, `request`, `payForHire`
and `holdDamageSecurity` where the terms they hold can go stale, while rates and
category versions change. `Ledger` is accounts, postings under an idempotency key
and reversals.

### Catalogue

One category with versions. A request is a sequence of awaited calls
(`createDraft` → `createDraftPin` → `createDraftInsert`, `edit` → `editOption` →
`editPlace` → `editComplete` → `updatePin` → `updateWrite`, `publish`, `pause`,
`moderate`, `reconfigure`, `add` → `addCount` → `addPut` → `append` →
`appendRow`, `remove`, `reorder`, `eraseFor` → … → `eraseOwnedBy`) and interleaves
at each. A form is reduced to the version it was made for, which questions it
answers, its transport and its postcode; a point to the postcode it was found for
and its offset. The geocoder and the object store may fail at every call, and an
erasure at every one of its awaits (`eraseFails`), between the photographs' bytes
and their rows included. Two fields are the model's own memory: `discarded` marks
the rows whose bytes an erasure has set out to delete, `collapsed` a booked listing
an erasure has kept without its address.

### Identity

`Accounts` is the mirror of the identity provider: sessions provision and correct
a row, deliveries are claimed in a ledger and then applied, erasure removes the
profile, the others' data and then marks the row. `Administration` is suspension
and the two-person role change. Each awaited call is a step, `fail` cuts a request
short at any of them, deliveries repeat and arrive in any order. A sign-in
remembers whether it was recorded after the account was deleted (`late`).

### Processes, Gates, Release

`Processes` follows one process, the API or the worker: connection, registration
of schedules, jobs, the health file, and the closing sequence with its bounds. A
health probe is begun by an interval and has a step for each of its awaits: `INFO`,
the broker's reading of the schedules, and the write once the answer is back; any
of them may fail or wait while the broker is away. `missing` belongs to the
surroundings, not to the probe: intervals since the broker last held both
schedules. `probe.late` remembers how many intervals passed between the broker's
answer and the last write of the file.
`Gates` adds the limiter's three Redis commands (`INCR`, `EXPIRE`, `TTL`) and the
flag cache: read, fill, drop, and an administrator's write between them, whose
answer may be lost with the row written and the copy left (`cache.late`).
`Release` is `deploy.mjs` statement by statement: read the state, plan, migrate,
swap, probe, then record and prune or put the previous release back. Commands
crash, compose may not do what it was told, a write of the state file may be cut.

### Journeys

`Endpoints` has, for each route, whom it admits and each answer it gives;
`Clients` how `apps/web/src/lib` reads a status and a body; `Pages` what the server
action then tells the person. `Journeys` sends a form through them while requests
are lost, answers are lost or damaged, the caller's standing changes, and the
person tries again.

### Screens

`Search` is the address a search is spelled in, its forms and links, and the
answer put together from three reads. `AttributeForms` is the editor of a
category's questions, the form drawn from them and the answers stored under an
older version. `CalendarPage` is blocks by local date, read a month at a time
across the clock changes. `OwnerPage` is a page drawn from several reads, its
forms, and the order in which it is drawn again.

### Abstractions

- Periods and listings become the relation `Conflicts`, blocks become `Hits`, in
  `Bookings`; the arithmetic of periods is in `Hire` and `CalendarPage`.
- In `Bookings`, checks that only refuse (of the quote, the listing, who is a
  party) are left out; in `Endpoints` they are the answers.
- `Advance` is one step; that it might itself be a deadlock's victim is left out.
- A sweep works through its batch in any order; the code uses the batch's order.
- A photograph's row is kept by photograph; the order of creation, which only
  breaks ties of position, is left out.
- Every unsettled attempt is stale: the fifteen minutes only delay a sweep.
- `dispositionOf` is only reached with a status that is not an ending, so its
  throwing branch does not appear.
- Audit entries appear where they are a step of their own that can be lost.
- In `Release` a tag is a number in commit order, so a release needs the
  migrations of every number up to its own.
- `HalfFallsShort` stands for the amounts at which `Math.round` of a double is a
  penny short; no amount of the instance is one.

## Runs

| Run | Instance | Shows |
|---|---|---|
| `requests` | 2 overlapping requests, 2 handlers, a sweep with a batch of 1, a block, a declined card, a crash | dates are never held twice, losers hold none, histories end in the row's state, only waiting overdue requests expire, the Calendar is implemented |
| `overdue` | 2 requests, 1 handler, 2 sweeps with a batch of 1, a crash | no overdue request waits for ever |
| `return` | 2 requests, 2 handlers, a sweep | every call ends, deadlocks included |
| `payments` | 1 hire, 2 attempts, 2 presses of pay, a sweep, a crash | one capture; books, attempt and booking agree |
| `reconciliation` | 2 hires, 1 payer, a sweep with a batch of 1, a crash | an attempt with a reference reaches its charge's ending, unless a batch that cannot advance stays ahead of it for ever |
| `catalogue` | 1 owner, 1 listing, 3 photographs, 2 requests, 2 versions, a limit of 1 photograph, six usages | stored answers fit the pinned version; points, completeness, moderation, bytes and the limit |
| `identity` | 3 people, 3 deliveries, 3 requests, 1 proposal, one usage per question | deliveries applied once and recorded truthfully; erasure complete; an administrator left; roles change by two |
| `journeys` | every form and view, 2 attempts | a success shown is a success, a refusal shown is a refusal, the reason given is the API's |
| `operations` | 2 requests, a limit of 1 in a window of 2, 4 seconds, 1 outage, 2 starts, a health file stale after 2 intervals; or 3 tags, 5 commands, 2 at a time, 1 fault | health, stops, limiter, switches; migrations, the record and rollbacks |
| `hire_terms` | 1 listing, 3 rate cards, 3 configurations, hires of 1 to 15 days, 2 quotes, 2 calls | the cheapest price, the agreed terms, balanced books |
| `screens` | 5 listings, pages of 2, 12 addresses; 2 versions of questions; 7 days in 2 months; 3 photographs | searches survive links and pages, untouched forms keep answers, days shown as they are, a wrong page says so |
| `transitions` (violation) | 2 requests, 2 handlers, a sweep | see Divergences |

Why the bounds are enough. Two handlers and two overlapping requests are what it
takes to deadlock, and to decide one request twice. Two attempts are what a second
capture needs. A batch of one is the smallest that can be full. Two requests make
every read-then-write of the catalogue stale; a limit of one photograph is passed
by two uploads. Three people are a proposer, an approver and the one whose role
changes; three deliveries are a person created, changed and deleted in any order.
Three tags let a rollback go back twice; a fault is a crash, a failed migration or
containers that did not come up. Five commands build a history, fail, and roll
back. Two intervals tell a health file that is fresh, old and stale apart. Counters are capped by the constants named `Max…`; no proof depends on their
values. Symmetry is used in safety runs only. The usages (`mcUsages`, `MCUsages`)
say which operations a behaviour asks for, so that each question is asked without
the product of all the others.

Deadlock is checked for bookings and payments, where a behaviour can only stop
when everything is settled. In the other runs the bounded counters, and an idle
person, may stop a behaviour, and the check is off.

## Fairness

`WF(Proceed(p))`: a handler or sweep whose next statement can run runs it; Node
and Postgres do not park a runnable call. `SF(SweepRow)`: Postgres gives a row's
lock to those queued for it. `WF(SweepSelect)`, `WF(sweep)`: the worker's
repeating schedules start sweeps for as long as it runs (`Processes` checks that a
healthy worker has them). `SF(ProviderRead)` for each attempt: a provider that is
asked about an attempt again and again answers at some time. An attempt is only
promised its ending if it gets into a batch: `SettledUnlessCrowdedOut` excepts the
one that a whole batch of attempts nothing can be done about precedes for ever
(see Divergences). Nothing is assumed of
renters, owners, deadlines or charges. With `MaxCrashes` finite, liveness is
claimed for behaviours with finitely many crashes.

## Proofs

Each theorem `XHolds` states `Spec => []X` (or `Spec => X` for an action property)
for every value of the constants that meets the named assumptions. The inductive
invariants were checked with TLC on the runs' instances before they were proved.

**BookingsProofs**, from `ConflictsAssumption` (overlap is symmetric and
irreflexive), `CallsAssumption`, `BlocksAssumption`, `BookingsFinite`,
`BoundsAssumption`. `NoDoubleBooking` is not inductive: a commit is safe only
because of what held when the constraint was checked. `IInv` adds that locks are
exclusive (`LocksExclusive`), that a call past the constraint has no committed
overlap (`WinnersFree`) and no rival past it (`WinnersApart`), that a sweep's
locked rows stay waiting and overdue (`SweepHolds`), and what a call holds at each
step (`CallShape`). From it: `TypeCorrect`, `NoDoubleBookingHolds`,
`LatestEventIsStateHolds`, `LosersHoldNoDatesHolds`,
`SweepOnlyExpiresWaitingHolds`, and `CalendarImplemented`, the refinement.

**PaymentsProofs**, from `PaymentCalls`, `PaymentBounds`. `AtMostOneCapture` rests
on `EarlierFailed`: an attempt is opened only when every earlier one has failed at
the provider. The failed attempts are counted, so the key step is `FailedPrefix`:
`n` failed attempts are the first `n`, by a cardinality argument. `CallOK` says
what a call's knowledge is worth after others have moved: an ending it holds is
true of the charge, a success about to be recorded is posted. From `IInv`:
`TypeCorrect`, `AtMostOneCaptureHolds`, `BooksFollowTheChargesHolds`,
`ReservedIsPaidHolds`.

**IdentityInvariant** and **IdentityProofs**, from `AccountsAssumption` (finitely
many people; no tombstone is an address in use), `ProviderAssumption` (events are
well formed, somebody administers at the start), `AdministrationAssumption`. The
first module proves that `IInv` is kept by the steps of accounts and deliveries,
the second by the administrators' and concludes. `IInv` says what a request was
asked and which stages its handler has (`Asked`, `Staged`), that rows it has read
and will write to are there (`Found`), that a delivery being applied has been
claimed (`Claims`), and, where requests are served one at a time, that an account
being served is not deleted, and one being erased has lost its profile and the
activity on its sign-ins by the time it is marked (`Live`), and that whoever is about to be suspended or demoted is not
the last administrator (`Spared`). `AppliedOnceHolds` and
`LedgerIsTruthfulHolds` need no serial order; `DeletedHoldsNothingInTurnHolds` and
`AdministrableInTurnHolds` do, and fail without it. The first excepts the sign-ins
recorded after the deletion, which the code does record (see Divergences).
`RoleChangesTakeTwoHolds` is an action property; `DecidedOnceHolds` says that a
proposal is decided at most once and never altered.

**PlatformProofs**, from `ProcessesAssumption`, `GatesAssumption` and, for the
owner's page, `OwnerPageAssumption` (no message is `NoOutcome`). `InTime` bounds
the closing sequence: the API's three closes cannot reach the whole budget, the
worker's four can only by a second slow one. `Counted` relates a request to the
window it was counted in: that window is over, or its counter is still there and
from `EXPIRE` on has an expiry, before which no refusal ends. `SwitchInv` says that
a cached copy is the row's unless the write has not yet dropped it, its answer was
lost, or a read that began before the write filled it. `HealthInv` says that nothing
is missing while the broker holds both schedules, and that an answer under way is as
old as whatever has been missing since it was given; without the second the write of
the file would not keep `HealthyMeansScheduled`. Theorems: `HealthyMeansScheduledHolds`,
`StopsCleanlyHolds`, `NoLockoutHolds`, `SwitchIsSeenHolds`, over `PlatformSpec`.
The module's last part is about `OwnerPageSpec`. `PageInv` says that a page that
differs from what is stored shows a refusal, was not told of something, waits for
an upload or has a task in the router that will draw it again (`PageTrue`); and the
same of what the task at the head has read so far (`ReadsTrue`), without which
drawing the page would not keep the first. Theorem: `WrongOnlyUnderAnAlertHolds`.

**ReleaseProofs**, from `ReleaseAssumption`. Three arguments. (1)
`SchemaLeadsCodeHolds`: a swap is reached only past the migration of its tag, and
migrations are never undone. (2) `RecordIsGood` and `RollbackWalksBackHolds`: a
state file that can be read names its current release first and none twice; a
rollback takes the entry after the current one and keeps the rest of the order, so
repeated rollbacks go strictly back. Both hold with commands overlapping. (3)
`RecordDescribesTheBoxHolds`: with commands run one at a time, `Boxed` says of each
stage of a command what the record, the env file, the containers and the images
still have in common (`Planned`, `Brought`, `Kept`, `Described`), so that when no
command runs they agree, or a command has said that they do not.

**CatalogueInvariant** and **CatalogueProofs**, from `ListingsAssumption` (finitely
many requests; no row is `None`). The first module has `IInv` and the steps that
only read, or that write a listing; the second the photographs, the erasure and
the conclusions. `IInv` has five parts. `Types`: what a request of each kind was
sent and has read (`Shape`, `Placed`). `Valid`: a form that was accepted fits the
version it was made for, and the version a row is about to be written under is that
one (`Pinned`), from which `PinnedAnswersFit`. `InTurn`, where each owner waits for
the last reply: what a request has read of a listing is still so when it writes
(`Current`), because only its owner's other requests could have changed it; from it
`PointMatchesAddressInTurn` and `PublishedCompleteInTurn`, whose only exception is
the address an erasure took from a booked listing (`Whole`). `Stored`: an upload's
photograph is its own and has its bytes before it has a row, and one whose bytes are
being deleted has lost its row or belongs to an erasure (`Backed`); from it
`PhotographsHaveBytes`, which also says that an erasure that has got past its
photographs left no row of them, whatever failed before. `Within`: photographs and uploads that were counted in
together exceed the limit by fewer than there are requests, by a cardinality
argument; from it `WithinMediaLimit`. `NeitherOverridesHolds` is an action property
of the steps that write a listing's row.

Only model-checked:

- liveness (`OverdueResolved`, `CallsReturn`, `SettledUnlessCrowdedOut`): needs
  fairness and `ENABLED`;
- `QuotedTheCheapest`, `BooksBalance`, `AgreedTermsAreCharged`: the cheapest cover
  and the sums over entries are recursive over their data, which needs induction
  with an operator parameter;
- `Journeys` and the other screens: finite tables of routes and pages, which TLC goes
  through completely, and walks over sorted and filtered sequences
  (`SortSeq`, `SelectSeq`), which the provers do not reason about.

## Divergences

Where the code does something other than a comment beside it says. The first is
kept as the run `transitions`; the others are stated as properties in their
modules, and TLC finds the behaviour when the configuration given names that
property in place of its own.

| Property (module) | The comment | The behaviour | Configuration |
|---|---|---|---|
| `EveryChangeIsATransition` (`Bookings`) | the table is "the one place a booking transition is decided" (`booking/booking-state-machine.ts:5`) | `accept` and `decline` update by id after an earlier read, over whatever was decided in between | `BookingsTransitions` |
| `AcceptNeverSurfacesDeadlock` (`Bookings`) | "Two is enough: after the first winner commits there is nothing left to deadlock against" (`booking/prisma-booking-store.ts:140`) | the retry starts before the winner commits and deadlocks with it again | `BookingsTransitions` |
| `NeverAcceptedOnABlock` (`Bookings`) | "What must never happen is the reverse, a booking landing on a blocked period" (`booking/availability.service.ts:154`) | the block is created between `accept`'s read of the calendar and its commit | `BookingsRequests` |
| `TerminalIsFinal` (`Payments`) | "The statuses an attempt never leaves" (`payments/payment-intent.ts:72`) | a sweep with an older answer overwrites an ending; a later sweep restores it | `PaymentsSafety` with `Payers = {p1}`, `Sweeps = {s1, s2}`, `MaxAttempts = 1`, no symmetry |
| `SucceededLeavesPayable` (`Payments`) | "the booking leaves the payable states the moment one lands" (`payments/payment-intent.ts:389`) | the sweep settles the attempt and moves no booking | `PaymentsSafety` |
| `EveryStaleAttemptSettled` (`Payments`) | "Re-read every stale attempt and apply what the provider says" (`payments/reconciliation.service.ts:101`) | attempts that cannot advance stay at the front of a full batch (100 in the code) | `PaymentsLiveness` |
| `NoQuoteLosesMoney` (`Hire`) | "A category may not be enabled for public booking if contribution margin at the minimum booking total is negative" (`pricing/margin-rule.ts:12`) | the rule takes the whole minimum as the hire charge (`:83`), while a quote compares it with the total, fee included: the charge of a quote at the minimum is smaller, and can lose money | `HireTerms` |
| `PointMatchesAddress` (`Catalogue`) | never "the *old* coordinates under the *new* address" (`catalogue/prisma-listing-store.ts:384`) | two edits of one listing overlap: an address-only edit keeps the point another one has just moved | `CatalogueRequests` |
| `PublishedComplete` (`Catalogue`) | "A published listing may not be edited into an incomplete one" (`catalogue/listings.service.ts:648`) | an edit reads the listing as a draft, `publish` publishes it, and the edit writes what it judged as a draft | `CatalogueRequests` |
| `DeletedHoldsNothing` (`Identity`) | a sign-in recorded for a deleted account "holds no personal data once erasure has nulled the activity columns" (`identity/identity.service.ts:348`) | the sign-in is recorded after the erasure nulled them; or a profile is saved between the erasure's steps | `IdentityRequests` |
| `NextReadIsTheTruth` (`Gates`) | "Dropped rather than expired, so the next read is the truth" (`feature-flags/feature-flags.service.ts:172`) | a read that began before the write fills the cache after the drop; or the write's answer is lost and the copy is never dropped | `Operations` |
| `ProbeOnlyAsksTheBroker` (`Processes`) | "If registration fails while Redis is healthy, the worker runs with no schedule and the health probe — which only asks whether Redis answers — still reads healthy" (`apps/worker/src/main.ts:221`) | the probe asks for the schedules too (`:321`) and does not refresh the file: the comment was left behind, and `HealthyMeansScheduled` states what the code does | `Operations` |
| `ExitsByItsOwnDecision` (`Processes`) | the drain's bound is shorter "so the sequence finishes and exits 0 by its own decision" (`apps/worker/src/main.ts:97`) | an earlier close took time, and the drain's bound then ends after the whole sequence's | `Operations` |
| `EnvFileNamesServing` (`Release`) | "The file then always names what is actually serving" (`scripts/deploy.mjs:133`) | the result of `bringUp` is ignored when the previous release is put back | `Operations` |
| `NothingCharged` (`Journeys`) | "the thing they all must say is that **no money moved**" (`apps/web/src/app/bookings/[bookingId]/actions.ts:130`) | the answer to a payment that was taken is lost | `JourneysAll` |
| `DeletionRefusedIsRefused` (`Journeys`) | "This *is* a confirmed failure — the API refused the token before touching anything" (`apps/web/src/app/account/delete/actions.ts:98`) | the answer to a deletion that was done is lost, and the second attempt is refused because the account has gone: the person is told that nothing was deleted | `JourneysAll` |
| `NothingMeansNothing` (`Search`) | "Nothing on page one means nothing is near them" (`apps/web/src/components/browse-results.tsx:119`) | the page is cut to its size before the listings of owners who may not be shown are taken out of it | `Screens` |
| `UntouchedFormShowsWhatIsStored` (`AttributeForms`) | "an owner who opens the edit form and presses Save without touching anything changes their own data. That is the failure this file exists to prevent" (`apps/web/src/lib/stored-answers.ts:8`) | the number of decimal places changed since the answer was stored | `Screens` |
| `FreshRefusalStays` (`OwnerPage`) | clearing the message when the photographs change "cannot swallow a fresh refusal" (`apps/web/src/components/listing-photographs.tsx:346`) | the photographs change for another reason, a move or a removal answered just after the refusal | `Screens` |

Met while modelling and not stated as properties: two suspensions or demotions at
once, or the deletion of the last administrator's account, leave nobody who can
administer; a `user.deleted` delivery that arrives before its row exists is marked
processed, and a late `user.upserted` then provisions a live account; several
forms say that nothing was saved when the answer was lost; a crash in the middle
of writing the state file leaves an empty one, read as "nothing deployed"
(`scripts/lib/release-plan.mjs:109`); nothing stops two release commands at once;
`KNOWN_JOB_NAMES` lacks `reconcile-payments`; of two quick moves of a photograph
the second, made on the page as it was, undoes the first.

## Not modelled

Encryption, the geocoder's and the payment provider's insides, metrics, logging
and tracing, start-up validation of the environment, seeds and repository checks:
they keep no state that another part decides by. Wording and layout of pages,
image processing, signed addresses, exports and other reads that only project
rows. Tokens and the second factor's proofs are one fact about the caller.
`PROJECT.json` gives the reason for each part.
