---------------------------- MODULE CalendarPage ----------------------------
(***************************************************************************)
(* An owner's calendar: periods of local dates stored as instants, read    *)
(* back a month at a time in two queries, and drawn a day at a time.       *)
(*                                                                         *)
(* A local date is a number and so is an instant.  DayLength gives the     *)
(* instants of each date: the days the clocks change are shorter and       *)
(* longer than the others.                                                 *)
(***************************************************************************)
EXTENDS Integers, FiniteSets, FiniteSetsExt, Sequences

CONSTANTS
  NoMonth,                   \* no page, or no month named
  LastDate, DayLength,       \* the dates 1..LastDate, and the length of each
  Months, MonthLength,       \* 1..n, and the days of each; the dates beyond have none
  MAX_BLOCK_DAYS, MAX_BLOCK_HORIZON_DAYS,
  MaxPeriods, MaxLooks       \* bounds

VARIABLES
  blocks,    \* availability_blocks of the listing
  hires,     \* its bookings in a state that occupies the calendar
  today,     \* the local date
  reading,   \* the read of a month under way
  calendar,  \* the month on screen
  issued, looks

calendarVars == <<blocks, hires, today, reading, calendar, issued, looks>>

(***************************************************************************)
(* Dates and instants.                                                     *)
(***************************************************************************)
calendarDates == 1..LastDate

startOfLocalDay(date) == MapThenSumSet(LAMBDA d : DayLength[d], 1..(date - 1))
toLocalDateString(instant) == CHOOSE d \in calendarDates :
  startOfLocalDay(d) <= instant /\ instant < startOfLocalDay(d + 1)
addLocalDays(date, days) == date + days
rentalDayCount(start, end) ==
  LET days == toLocalDateString(end) - toLocalDateString(start)
  IN IF days < 1 THEN 1 ELSE days

firstDayOf(month) == 1 + MapThenSumSet(LAMBDA m : MonthLength[m], 1..(month - 1))
nextMonth(month) == month + 1
monthOf(date) == CHOOSE m \in Months : firstDayOf(m) <= date /\ date < firstDayOf(nextMonth(m))
daysOf(month) == firstDayOf(month)..(firstDayOf(nextMonth(month)) - 1)

\* Mutant: a day is as long as the first.
periodFromLocalDates_fixed(startDate, endDateInclusive) ==
  [startAt |-> startOfLocalDay(startDate),
   endAt |-> startOfLocalDay(startDate) + (endDateInclusive - startDate + 1) * DayLength[1]]

\* The inclusive last day becomes the start of the day after it.
periodFromLocalDates(startDate, endDateInclusive) ==
  [startAt |-> startOfLocalDay(startDate),
   endAt |-> startOfLocalDay(addLocalDays(endDateInclusive, 1))]

overlaps(period, startAt, endAt) == period.startAt < endAt /\ period.endAt > startAt

\* On the way back the last day is the one the last instant is in.
toWirePeriod(record) ==
  [id |-> record.id, startDate |-> toLocalDateString(record.startAt),
   endDate |-> toLocalDateString(record.endAt - 1)]

\* A block's note, which no rule reads, is left out.
toWireBlock(record) == toWirePeriod(record)

(***************************************************************************)
(* The store.                                                              *)
(***************************************************************************)
listBlocks(from, to) == {b \in blocks : overlaps(b, from, to)}
listBookedPeriods(from, to) == {h \in hires : overlaps(h, from, to)}

reasonUnavailable(startAt, endAt) ==
  IF listBlocks(startAt, endAt) # {} THEN "blocked"
  ELSE IF listBookedPeriods(startAt, endAt) # {} THEN "booked" ELSE "none"

\* A row; asked is what it was made from, which no one stores.
Row(id, startDate, endDate) ==
  [id |-> id, startAt |-> periodFromLocalDates(startDate, endDate).startAt,
   endAt |-> periodFromLocalDates(startDate, endDate).endAt, asked |-> startDate..endDate]

availabilityBlockRequestSchema(startDate, endDate) == endDate >= startDate

refuseUnacceptablePeriod(startDate, endDate) ==
  LET period == periodFromLocalDates(startDate, endDate) IN
  \/ endDate < today
  \/ startDate > addLocalDays(today, MAX_BLOCK_HORIZON_DAYS)
  \/ rentalDayCount(period.startAt, period.endAt) > MAX_BLOCK_DAYS

\* A write: a read under way, and the page, no longer show one state.
Writes == /\ reading' = [reading EXCEPT !.quiet = FALSE]
          /\ calendar' = [calendar EXCEPT !.fresh = FALSE]

block(startDate, endDate) ==
  /\ issued < MaxPeriods
  /\ availabilityBlockRequestSchema(startDate, endDate)
  /\ ~refuseUnacceptablePeriod(startDate, endDate)
  /\ blocks' = blocks \cup {Row(issued + 1, startDate, endDate)}
  /\ issued' = issued + 1
  /\ Writes
  /\ UNCHANGED <<hires, today, looks>>

\* RemoveControl: a period of the page, by its identifier.
unblock(id) ==
  /\ blocks' = {b \in blocks : b.id # id}
  /\ Writes
  /\ UNCHANGED <<hires, today, issued, looks>>

\* A hire takes its dates where nothing does, and gives them up.
HireTakesDates(startDate, endDate) ==
  /\ issued < MaxPeriods /\ today <= startDate /\ startDate <= endDate
  /\ LET row == Row(issued + 1, startDate, endDate) IN
     /\ reasonUnavailable(row.startAt, row.endAt) = "none"
     /\ hires' = hires \cup {row}
  /\ issued' = issued + 1
  /\ Writes
  /\ UNCHANGED <<blocks, today, looks>>

HireGivesUpDates ==
  /\ \E h \in hires : hires' = hires \ {h}
  /\ Writes
  /\ UNCHANGED <<blocks, today, issued, looks>>

Midnight ==
  /\ today < LastDate - 1 /\ \E m \in Months : today + 1 \in daysOf(m)
  /\ today' = today + 1
  /\ UNCHANGED <<blocks, hires, reading, calendar, issued, looks>>

(***************************************************************************)
(* Reading a month.                                                        *)
(***************************************************************************)
Idle == [month |-> NoMonth, blocks |-> {}, bookings |-> {}, left |-> {}, quiet |-> FALSE]
NoCalendar == [month |-> NoMonth, blocks |-> {}, bookings |-> {}, fresh |-> FALSE]

monthWindow(month) ==
  [from |-> startOfLocalDay(firstDayOf(month)), to |-> startOfLocalDay(firstDayOf(nextMonth(month)))]

readMonth(month) ==
  /\ reading.month = NoMonth /\ looks < MaxLooks
  /\ reading' = [Idle EXCEPT !.month = IF month = NoMonth THEN monthOf(today) ELSE month,
                             !.left = {"blocks", "bookings"}, !.quiet = TRUE]
  /\ looks' = looks + 1
  /\ UNCHANGED <<blocks, hires, today, calendar, issued>>

\* The two queries of Promise.all, in either order.
readBlocks ==
  /\ "blocks" \in reading.left
  /\ LET window == monthWindow(reading.month) IN
     reading' = [reading EXCEPT !.left = @ \ {"blocks"},
                   !.blocks = {toWireBlock(b) : b \in listBlocks(window.from, window.to)}]
  /\ UNCHANGED <<blocks, hires, today, calendar, issued, looks>>

readBookedPeriods ==
  /\ "bookings" \in reading.left
  /\ LET window == monthWindow(reading.month) IN
     reading' = [reading EXCEPT !.left = @ \ {"bookings"},
                   !.bookings = {toWirePeriod(h) : h \in listBookedPeriods(window.from, window.to)}]
  /\ UNCHANGED <<blocks, hires, today, calendar, issued, looks>>

AvailabilityCalendar ==
  /\ reading.month # NoMonth /\ reading.left = {}
  /\ calendar' = [month |-> reading.month, blocks |-> reading.blocks,
                  bookings |-> reading.bookings, fresh |-> reading.quiet]
  /\ reading' = Idle
  /\ UNCHANGED <<blocks, hires, today, issued, looks>>

daysCovering(periods) == UNION {p.startDate..p.endDate : p \in periods}

\* The name of a cell says both, its colour is the block's.
describeDay(blocked, booked) ==
  CASE blocked /\ booked -> "blocked and booked"
    [] blocked /\ ~booked -> "blocked"
    [] ~blocked /\ booked -> "booked"
    [] ~blocked /\ ~booked -> "available"
classFor(blocked, booked) ==
  IF blocked THEN "blocked" ELSE IF booked THEN "booked" ELSE "none"

MonthGrid ==
  LET blocked == daysCovering(calendar.blocks)
      booked == daysCovering(calendar.bookings)
  IN [d \in daysOf(calendar.month) |->
       [name |-> describeDay(d \in blocked, d \in booked),
        class |-> classFor(d \in blocked, d \in booked)]]

\* The links of MonthNav; an address may also name no month.
MonthNav == {NoMonth} \cup IF calendar.month = NoMonth THEN {}
                           ELSE {calendar.month - 1, calendar.month + 1} \cap Months

\* The forms of the page are there once it is.
BlockPeriodForm == calendar.month # NoMonth /\ \E s, e \in calendarDates \ {LastDate} : block(s, e)
PeriodList == \E b \in calendar.blocks : unblock(b.id)

CalendarInit ==
  /\ blocks = {} /\ hires = {} /\ issued = 0 /\ looks = 0
  /\ today \in {1, 2}
  /\ reading = Idle /\ calendar = NoCalendar

CalendarNext ==
  \/ \E m \in MonthNav : readMonth(m)
  \/ readBlocks \/ readBookedPeriods \/ AvailabilityCalendar
  \/ BlockPeriodForm \/ PeriodList
  \/ \E s, e \in calendarDates \ {LastDate} : HireTakesDates(s, e)
  \/ HireGivesUpDates \/ Midnight

CalendarSpec == CalendarInit /\ [][CalendarNext]_calendarVars

(***************************************************************************)
(* Properties.                                                             *)
(***************************************************************************)

\* availability.service.ts, local-period.ts, availability-calendar.tsx: a month
\* read while nothing was written shows every day of it as it is, whatever
\* months a period runs through and on the days the clocks change.  The name of
\* a day says what the owner's and the hires' dates say of it, its colour is
\* what asking to hire that day would be answered, and every period that blocks
\* a day of the month can be removed from it.
EveryDayShownAsItIs ==
  calendar.fresh =>
    /\ \A d \in daysOf(calendar.month) :
         /\ MonthGrid[d].name \in {"blocked", "blocked and booked"}
              <=> \E b \in blocks : d \in b.asked
         /\ MonthGrid[d].name \in {"booked", "blocked and booked"}
              <=> \E h \in hires : d \in h.asked
         /\ MonthGrid[d].class = reasonUnavailable(startOfLocalDay(d), startOfLocalDay(d + 1))
    /\ {p.id : p \in calendar.blocks}
         = {b.id : b \in {b \in blocks : b.asked \cap daysOf(calendar.month) # {}}}

=============================================================================
