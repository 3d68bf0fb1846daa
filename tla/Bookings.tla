---- MODULE Bookings ----
(***************************************************************************)
(* Booking requests and the decisions on them: bookings.service.ts,        *)
(* prisma-booking-store.ts, request-expiry.service.ts and the block side   *)
(* of the availability store.                                              *)
(*                                                                         *)
(* Postgres runs the store's transactions at READ COMMITTED: a statement   *)
(* reads what was committed when it started, an UPDATE takes a lock on     *)
(* each row and keeps it until the transaction ends, and an UPDATE that    *)
(* had to wait re-evaluates its WHERE on the new version of the row.  The  *)
(* EXCLUDE constraint makes a writer wait for the uncommitted entry of     *)
(* another one.  The model takes one step per statement that can           *)
(* interleave; a call's uncommitted writes live in its record until it     *)
(* commits.                                                                *)
(***************************************************************************)
EXTENDS BookingStates, Naturals, Sequences, FiniteSets

CONSTANTS
  Bookings,      \* rows of bookings, one for each quote that may be booked
  Conflicts,     \* pairs on one listing whose half-open periods overlap
  Blocks,        \* rows of availability_blocks an owner may create
  Hits,          \* Hits[k]: the bookings whose period the block k overlaps
  Handlers,      \* concurrent HTTP calls of renters and owners
  Sweepers,      \* concurrent runs of the expiry sweep
  NoBooking,     \* the booking of an idle call
  BATCH_LIMIT,         \* RequestExpiryService.BATCH_LIMIT
  DEADLOCK_ATTEMPTS,   \* PrismaBookingStore.DEADLOCK_ATTEMPTS
  MaxPaymentFailures,  \* bound: declined cards per booking
  MaxCrashes           \* bound: calls cut short

ASSUME ConflictsAssumption ==
  /\ Conflicts \subseteq Bookings \X Bookings
  /\ \A b, c \in Bookings : <<b, c>> \in Conflicts => <<c, b>> \in Conflicts
  /\ \A b \in Bookings : <<b, b>> \notin Conflicts
ASSUME CallsAssumption == Handlers \cap Sweepers = {} /\ NoBooking \notin Bookings
ASSUME BlocksAssumption == Hits \in [Blocks -> SUBSET Bookings]
ASSUME BookingsFinite == IsFiniteSet(Bookings)
ASSUME BoundsAssumption ==
  /\ BATCH_LIMIT \in Nat \ {0} /\ DEADLOCK_ATTEMPTS \in Nat \ {0}
  /\ MaxPaymentFailures \in Nat /\ MaxCrashes \in Nat

VARIABLES
  state,    \* bookings.state as last committed, "NONE" before the insert
  events,   \* booking_events of each booking, in commit order
  lapsed,   \* 0, or the rank in which requestExpiresAt passed
  blocks,   \* availability_blocks
  op,       \* the call each handler or sweeper is executing
  crashes   \* calls cut short so far

vars == <<state, events, lapsed, blocks, op, crashes>>

Calls == Handlers \cup Sweepers

\* Where a call stands.  "deadlock" is a call that surfaced 40P01 untranslated.
Steps == {"idle", "deadlock", "request.insert", "accept.dates", "accept.read",
          "accept.update", "accept.exclude", "accept.losers",
          "decline.update", "sweep.update"}

\* A call: the booking it is about, the rows its current UPDATE has yet to
\* reach, the rows it has locked and will write at commit, the attempt number.
CallRecord == [at : Steps, b : Bookings \cup {NoBooking}, todo : SUBSET Bookings,
               held : SUBSET Bookings, attempt : Nat]
Idle == [at |-> "idle", b |-> NoBooking, todo |-> {}, held |-> {}, attempt |-> 0]
Begin(at, b) == [Idle EXCEPT !.at = at, !.b = b, !.attempt = 1]

Event == [from : RowStates, to : States]

Init ==
  /\ state = [b \in Bookings |-> "NONE"]
  /\ events = [b \in Bookings |-> <<>>]
  /\ lapsed = [b \in Bookings |-> 0]
  /\ blocks = {}
  /\ op = [p \in Calls |-> Idle]
  /\ crashes = 0

(***************************************************************************)
(* The database.                                                           *)
(***************************************************************************)
Locked(b) == \E p \in Calls : b \in op[p].held

\* The call has an uncommitted ACCEPTED version of its row in the index that
\* serves the constraint.
HasEntry(p) == op[p].at \in {"accept.exclude", "accept.losers"}

Overlap(b, c) == <<b, c>> \in Conflicts

ConflictCommitted(b) ==
  \E c \in Bookings : Overlap(b, c) /\ state[c] \in EXCLUDED_STATES
\* Mutant: an uncommitted entry is not waited for.
ConflictInFlight_ignored(p, b) == FALSE
ConflictInFlight(p, b) ==
  \E q \in Calls \ {p} : HasEntry(q) /\ Overlap(b, op[q].b)

\* p waits for a row lock or an index entry of q.
Waits(p, q) ==
  /\ p # q
  /\ \/ op[p].at \in {"accept.update", "decline.update"} /\ op[p].b \in op[q].held
     \/ op[p].at = "accept.exclude" /\ HasEntry(q) /\ Overlap(op[p].b, op[q].b)
     \/ op[p].todo \cap op[q].held # {}

InDeadlock(p) ==
  \E n \in 1..Cardinality(Calls) : \E ring \in [1..n -> Calls] :
    /\ ring[1] = p
    /\ \A i \in 1..n : Waits(ring[i], ring[(i % n) + 1])

\* The move from -> to of every booking in bs, with its booking_events row.
Moved(bs, to) == [b \in Bookings |-> IF b \in bs THEN to ELSE state[b]]
Recorded(bs, from, to) ==
  [b \in Bookings |-> IF b \in bs
                      THEN Append(events[b], [from |-> from, to |-> to])
                      ELSE events[b]]

Return(p) == op' = [op EXCEPT ![p] = Idle]

\* prisma-availability-store reasonUnavailable, blocks first.
reasonUnavailable(b) ==
  \/ \E k \in blocks : b \in Hits[k]
  \/ \E c \in Bookings : Overlap(b, c) /\ state[c] \in CALENDAR_OCCUPYING_STATES

(***************************************************************************)
(* request: the checks, and later the insert they were made for.  The      *)
(* unique index on quoteId refuses a second booking of the same quote.     *)
(***************************************************************************)
RequestChecks(p, b) ==
  /\ op[p].at \in {"idle", "deadlock"}
  /\ ~reasonUnavailable(b)
  /\ op' = [op EXCEPT ![p] = Begin("request.insert", b)]
  /\ UNCHANGED <<state, events, lapsed, blocks, crashes>>

RequestInsert(p) ==
  /\ op[p].at = "request.insert"
  /\ LET b == op[p].b IN
     IF state[b] = "NONE"
     THEN /\ state' = Moved({b}, "REQUESTED")
          /\ events' = Recorded({b}, "NONE", "REQUESTED")
     ELSE UNCHANGED <<state, events>>
  /\ Return(p)
  /\ UNCHANGED <<lapsed, blocks, crashes>>

(***************************************************************************)
(* accept.  The service's reads come first; the store then runs its        *)
(* transaction, retried when Postgres reports a deadlock.                  *)
(***************************************************************************)
AcceptChecks(p, b) ==
  /\ op[p].at \in {"idle", "deadlock"}
  /\ state[b] = "REQUESTED" /\ lapsed[b] = 0
  /\ op' = [op EXCEPT ![p] = Begin("accept.dates", b)]
  /\ UNCHANGED <<state, events, lapsed, blocks, crashes>>

\* The dates are read, then the clock: the store compares the deadline with
\* this reading of it, however long the transaction takes.
AcceptDates(p) ==
  /\ op[p].at = "accept.dates"
  /\ IF reasonUnavailable(op[p].b) \/ lapsed[op[p].b] # 0
     THEN Return(p)
     ELSE op' = [op EXCEPT ![p].at = "accept.read"]
  /\ UNCHANGED <<state, events, lapsed, blocks, crashes>>

\* The transaction's findFirst.
AcceptRead(p) ==
  /\ op[p].at = "accept.read"
  /\ IF state[op[p].b] = "REQUESTED"
     THEN op' = [op EXCEPT ![p].at = "accept.update"]
     ELSE Return(p)
  /\ UNCHANGED <<state, events, lapsed, blocks, crashes>>

\* UPDATE ... SET state = 'ACCEPTED' WHERE id: locks the row whatever its
\* state has become, and puts the new version in the constraint's index.
AcceptUpdate(p) ==
  /\ op[p].at = "accept.update"
  /\ ~Locked(op[p].b)
  /\ op' = [op EXCEPT ![p].at = "accept.exclude", ![p].held = {op[p].b}]
  /\ UNCHANGED <<state, events, lapsed, blocks, crashes>>

\* The losers of the acceptance: findMany, as of this statement.
conflictsOf(b) == {c \in Bookings : Overlap(b, c) /\ state[c] = "REQUESTED"}

\* Mutant: no constraint, only the earlier read of the dates.
AcceptExclude_unconstrained(p) ==
  /\ op[p].at = "accept.exclude"
  /\ op' = [op EXCEPT ![p].at = "accept.losers", ![p].todo = conflictsOf(op[p].b)]
  /\ UNCHANGED <<state, events, lapsed, blocks, crashes>>

\* The constraint is checked: refused by a committed overlap, kept waiting by
\* an uncommitted one, passed otherwise.
AcceptExclude(p) ==
  /\ op[p].at = "accept.exclude"
  /\ LET b == op[p].b IN
     \/ ConflictCommitted(b) /\ Return(p)
     \/ /\ ~ConflictCommitted(b) /\ ~ConflictInFlight(p, b)
        /\ op' = [op EXCEPT ![p].at = "accept.losers",
                            ![p].todo = conflictsOf(b)]
  /\ UNCHANGED <<state, events, lapsed, blocks, crashes>>

\* updateMany WHERE id IN the losers: one row lock at a time, no predicate on
\* the state.
AcceptLoser(p, c) ==
  /\ op[p].at = "accept.losers"
  /\ c \in op[p].todo /\ ~Locked(c)
  /\ op' = [op EXCEPT ![p].todo = @ \ {c}, ![p].held = @ \cup {c}]
  /\ UNCHANGED <<state, events, lapsed, blocks, crashes>>

\* Mutant: the automatic declines write no event.
AcceptCommit_silent(p) ==
  /\ op[p].at = "accept.losers" /\ op[p].todo = {}
  /\ state' = [Moved(op[p].held, "DECLINED") EXCEPT ![op[p].b] = "ACCEPTED"]
  /\ events' = Recorded({op[p].b}, "REQUESTED", "ACCEPTED")
  /\ Return(p)
  /\ UNCHANGED <<lapsed, blocks, crashes>>

AcceptCommit(p) ==
  /\ op[p].at = "accept.losers" /\ op[p].todo = {}
  /\ LET b == op[p].b
         losers == op[p].held \ {b} IN
     /\ state' = [Moved(losers, "DECLINED") EXCEPT ![b] = "ACCEPTED"]
     /\ events' = [Recorded(losers, "REQUESTED", "DECLINED") EXCEPT
                     ![b] = Append(@, [from |-> "REQUESTED", to |-> "ACCEPTED"])]
  /\ Return(p)
  /\ UNCHANGED <<lapsed, blocks, crashes>>

(***************************************************************************)
(* decline: a read, then an UPDATE by id alone.                            *)
(***************************************************************************)
DeclineRead(p, b) ==
  /\ op[p].at \in {"idle", "deadlock"}
  /\ state[b] = "REQUESTED"
  /\ op' = [op EXCEPT ![p] = Begin("decline.update", b)]
  /\ UNCHANGED <<state, events, lapsed, blocks, crashes>>

DeclineUpdate(p) ==
  /\ op[p].at = "decline.update"
  /\ ~Locked(op[p].b)
  /\ state' = Moved({op[p].b}, "DECLINED")
  /\ events' = Recorded({op[p].b}, "REQUESTED", "DECLINED")
  /\ Return(p)
  /\ UNCHANGED <<lapsed, blocks, crashes>>

(***************************************************************************)
(* expireRequests.                                                         *)
(***************************************************************************)
Overdue == {b \in Bookings : state[b] = "REQUESTED" /\ lapsed[b] # 0}

\* Mutant: the batch is filled with decided requests too.
Candidates_decided ==
  LET past == {b \in Bookings : lapsed[b] # 0} IN
  {b \in past : Cardinality({c \in past : lapsed[c] < lapsed[b]}) < BATCH_LIMIT}

\* findMany ordered by requestExpiresAt, at most BATCH_LIMIT.
Candidates ==
  {b \in Overdue : Cardinality({c \in Overdue : lapsed[c] < lapsed[b]}) < BATCH_LIMIT}

SweepSelect(p) ==
  /\ op[p].at \in {"idle", "deadlock"}
  /\ Candidates # {}
  /\ op' = [op EXCEPT ![p] = [Begin("sweep.update", NoBooking)
                              EXCEPT !.todo = Candidates]]
  /\ UNCHANGED <<state, events, lapsed, blocks, crashes>>

\* Mutant: the predicate of the read is not restated in the write.
SweepRow_unchecked(p, c) ==
  /\ op[p].at = "sweep.update"
  /\ c \in op[p].todo /\ ~Locked(c)
  /\ op' = [op EXCEPT ![p].todo = @ \ {c}, ![p].held = @ \cup {c}]
  /\ UNCHANGED <<state, events, lapsed, blocks, crashes>>

\* updateManyAndReturn: a row that is no longer an overdue request when its
\* lock is free is not matched.
SweepRow(p, c) ==
  /\ op[p].at = "sweep.update"
  /\ c \in op[p].todo /\ ~Locked(c)
  /\ op' = [op EXCEPT ![p].todo = @ \ {c},
                      ![p].held = IF c \in Overdue THEN @ \cup {c} ELSE @]
  /\ UNCHANGED <<state, events, lapsed, blocks, crashes>>

SweepCommit(p) ==
  /\ op[p].at = "sweep.update" /\ op[p].todo = {}
  /\ state' = Moved(op[p].held, "EXPIRED")
  /\ events' = Recorded(op[p].held, "REQUESTED", "EXPIRED")
  /\ Return(p)
  /\ UNCHANGED <<lapsed, blocks, crashes>>

\* Mutant: accept is retried for as long as it deadlocks.
DeadlockVictim_unbounded(p) ==
  /\ InDeadlock(p)
  /\ op' = [op EXCEPT ![p] = IF HasEntry(p) THEN Begin("accept.read", op[p].b)
                             ELSE [Idle EXCEPT !.at = "deadlock"]]
  /\ UNCHANGED <<state, events, lapsed, blocks, crashes>>

(***************************************************************************)
(* A deadlock's victim is rolled back.  accept tries again while attempts  *)
(* remain; anything else surfaces the error.                               *)
(***************************************************************************)
DeadlockVictim(p) ==
  /\ InDeadlock(p)
  /\ op' = [op EXCEPT ![p] =
              IF HasEntry(p) /\ op[p].attempt < DEADLOCK_ATTEMPTS
              THEN [Begin("accept.read", op[p].b) EXCEPT !.attempt = op[p].attempt + 1]
              ELSE [Idle EXCEPT !.at = "deadlock"]]
  /\ UNCHANGED <<state, events, lapsed, blocks, crashes>>

\* The API process, its connection or the transaction's time limit ends a
\* call: whatever was uncommitted is rolled back.
Crash(p) ==
  /\ op[p].at \notin {"idle", "deadlock"}
  /\ crashes < MaxCrashes
  /\ crashes' = crashes + 1
  /\ Return(p)
  /\ UNCHANGED <<state, events, lapsed, blocks>>

(***************************************************************************)
(* advance: a compare-and-set on the state, as movePayable and settle use  *)
(* it.  Its own exclusion check waits for an uncommitted overlapping entry.*)
(***************************************************************************)
PaymentMoves ==
  {<<"ACCEPTED", "AWAITING_PAYMENT">>, <<"PAYMENT_FAILED", "AWAITING_PAYMENT">>,
   <<"AWAITING_PAYMENT", "RESERVED">>, <<"AWAITING_PAYMENT", "PAYMENT_FAILED">>}

PaymentFailures(b) ==
  Cardinality({i \in DOMAIN events[b] : events[b][i].to = "PAYMENT_FAILED"})

Advance(b, from, to) ==
  /\ ~Locked(b)
  /\ \A q \in Calls : ~(HasEntry(q) /\ Overlap(b, op[q].b))
  /\ state[b] = from
  /\ to = "PAYMENT_FAILED" => PaymentFailures(b) < MaxPaymentFailures
  /\ state' = Moved({b}, to)
  /\ events' = Recorded({b}, from, to)
  /\ UNCHANGED <<lapsed, blocks, op, crashes>>

(***************************************************************************)
(* The owner's calendar and the clock.                                     *)
(***************************************************************************)
block(k) ==
  /\ k \notin blocks
  /\ blocks' = blocks \cup {k}
  /\ UNCHANGED <<state, events, lapsed, op, crashes>>

unblock(k) ==
  /\ k \in blocks
  /\ blocks' = blocks \ {k}
  /\ UNCHANGED <<state, events, lapsed, op, crashes>>

\* requestExpiresAt, stamped at the insert, passes.
DeadlinePasses(b) ==
  /\ state[b] # "NONE" /\ lapsed[b] = 0
  /\ lapsed' = [lapsed EXCEPT
                  ![b] = 1 + Cardinality({c \in Bookings : lapsed[c] # 0})]
  /\ UNCHANGED <<state, events, blocks, op, crashes>>

\* What a call in flight does next.
Proceed(p) ==
  \/ RequestInsert(p)
  \/ AcceptDates(p) \/ AcceptRead(p) \/ AcceptUpdate(p) \/ AcceptExclude(p)
  \/ \E c \in Bookings : AcceptLoser(p, c)
  \/ AcceptCommit(p)
  \/ DeclineUpdate(p)
  \/ \E c \in Bookings : SweepRow(p, c)
  \/ SweepCommit(p)
  \/ DeadlockVictim(p)

Next ==
  \/ \E p \in Handlers, b \in Bookings :
       RequestChecks(p, b) \/ AcceptChecks(p, b) \/ DeclineRead(p, b)
  \/ \E p \in Sweepers : SweepSelect(p)
  \/ \E p \in Calls : Proceed(p) \/ Crash(p)
  \/ \E b \in Bookings, m \in PaymentMoves : Advance(b, m[1], m[2])
  \/ \E b \in Bookings : DeadlinePasses(b)
  \/ \E k \in Blocks : block(k) \/ unblock(k)

Spec == Init /\ [][Next]_vars

\* A statement that can run runs, Postgres hands a row's lock to those who
\* queue for it, and the worker's schedule starts a sweep again and again.
Fairness ==
  /\ \A p \in Calls : WF_vars(Proceed(p))
  /\ \A p \in Sweepers : /\ WF_vars(SweepSelect(p))
                         /\ SF_vars(\E c \in Bookings : SweepRow(p, c))

FairSpec == Spec /\ Fairness

(***************************************************************************)
(* Properties.                                                             *)
(***************************************************************************)

\* Every variable keeps its type: rows, histories and calls stay well formed.
TypeOK ==
  /\ state \in [Bookings -> RowStates]
  /\ events \in [Bookings -> Seq(Event)]
  /\ lapsed \in [Bookings -> Nat]
  /\ blocks \subseteq Blocks
  /\ op \in [Calls -> CallRecord]
  /\ crashes \in Nat

\* Two bookings of one listing whose periods overlap are never both in a
\* state the calendar counts as taken (booking-state-machine.ts), although
\* only the SQL constraint's own list of states guards it.
NoDoubleBooking ==
  \A b, c \in Bookings :
    Overlap(b, c) => ~(/\ state[b] \in CALENDAR_OCCUPYING_STATES
                       /\ state[c] \in CALENDAR_OCCUPYING_STATES)

\* The last booking_events row names the state the booking is in, for every
\* path that writes a state, the automatic declines of accept included.
LatestEventIsState ==
  \A b \in Bookings :
    IF events[b] = <<>> THEN state[b] = "NONE"
    ELSE events[b][Len(events[b])].to = state[b]

\* accept declines competing requests by id, with no predicate on the state;
\* none of the rows it is about to decline ever holds dates.
LosersHoldNoDates ==
  \A p \in Calls : op[p].at = "accept.losers" =>
    \A c \in op[p].todo \cup (op[p].held \ {op[p].b}) :
      state[c] \notin CALENDAR_OCCUPYING_STATES

\* expireRequests only ever expires a request still waiting past its
\* deadline, whatever was decided between its read and its write.
SweepOnlyExpiresWaiting ==
  [][\A b \in Bookings :
       state'[b] = "EXPIRED" /\ state[b] # "EXPIRED"
         => state[b] = "REQUESTED" /\ lapsed[b] # 0]_vars

\* A request past its deadline does not wait for ever: it is expired or
\* decided, although sweeps are bounded, overlap and may be cut short.
OverdueResolved ==
  \A b \in Bookings : (b \in Overdue) ~> (b \notin Overdue)

\* Every call ends, whatever it waits for: locks, the constraint's waits, the
\* deadlock detector and accept's bounded retry never keep it for ever.
CallsReturn ==
  \A p \in Calls : (op[p].at \notin {"idle", "deadlock"})
                     ~> (op[p].at \in {"idle", "deadlock"})

\* Seen through the calendar, whatever the interleaving: one booking at a
\* time takes free dates or gives up its own.  In particular an acceptance
\* never takes dates from another booking in the step in which it gets them.
Occupying == {b \in Bookings : state[b] \in CALENDAR_OCCUPYING_STATES}
C == INSTANCE Calendar WITH taken <- Occupying
ImplementsCalendar == C!Spec

\* booking-state-machine.ts 8-9: every change of a booking's state is an edge
\* of TRANSITIONS.
EveryChangeIsATransition ==
  [][\A b \in Bookings :
       state'[b] # state[b] /\ state[b] # "NONE" => canTransition(state[b], state'[b])]_vars

\* prisma-booking-store.ts, DEADLOCK_ATTEMPTS: two attempts are enough for
\* accept never to surface a deadlock.
AcceptNeverSurfacesDeadlock == \A p \in Handlers : op[p].at # "deadlock"

\* availability.service.ts, block: a booking never lands on a blocked period.
NeverAcceptedOnABlock ==
  [][\A b \in Bookings :
       state'[b] = "ACCEPTED" /\ state[b] = "REQUESTED"
         => \A k \in blocks : b \notin Hits[k]]_vars
====
