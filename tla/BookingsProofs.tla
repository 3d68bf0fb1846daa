---- MODULE BookingsProofs ----
(***************************************************************************)
(* What Bookings guarantees for any number of bookings, handlers, sweeps   *)
(* and blocks, any overlaps and any bounds.  The argument: a row's lock    *)
(* keeps everyone else's writes away until its holder commits, and a call  *)
(* that has passed the constraint keeps every overlapping booking out of   *)
(* the occupying states until it commits.                                  *)
(***************************************************************************)
EXTENDS Bookings, FiniteSetTheorems, TLAPS

\* What a call holds at each of its steps.
CallShape ==
  \A p \in Calls :
    /\ op[p].at \notin {"idle", "deadlock", "sweep.update"} => op[p].b \in Bookings
    /\ op[p].at \notin {"accept.exclude", "accept.losers", "sweep.update"}
         => op[p].held = {}
    /\ op[p].at \notin {"accept.losers", "sweep.update"} => op[p].todo = {}
    /\ HasEntry(p) => op[p].b \in op[p].held
    /\ op[p].at = "accept.exclude" => op[p].held = {op[p].b}
    /\ op[p].at = "accept.losers" =>
         \A c \in op[p].todo \cup (op[p].held \ {op[p].b}) : Overlap(op[p].b, c)

\* Row locks are exclusive.
LocksExclusive ==
  \A p, q \in Calls : p # q => op[p].held \cap op[q].held = {}

\* What a sweep has matched stays a waiting overdue request until it commits.
SweepHolds ==
  \A p \in Calls : op[p].at = "sweep.update" =>
    \A c \in op[p].held : state[c] = "REQUESTED" /\ lapsed[c] # 0

\* Once past the constraint, no overlapping booking occupies the calendar...
WinnersFree ==
  \A p \in Calls : op[p].at = "accept.losers" => ~ConflictCommitted(op[p].b)

\* ... and no overlapping acceptance is past it too.
WinnersApart ==
  \A p, q \in Calls :
    p # q /\ op[p].at = "accept.losers" /\ op[q].at = "accept.losers"
      => ~Overlap(op[p].b, op[q].b)

IInv ==
  /\ TypeOK /\ CallShape /\ LocksExclusive /\ SweepHolds
  /\ WinnersFree /\ WinnersApart /\ NoDoubleBooking /\ LatestEventIsState

\* The pieces of IInv about calls, which most steps are about.
CallInv == TypeOK /\ CallShape /\ LocksExclusive /\ SweepHolds /\ WinnersFree /\ WinnersApart

\* The state's own literals, for the provers.
LEMMA StateFacts ==
  /\ EXCLUDED_STATES = CALENDAR_OCCUPYING_STATES
  /\ CALENDAR_OCCUPYING_STATES \subseteq States
  /\ {"REQUESTED", "DECLINED", "EXPIRED", "ACCEPTED"} \subseteq States
  /\ States \subseteq RowStates /\ "NONE" \in RowStates /\ "NONE" \notin States
  /\ "ACCEPTED" \in EXCLUDED_STATES
  /\ {"NONE", "REQUESTED", "DECLINED", "EXPIRED"} \cap EXCLUDED_STATES = {}
  /\ \A m \in PaymentMoves : m[1] \in EXCLUDED_STATES /\ m[2] \in EXCLUDED_STATES
BY DEF EXCLUDED_STATES, CALENDAR_OCCUPYING_STATES, States, RowStates, PaymentMoves

\* A call that starts, starts with nothing locked.
LEMMA BeginType ==
  ASSUME NEW at \in Steps, NEW b \in Bookings \cup {NoBooking}
  PROVE  /\ Begin(at, b) \in CallRecord
         /\ Begin(at, b).at = at /\ Begin(at, b).b = b
         /\ Begin(at, b).held = {} /\ Begin(at, b).todo = {}
BY Zenon DEF Begin, Idle, CallRecord

\* An idle call holds nothing.
LEMMA IdleType ==
  /\ Idle \in CallRecord /\ Idle.at = "idle" /\ Idle.held = {} /\ Idle.todo = {}
BY DEF Idle, CallRecord, Steps

\* Recorded appends, to each booking it is given, one well-formed event.
LEMMA RecordedType ==
  ASSUME TypeOK, NEW bs \in SUBSET Bookings, NEW from \in RowStates, NEW to \in States
  PROVE  /\ Recorded(bs, from, to) \in [Bookings -> Seq(Event)]
         /\ \A b \in Bookings \ bs : Recorded(bs, from, to)[b] = events[b]
         /\ \A b \in bs :
              /\ Recorded(bs, from, to)[b] # <<>>
              /\ Recorded(bs, from, to)[b][Len(Recorded(bs, from, to)[b])].to = to
<1>1. [from |-> from, to |-> to] \in Event
  BY DEF Event
<1>2. \A b \in Bookings : events[b] \in Seq(Event)
  BY DEF TypeOK
<1>3. \A s \in Seq(Event), e \in Event :
        /\ Append(s, e) \in Seq(Event) /\ Append(s, e) # <<>>
        /\ Append(s, e)[Len(Append(s, e))] = e
  OBVIOUS
<1>4. \A b \in bs : Recorded(bs, from, to)[b] = Append(events[b], [from |-> from, to |-> to])
  BY DEF Recorded
<1>5. \A b \in Bookings \ bs : Recorded(bs, from, to)[b] = events[b]
  BY DEF Recorded
<1>6. Recorded(bs, from, to) \in [Bookings -> Seq(Event)]
  BY <1>1, <1>2, <1>3 DEF Recorded
<1>7. [from |-> from, to |-> to].to = to
  OBVIOUS
<1>. QED BY <1>1, <1>2, <1>3, <1>4, <1>5, <1>6, <1>7

\* A call that only moves its own record keeps the invariant when the record
\* does: it locks only free rows, and it is past the constraint only if it was
\* or if the constraint let it through.
LEMMA CallStep ==
  ASSUME CallInv, NEW p \in Calls, NEW r \in CallRecord,
         op' = [op EXCEPT ![p] = r],
         UNCHANGED <<state, events, lapsed, blocks>>, crashes' \in Nat,
         r.at \notin {"idle", "deadlock", "sweep.update"} => r.b \in Bookings,
         r.at \notin {"accept.exclude", "accept.losers", "sweep.update"} => r.held = {},
         r.at \notin {"accept.losers", "sweep.update"} => r.todo = {},
         r.at \in {"accept.exclude", "accept.losers"} => r.b \in r.held,
         r.at = "accept.exclude" => r.held = {r.b},
         r.at = "accept.losers" =>
           \A c \in r.todo \cup (r.held \ {r.b}) : Overlap(r.b, c),
         \A c \in r.held \ op[p].held : ~Locked(c),
         r.at = "sweep.update" =>
           \A c \in r.held : state[c] = "REQUESTED" /\ lapsed[c] # 0,
         r.at = "accept.losers" =>
           \/ op[p].at = "accept.losers" /\ op[p].b = r.b
           \/ ~ConflictCommitted(r.b) /\ ~ConflictInFlight(p, r.b)
  PROVE  CallInv'
<1>. USE DEF CallInv
<1>0. /\ op \in [Calls -> CallRecord] /\ op'[p] = r
      /\ \A q \in Calls \ {p} : op'[q] = op[q]
  BY DEF TypeOK
<1>1. TypeOK'
  BY <1>0 DEF TypeOK
<1>2. CallShape'
  BY <1>0 DEF CallShape, HasEntry, Overlap
<1>3. LocksExclusive'
  BY <1>0 DEF LocksExclusive, Locked
<1>4. SweepHolds'
  BY <1>0 DEF SweepHolds
<1>5. WinnersFree'
  BY <1>0 DEF WinnersFree, ConflictCommitted, Overlap
<1>6. WinnersApart'
  <2>1. \A b, c : Overlap(b, c) => Overlap(c, b)
    BY ConflictsAssumption DEF Overlap
  <2>2. ASSUME NEW q \in Calls \ {p}, op[q].at = "accept.losers", r.at = "accept.losers"
        PROVE  ~Overlap(r.b, op[q].b)
    <3>1. CASE op[p].at = "accept.losers" /\ op[p].b = r.b
      BY <2>2, <3>1 DEF WinnersApart
    <3>2. CASE ~ConflictInFlight(p, r.b)
      BY <2>2, <3>2 DEF ConflictInFlight, HasEntry
    <3>. QED BY <2>2, <3>1, <3>2
  <2>3. ASSUME NEW q1 \in Calls, NEW q2 \in Calls, q1 # q2,
               op'[q1].at = "accept.losers", op'[q2].at = "accept.losers"
        PROVE  ~Overlap(op'[q1].b, op'[q2].b)
    <3>1. CASE q1 = p
      BY <1>0, <2>2, <2>3, <3>1
    <3>2. CASE q2 = p
      BY <1>0, <2>1, <2>2, <2>3, <3>2
    <3>3. CASE q1 # p /\ q2 # p
      BY <1>0, <2>3, <3>3 DEF WinnersApart
    <3>. QED BY <3>1, <3>2, <3>3
  <2>. QED BY <2>3 DEF WinnersApart, Overlap
<1>. QED BY <1>1, <1>2, <1>3, <1>4, <1>5, <1>6

(***************************************************************************)
(* Steps that change nothing but the record of one call.                   *)
(***************************************************************************)

\* A service's checks start a call with nothing locked.
LEMMA StartStep ==
  ASSUME CallInv, NEW p \in Calls, NEW b \in Bookings,
         RequestChecks(p, b) \/ AcceptChecks(p, b) \/ DeclineRead(p, b)
  PROVE  CallInv'
<1>1. PICK at \in {"request.insert", "accept.dates", "decline.update"} :
        op' = [op EXCEPT ![p] = Begin(at, b)]
  BY DEF RequestChecks, AcceptChecks, DeclineRead
<1>2. UNCHANGED <<state, events, lapsed, blocks>> /\ crashes' \in Nat
  BY DEF CallInv, TypeOK, RequestChecks, AcceptChecks, DeclineRead
<1>3. at \in Steps
  BY DEF Steps
<1>. DEFINE r == Begin(at, b)
<1>4. /\ r \in CallRecord /\ r.b \in Bookings /\ r.held = {} /\ r.todo = {}
      /\ r.at \in {"request.insert", "accept.dates", "decline.update"}
  BY <1>3, BeginType
<1>5. op' = [op EXCEPT ![p] = r]
  BY <1>1
<1>. HIDE DEF r
<1>. QED BY Zenon, <1>2, <1>4, <1>5, CallStep

\* A call that ends without writing gives up its locks.
LEMMA ReturnStep ==
  ASSUME CallInv, NEW p \in Calls, Return(p),
         UNCHANGED <<state, events, lapsed, blocks>>, crashes' \in Nat
  PROVE  CallInv'
BY Zenon, IdleType, CallStep DEF Return

\* The owner's acceptance up to the constraint.
LEMMA AcceptStep ==
  ASSUME CallInv, NEW p \in Calls,
         AcceptDates(p) \/ AcceptRead(p) \/ AcceptUpdate(p) \/ AcceptExclude(p)
  PROVE  CallInv'
<1>0. op[p] \in CallRecord /\ UNCHANGED <<state, events, lapsed, blocks>> /\ crashes' \in Nat
  BY DEF CallInv, TypeOK, AcceptDates, AcceptRead, AcceptUpdate, AcceptExclude
<1>1. CASE Return(p)
  BY <1>0, <1>1, ReturnStep
<1>2. CASE AcceptDates(p) /\ ~Return(p)
  <2>. DEFINE r == [op[p] EXCEPT !.at = "accept.read"]
  <2>1. r \in CallRecord /\ op' = [op EXCEPT ![p] = r]
    BY <1>0, <1>2 DEF AcceptDates, CallRecord, Steps
  <2>2. r.b = op[p].b /\ r.at = "accept.read" /\ r.held = op[p].held /\ r.todo = op[p].todo
    BY <1>0 DEF CallRecord
  <2>3. op[p].b \in Bookings /\ op[p].held = {} /\ op[p].todo = {}
    BY <1>2 DEF AcceptDates, CallInv, CallShape
  <2>. QED BY Zenon, <1>0, <2>1, <2>2, <2>3, CallStep
<1>3. CASE AcceptRead(p) /\ ~Return(p)
  <2>. DEFINE r == [op[p] EXCEPT !.at = "accept.update"]
  <2>1. r \in CallRecord /\ op' = [op EXCEPT ![p] = r]
    BY <1>0, <1>3 DEF AcceptRead, CallRecord, Steps
  <2>2. r.b = op[p].b /\ r.at = "accept.update" /\ r.held = op[p].held /\ r.todo = op[p].todo
    BY <1>0 DEF CallRecord
  <2>3. op[p].b \in Bookings /\ op[p].held = {} /\ op[p].todo = {}
    BY <1>3 DEF AcceptRead, CallInv, CallShape
  <2>. QED BY Zenon, <1>0, <2>1, <2>2, <2>3, CallStep
<1>4. CASE AcceptUpdate(p)
  <2>. DEFINE r == [op[p] EXCEPT !.at = "accept.exclude", !.held = {op[p].b}]
  <2>3. op[p].b \in Bookings /\ op[p].todo = {} /\ ~Locked(op[p].b)
    BY <1>4 DEF AcceptUpdate, CallInv, CallShape
  <2>1. r \in CallRecord /\ op' = [op EXCEPT ![p] = r]
    BY Zenon, <1>0, <1>4, <2>3 DEF AcceptUpdate, CallRecord, Steps
  <2>2. r.b = op[p].b /\ r.at = "accept.exclude" /\ r.held = {op[p].b} /\ r.todo = op[p].todo
    BY <1>0 DEF CallRecord
  <2>. QED BY Zenon, <1>0, <2>1, <2>2, <2>3, CallStep
<1>5. CASE AcceptExclude(p) /\ ~Return(p)
  <2>. DEFINE r == [op[p] EXCEPT !.at = "accept.losers", !.todo = conflictsOf(op[p].b)]
  <2>3. op[p].b \in Bookings /\ op[p].held = {op[p].b}
    BY <1>5 DEF AcceptExclude, CallInv, CallShape
  <2>1. r \in CallRecord /\ op' = [op EXCEPT ![p] = r]
    BY Zenon, <1>0, <1>5 DEF AcceptExclude, conflictsOf, CallRecord, Steps
  <2>2. /\ r.b = op[p].b /\ r.at = "accept.losers" /\ r.held = {op[p].b}
        /\ r.todo = conflictsOf(op[p].b)
    BY <1>0, <2>3 DEF CallRecord
  <2>4. ~ConflictCommitted(op[p].b) /\ ~ConflictInFlight(p, op[p].b)
    BY <1>5 DEF AcceptExclude
  <2>5. \A c \in r.todo \cup (r.held \ {r.b}) : Overlap(r.b, c)
    BY <2>2 DEF conflictsOf
  <2>. HIDE DEF r
  <2>. QED BY Zenon, <1>0, <2>1, <2>2, <2>3, <2>4, <2>5, CallStep
<1>. QED BY <1>1, <1>2, <1>3, <1>4, <1>5

\* One more loser, or one more overdue row, is locked.
LEMMA RowStep ==
  ASSUME CallInv, NEW p \in Calls, NEW c \in Bookings,
         AcceptLoser(p, c) \/ SweepRow(p, c)
  PROVE  CallInv'
<1>0. op[p] \in CallRecord /\ UNCHANGED <<state, events, lapsed, blocks>> /\ crashes' \in Nat
  BY DEF CallInv, TypeOK, AcceptLoser, SweepRow
<1>1. CASE AcceptLoser(p, c)
  <2>. DEFINE r == [op[p] EXCEPT !.todo = @ \ {c}, !.held = @ \cup {c}]
  <2>1. r \in CallRecord /\ op' = [op EXCEPT ![p] = r]
    BY Zenon, <1>0, <1>1 DEF AcceptLoser, CallRecord
  <2>2. /\ r.b = op[p].b /\ r.at = op[p].at
        /\ r.held = op[p].held \cup {c} /\ r.todo = op[p].todo \ {c}
    BY <1>0 DEF CallRecord
  <2>3. /\ op[p].b \in Bookings /\ op[p].at = "accept.losers" /\ op[p].b \in op[p].held
        /\ ~Locked(c)
        /\ \A d \in op[p].todo \cup (op[p].held \ {op[p].b}) : Overlap(op[p].b, d)
        /\ c \in op[p].todo
    BY <1>1 DEF AcceptLoser, CallInv, CallShape, HasEntry
  <2>. HIDE DEF r
  <2>. QED BY Zenon, <1>0, <2>1, <2>2, <2>3, CallStep
<1>2. CASE SweepRow(p, c)
  <2>. DEFINE h == IF c \in Overdue THEN op[p].held \cup {c} ELSE op[p].held
              r == [op[p] EXCEPT !.todo = @ \ {c}, !.held = h]
  <2>1. r \in CallRecord /\ op' = [op EXCEPT ![p] = r]
    BY Zenon, <1>0, <1>2 DEF SweepRow, CallRecord
  <2>2. r.b = op[p].b /\ r.at = op[p].at /\ r.held = h /\ r.todo = op[p].todo \ {c}
    BY <1>0 DEF CallRecord
  <2>3. /\ op[p].at = "sweep.update" /\ ~Locked(c)
        /\ \A d \in h : state[d] = "REQUESTED" /\ lapsed[d] # 0
    BY <1>2 DEF SweepRow, CallInv, SweepHolds, Overdue
  <2>4. h \subseteq op[p].held \cup {c}
    OBVIOUS
  <2>. HIDE DEF r, h
  <2>. QED BY Zenon, <1>0, <2>1, <2>2, <2>3, <2>4, CallStep
<1>. QED BY <1>1, <1>2

\* The sweep's read, a deadlock's victim, a crash.
LEMMA OtherCallStep ==
  ASSUME CallInv, NEW p \in Calls,
         SweepSelect(p) \/ DeadlockVictim(p) \/ Crash(p)
  PROVE  CallInv'
<1>0. op[p] \in CallRecord /\ UNCHANGED <<state, events, lapsed, blocks>> /\ crashes' \in Nat
  BY DEF CallInv, TypeOK, SweepSelect, DeadlockVictim, Crash
<1>1. CASE SweepSelect(p)
  <2>. DEFINE r == [Begin("sweep.update", NoBooking) EXCEPT !.todo = Candidates]
  <2>0. Candidates \subseteq Bookings
    BY DEF Candidates, Overdue
  <2>1. r \in CallRecord /\ r.at = "sweep.update" /\ r.held = {}
    BY Zenon, <2>0 DEF Begin, Idle, CallRecord, Steps
  <2>2. op' = [op EXCEPT ![p] = r]
    BY <1>1 DEF SweepSelect
  <2>. HIDE DEF r
  <2>. QED BY Zenon, <1>0, <2>1, <2>2, CallStep
<1>2. CASE DeadlockVictim(p)
  <2>1. CASE HasEntry(p) /\ op[p].attempt < DEADLOCK_ATTEMPTS
    <3>. DEFINE r == [Begin("accept.read", op[p].b) EXCEPT !.attempt = op[p].attempt + 1]
    <3>1. op[p].b \in Bookings /\ op[p].attempt \in Nat
      BY <1>0, <2>1 DEF CallInv, CallShape, HasEntry, CallRecord
    <3>2. /\ r \in CallRecord /\ r.at = "accept.read" /\ r.b = op[p].b
          /\ r.held = {} /\ r.todo = {}
      <4>. DEFINE g == Begin("accept.read", op[p].b)
      <4>1. /\ g \in CallRecord /\ g.at = "accept.read" /\ g.b = op[p].b
            /\ g.held = {} /\ g.todo = {}
        BY <3>1, BeginType DEF Steps
      <4>2. r = [g EXCEPT !.attempt = op[p].attempt + 1]
        OBVIOUS
      <4>. HIDE DEF g, r
      <4>. QED BY <3>1, <4>1, <4>2 DEF CallRecord
    <3>3. op' = [op EXCEPT ![p] = r]
      BY <1>2, <2>1 DEF DeadlockVictim
    <3>. HIDE DEF r
    <3>. QED BY Zenon, <1>0, <3>1, <3>2, <3>3, CallStep
  <2>2. CASE ~(HasEntry(p) /\ op[p].attempt < DEADLOCK_ATTEMPTS)
    <3>. DEFINE r == [Idle EXCEPT !.at = "deadlock"]
    <3>1. r \in CallRecord /\ r.at = "deadlock" /\ r.held = {} /\ r.todo = {}
      BY DEF Idle, CallRecord, Steps
    <3>2. op' = [op EXCEPT ![p] = r]
      BY Zenon, <1>2, <2>2 DEF DeadlockVictim
    <3>. HIDE DEF r
    <3>. QED BY Zenon, <1>0, <3>1, <3>2, CallStep
  <2>. QED BY <2>1, <2>2
<1>3. CASE Crash(p)
  BY <1>0, <1>3, ReturnStep DEF Crash
<1>. QED BY <1>1, <1>2, <1>3

(***************************************************************************)
(* Steps that commit.                                                      *)
(***************************************************************************)

\* The booking starts to hold its dates in this step.
Taking(b) == state'[b] \in EXCLUDED_STATES /\ state[b] \notin EXCLUDED_STATES

\* A transaction that commits the rows W keeps the invariant if no sweep that
\* goes on had matched one of them, each of them gets its event, and at most
\* one of them starts to hold dates, dates nobody has or is about to get.
LEMMA CommitStep ==
  ASSUME IInv, NEW W \in SUBSET Bookings,
         state' \in [Bookings -> RowStates], events' \in [Bookings -> Seq(Event)],
         \A b \in Bookings \ W : state'[b] = state[b] /\ events'[b] = events[b],
         \A b \in W : events'[b] # <<>> /\ events'[b][Len(events'[b])].to = state'[b],
         UNCHANGED <<lapsed, blocks, crashes>>,
         op' \in [Calls -> CallRecord],
         \A q \in Calls : op'[q] = op[q] \/ op'[q] = Idle,
         \A q \in Calls : op'[q] = op[q] /\ op[q].at = "sweep.update" => W \cap op[q].held = {},
         \A b, c \in W : Taking(b) /\ Taking(c) => b = c,
         \A b \in W : Taking(b) =>
           /\ ~ConflictCommitted(b)
           /\ \A q \in Calls : op'[q] = op[q] /\ op[q].at = "accept.losers"
                                 => ~Overlap(op[q].b, b)
  PROVE  IInv'
<1>. USE DEF IInv
<1>1. TypeOK'
  BY DEF TypeOK
<1>2. CallShape'
  BY IdleType DEF CallShape, HasEntry, Overlap
<1>3. LocksExclusive'
  BY IdleType DEF LocksExclusive
<1>4. SweepHolds'
  BY Zenon, IdleType DEF SweepHolds, TypeOK, CallRecord
<1>5. WinnersFree'
  <2>. SUFFICES ASSUME NEW p \in Calls, op'[p].at = "accept.losers", NEW c \in Bookings,
                       Overlap(op'[p].b, c), state'[c] \in EXCLUDED_STATES
                PROVE  FALSE
    BY Zenon DEF WinnersFree, ConflictCommitted, Overlap
  <2>1. op'[p] = op[p]
    BY IdleType
  <2>2. state[c] \notin EXCLUDED_STATES
    BY <2>1 DEF WinnersFree, ConflictCommitted
  <2>. QED BY <2>1, <2>2 DEF Taking
<1>6. WinnersApart'
  BY Zenon, IdleType DEF WinnersApart, Overlap
<1>7. NoDoubleBooking'
  <2>. SUFFICES ASSUME NEW b \in Bookings, NEW c \in Bookings, Overlap(b, c),
                       state'[b] \in EXCLUDED_STATES, state'[c] \in EXCLUDED_STATES
                PROVE  FALSE
    BY StateFacts DEF NoDoubleBooking, Overlap
  <2>1. Overlap(c, b) /\ b # c
    BY ConflictsAssumption DEF Overlap
  <2>2. Taking(b) \/ Taking(c)
    BY StateFacts DEF NoDoubleBooking, Taking
  <2>. QED BY <2>1, <2>2 DEF Taking, ConflictCommitted
<1>8. LatestEventIsState'
  BY DEF LatestEventIsState
<1>. QED BY <1>1, <1>2, <1>3, <1>4, <1>5, <1>6, <1>7, <1>8

\* Moved writes the given rows and no other.
LEMMA MovedType ==
  ASSUME TypeOK, NEW bs \in SUBSET Bookings, NEW to \in States
  PROVE  /\ Moved(bs, to) \in [Bookings -> RowStates]
         /\ \A b \in bs : Moved(bs, to)[b] = to
         /\ \A b \in Bookings \ bs : Moved(bs, to)[b] = state[b]
BY StateFacts DEF Moved, TypeOK

\* A call that commits one kind of move for all its rows.
LEMMA MoveStep ==
  ASSUME IInv, NEW W \in SUBSET Bookings, NEW from \in RowStates, NEW to \in States,
         state' = Moved(W, to), events' = Recorded(W, from, to),
         UNCHANGED <<lapsed, blocks, crashes>>,
         op' \in [Calls -> CallRecord],
         \A q \in Calls : op'[q] = op[q] \/ op'[q] = Idle,
         \A q \in Calls : op'[q] = op[q] /\ op[q].at = "sweep.update" => W \cap op[q].held = {},
         to \in EXCLUDED_STATES => \A b \in W : state[b] \in EXCLUDED_STATES
  PROVE  IInv'
<1>1. \A b \in W : ~Taking(b)
  BY MovedType DEF IInv, Taking
<1>2. /\ state' \in [Bookings -> RowStates]
      /\ \A b \in Bookings \ W : state'[b] = state[b]
      /\ \A b \in W : state'[b] = to
  BY MovedType DEF IInv
<1>3. /\ events' \in [Bookings -> Seq(Event)]
      /\ \A b \in Bookings \ W : events'[b] = events[b]
      /\ \A b \in W : events'[b] # <<>> /\ events'[b][Len(events'[b])].to = to
  <2>1. TypeOK
    BY DEF IInv
  <2>. DEFINE f == Recorded(W, from, to)
  <2>2. /\ f \in [Bookings -> Seq(Event)]
        /\ \A b \in Bookings \ W : f[b] = events[b]
        /\ \A b \in W : f[b] # <<>> /\ f[b][Len(f[b])].to = to
    BY <2>1, RecordedType
  <2>3. events' = f
    OBVIOUS
  <2>. HIDE DEF f
  <2>. QED BY <2>2, <2>3, Zenon
<1>4. \A b \in Bookings \ W : state'[b] = state[b] /\ events'[b] = events[b]
  BY <1>2, <1>3
<1>5. \A b \in W : events'[b] # <<>> /\ events'[b][Len(events'[b])].to = state'[b]
  BY <1>2, <1>3
<1>6. \A b, c \in W : Taking(b) /\ Taking(c) => b = c
  BY <1>1
<1>7. \A b \in W : Taking(b) =>
           /\ ~ConflictCommitted(b)
           /\ \A q \in Calls : op'[q] = op[q] /\ op[q].at = "accept.losers"
                                 => ~Overlap(op[q].b, b)
  BY <1>1
<1>. QED BY <1>2, <1>3, <1>4, <1>5, <1>6, <1>7, CommitStep, Zenon

\* The insert of a request keeps the invariant.
LEMMA RequestInsertStep ==
  ASSUME IInv, NEW p \in Calls, RequestInsert(p)
  PROVE  IInv'
<1>1. op' \in [Calls -> CallRecord] /\ \A q \in Calls : op'[q] = op[q] \/ op'[q] = Idle
  BY IdleType DEF RequestInsert, Return, IInv, TypeOK
<1>2. op[p].b \in Bookings
  BY DEF RequestInsert, IInv, CallShape
<1>3. CASE state[op[p].b] = "NONE"
  <2>1. \A q \in Calls : op[q].at = "sweep.update" => {op[p].b} \cap op[q].held = {}
    BY <1>3 DEF IInv, SweepHolds
  <2>2. /\ state' = Moved({op[p].b}, "REQUESTED")
        /\ events' = Recorded({op[p].b}, "NONE", "REQUESTED")
        /\ UNCHANGED <<lapsed, blocks, crashes>>
    BY <1>3 DEF RequestInsert
  <2>. QED BY <1>1, <1>2, <2>1, <2>2, StateFacts, MoveStep
<1>4. CASE state[op[p].b] # "NONE"
  <2>1. CallInv'
    BY <1>4, ReturnStep DEF RequestInsert, IInv, CallInv, TypeOK
  <2>2. UNCHANGED <<state, events>>
    BY <1>4 DEF RequestInsert
  <2>. QED BY <2>1, <2>2 DEF IInv, CallInv, NoDoubleBooking, LatestEventIsState, Overlap
<1>. QED BY <1>3, <1>4

\* decline's write keeps it.
LEMMA DeclineUpdateStep ==
  ASSUME IInv, NEW p \in Calls, DeclineUpdate(p)
  PROVE  IInv'
<1>1. op' \in [Calls -> CallRecord] /\ \A q \in Calls : op'[q] = op[q] \/ op'[q] = Idle
  BY IdleType DEF DeclineUpdate, Return, IInv, TypeOK
<1>2. op[p].b \in Bookings
  BY DEF DeclineUpdate, IInv, CallShape
<1>3. \A q \in Calls : {op[p].b} \cap op[q].held = {}
  BY DEF DeclineUpdate, Locked
<1>. QED BY <1>1, <1>2, <1>3, StateFacts, MoveStep DEF DeclineUpdate

\* A sweep's commit writes only rows it has locked.
LEMMA SweepCommitStep ==
  ASSUME IInv, NEW p \in Calls, SweepCommit(p)
  PROVE  IInv'
<1>1. /\ op' \in [Calls -> CallRecord] /\ op'[p] = Idle
      /\ \A q \in Calls \ {p} : op'[q] = op[q]
  BY IdleType DEF SweepCommit, Return, IInv, TypeOK
<1>2. op[p].held \in SUBSET Bookings
  BY DEF IInv, TypeOK, CallRecord
<1>3. \A q \in Calls : op'[q] = op[q] => op[p].held \cap op[q].held = {}
  BY <1>1, IdleType DEF IInv, LocksExclusive, SweepCommit
<1>. QED BY <1>1, <1>2, <1>3, StateFacts, MoveStep DEF SweepCommit

\* advance moves a booking between states that hold its dates.
LEMMA AdvanceStep ==
  ASSUME IInv, NEW b \in Bookings, NEW m \in PaymentMoves, Advance(b, m[1], m[2])
  PROVE  IInv'
<1>1. m[1] \in EXCLUDED_STATES /\ m[1] \in RowStates /\ m[2] \in States
  BY StateFacts
<1>2. \A q \in Calls : {b} \cap op[q].held = {}
  BY DEF Advance, Locked
<1>3. op' = op /\ op \in [Calls -> CallRecord] /\ state[b] = m[1]
  BY DEF Advance, IInv, TypeOK
<1>. QED BY <1>1, <1>2, <1>3, MoveStep DEF Advance

\* The acceptance takes its dates and declines its losers in one commit.
LEMMA AcceptCommitStep ==
  ASSUME IInv, NEW p \in Calls, AcceptCommit(p)
  PROVE  IInv'
<1>. DEFINE b == op[p].b
            W == op[p].held
            losers == W \ {b}
<1>1. /\ op' \in [Calls -> CallRecord] /\ op'[p] = Idle
      /\ \A q \in Calls \ {p} : op'[q] = op[q]
      /\ UNCHANGED <<lapsed, blocks, crashes>>
  BY IdleType DEF AcceptCommit, Return, IInv, TypeOK
<1>2. /\ op[p].at = "accept.losers" /\ b \in Bookings /\ b \in W /\ W \in SUBSET Bookings
  BY DEF AcceptCommit, IInv, CallShape, HasEntry, TypeOK, CallRecord
<1>3. /\ state' \in [Bookings -> RowStates] /\ state'[b] = "ACCEPTED"
      /\ \A c \in losers : state'[c] = "DECLINED"
      /\ \A c \in Bookings \ W : state'[c] = state[c]
  <2>1. state' = [Moved(losers, "DECLINED") EXCEPT ![b] = "ACCEPTED"]
    BY DEF AcceptCommit
  <2>2. /\ Moved(losers, "DECLINED") \in [Bookings -> RowStates]
        /\ \A c \in losers : Moved(losers, "DECLINED")[c] = "DECLINED"
        /\ \A c \in Bookings \ losers : Moved(losers, "DECLINED")[c] = state[c]
    BY <1>2, StateFacts, MovedType DEF IInv
  <2>. QED BY Zenon, <1>2, <2>1, <2>2, StateFacts
<1>4. /\ events' \in [Bookings -> Seq(Event)]
      /\ \A c \in W : events'[c] # <<>> /\ events'[c][Len(events'[c])].to = state'[c]
      /\ \A c \in Bookings \ W : events'[c] = events[c]
  <2>. DEFINE f == Recorded(losers, "REQUESTED", "DECLINED")
              e == [from |-> "REQUESTED", to |-> "ACCEPTED"]
  <2>1. events' = [f EXCEPT ![b] = Append(@, e)]
    BY DEF AcceptCommit
  <2>2. /\ f \in [Bookings -> Seq(Event)]
        /\ \A c \in Bookings \ losers : f[c] = events[c]
        /\ \A c \in losers : f[c] # <<>> /\ f[c][Len(f[c])].to = "DECLINED"
    <3>1. losers \in SUBSET Bookings /\ "REQUESTED" \in RowStates /\ "DECLINED" \in States
      BY <1>2, StateFacts
    <3>. HIDE DEF losers
    <3>. QED BY <3>1, RecordedType DEF IInv
  <2>3. e \in Event /\ e.to = "ACCEPTED"
    BY StateFacts DEF Event
  <2>4. \A s \in Seq(Event) : /\ Append(s, e) \in Seq(Event) /\ Append(s, e) # <<>>
                              /\ Append(s, e)[Len(Append(s, e))] = e
    BY <2>3
  <2>. HIDE DEF f, e
  <2>. QED BY Zenon, <1>2, <1>3, <2>1, <2>2, <2>3, <2>4
<1>5. \A q \in Calls : op'[q] = op[q] => q # p
  BY <1>1, <1>2, IdleType
<1>6. \A q \in Calls : op'[q] = op[q] => W \cap op[q].held = {}
  BY <1>5 DEF IInv, LocksExclusive
<1>7. \A c \in W : Taking(c) => c = b
  BY <1>3, StateFacts DEF Taking
<1>8. /\ ~ConflictCommitted(b)
      /\ \A q \in Calls : op'[q] = op[q] /\ op[q].at = "accept.losers" => ~Overlap(op[q].b, b)
  BY <1>2, <1>5 DEF IInv, WinnersFree, WinnersApart
<1>9. /\ \A c, d \in W : Taking(c) /\ Taking(d) => c = d
      /\ \A c \in W : Taking(c) =>
           /\ ~ConflictCommitted(c)
           /\ \A q \in Calls : op'[q] = op[q] /\ op[q].at = "accept.losers"
                                 => ~Overlap(op[q].b, c)
  BY <1>7, <1>8
<1>10. \A q \in Calls : op'[q] = op[q] \/ op'[q] = Idle
  BY <1>1
<1>11. \A c \in Bookings \ W : state'[c] = state[c] /\ events'[c] = events[c]
  BY <1>3, <1>4
<1>12. \A q \in Calls : op'[q] = op[q] /\ op[q].at = "sweep.update" => W \cap op[q].held = {}
  BY <1>6
<1>. HIDE DEF b, W, losers
<1>. QED BY <1>1, <1>2, <1>3, <1>4, <1>9, <1>10, <1>11, <1>12, CommitStep, Zenon

(***************************************************************************)
(* The theorems.                                                           *)
(***************************************************************************)

LEMMA Initially == Init => IInv
<1>. SUFFICES ASSUME Init PROVE IInv
  OBVIOUS
<1>1. TypeOK
  BY IdleType, StateFacts DEF Init, TypeOK
<1>2. CallShape /\ LocksExclusive /\ SweepHolds /\ WinnersFree /\ WinnersApart
  BY IdleType DEF Init, CallShape, HasEntry, LocksExclusive, SweepHolds, WinnersFree,
                  WinnersApart
<1>3. NoDoubleBooking /\ LatestEventIsState
  BY StateFacts DEF Init, NoDoubleBooking, LatestEventIsState
<1>. QED BY <1>1, <1>2, <1>3 DEF IInv

\* The clock and the owner's blocks disturb only lapsed and blocks.
LEMMA EnvironmentStep ==
  ASSUME IInv,
         \/ \E b \in Bookings : DeadlinePasses(b)
         \/ \E k \in Blocks : block(k) \/ unblock(k)
  PROVE  IInv'
<1>1. UNCHANGED <<state, events, op, crashes>>
  BY Zenon DEF DeadlinePasses, block, unblock
<1>2. lapsed' \in [Bookings -> Nat] /\ blocks' \subseteq Blocks
      /\ \A c \in Bookings : lapsed[c] # 0 => lapsed'[c] # 0
  <2>1. CASE \E b \in Bookings : DeadlinePasses(b)
    <3>1. PICK b \in Bookings : DeadlinePasses(b)
      BY <2>1
    <3>. DEFINE n == Cardinality({c \in Bookings : lapsed[c] # 0})
    <3>2. n \in Nat
      BY BookingsFinite, FS_Subset, FS_CardinalityType
    <3>3. lapsed' = [lapsed EXCEPT ![b] = 1 + n] /\ blocks' = blocks
      BY <3>1 DEF DeadlinePasses
    <3>. HIDE DEF n
    <3>. QED BY <3>2, <3>3 DEF IInv, TypeOK
  <2>2. CASE \E k \in Blocks : block(k) \/ unblock(k)
    BY <2>2 DEF block, unblock, IInv, TypeOK
  <2>. QED BY <2>1, <2>2
<1>3. TypeOK'
  BY <1>1, <1>2 DEF IInv, TypeOK
<1>4. SweepHolds'
  BY <1>1, <1>2 DEF IInv, SweepHolds, TypeOK, CallRecord
<1>5. CallShape' /\ LocksExclusive' /\ WinnersFree' /\ WinnersApart'
  BY <1>1 DEF IInv, CallShape, HasEntry, LocksExclusive, WinnersFree, WinnersApart,
              ConflictCommitted, Overlap
<1>6. NoDoubleBooking' /\ LatestEventIsState'
  BY <1>1 DEF IInv, NoDoubleBooking, LatestEventIsState, Overlap
<1>. QED BY <1>3, <1>4, <1>5, <1>6 DEF IInv

\* Where only a call's record changes, the rest of IInv is about what did not.
LEMMA FromCallInv ==
  ASSUME IInv, CallInv', UNCHANGED <<state, events>>
  PROVE  IInv'
BY DEF IInv, CallInv, NoDoubleBooking, LatestEventIsState, Overlap

\* Every step of the API, the sweeps, the owner and the clock keeps it.
LEMMA Inductive == IInv /\ [Next]_vars => IInv'
<1>. SUFFICES ASSUME IInv, [Next]_vars PROVE IInv'
  OBVIOUS
<1>0. CallInv
  BY DEF IInv, CallInv
<1>1. CASE UNCHANGED vars
  BY Zenon, <1>1 DEF vars, IInv, TypeOK, CallShape, HasEntry, LocksExclusive, SweepHolds,
              WinnersFree, WinnersApart, ConflictCommitted, Overlap, NoDoubleBooking,
              LatestEventIsState
<1>2. ASSUME NEW p \in Handlers, NEW b \in Bookings,
             RequestChecks(p, b) \/ AcceptChecks(p, b) \/ DeclineRead(p, b)
      PROVE  IInv'
  <2>1. p \in Calls
    BY DEF Calls
  <2>2. UNCHANGED <<state, events>>
    BY <1>2 DEF RequestChecks, AcceptChecks, DeclineRead
  <2>. QED BY <1>0, <1>2, <2>1, <2>2, StartStep, FromCallInv
<1>3. ASSUME NEW p \in Calls, SweepSelect(p) \/ DeadlockVictim(p) \/ Crash(p)
      PROVE  IInv'
  <2>1. UNCHANGED <<state, events>>
    BY <1>3 DEF SweepSelect, DeadlockVictim, Crash
  <2>. QED BY <1>0, <1>3, <2>1, OtherCallStep, FromCallInv
<1>4. ASSUME NEW p \in Calls,
             AcceptDates(p) \/ AcceptRead(p) \/ AcceptUpdate(p) \/ AcceptExclude(p)
      PROVE  IInv'
  <2>1. UNCHANGED <<state, events>>
    BY <1>4 DEF AcceptDates, AcceptRead, AcceptUpdate, AcceptExclude
  <2>. QED BY <1>0, <1>4, <2>1, AcceptStep, FromCallInv
<1>5. ASSUME NEW p \in Calls, NEW c \in Bookings, AcceptLoser(p, c) \/ SweepRow(p, c)
      PROVE  IInv'
  <2>1. UNCHANGED <<state, events>>
    BY <1>5 DEF AcceptLoser, SweepRow
  <2>. QED BY <1>0, <1>5, <2>1, RowStep, FromCallInv
<1>6. ASSUME NEW p \in Calls, Proceed(p) PROVE IInv'
  BY <1>3, <1>4, <1>5, <1>6, RequestInsertStep, AcceptCommitStep, DeclineUpdateStep,
     SweepCommitStep DEF Proceed
<1>7. ASSUME NEW b \in Bookings, NEW m \in PaymentMoves, Advance(b, m[1], m[2])
      PROVE  IInv'
  BY <1>7, AdvanceStep
<1>8. \A p \in Sweepers : p \in Calls
  BY DEF Calls
<1>. QED BY <1>1, <1>2, <1>3, <1>6, <1>7, <1>8, EnvironmentStep DEF Next

\* IInv holds in every reachable state.
THEOREM Invariance == Spec => []IInv
BY Initially, Inductive, PTL DEF Spec

\* Rows, histories and calls stay well formed.
THEOREM TypeCorrect == Spec => []TypeOK
<1>1. IInv => TypeOK
  BY DEF IInv
<1>. QED BY <1>1, Invariance, PTL

\* However many acceptances, declines, payments, sweeps, deadlocks and
\* crashes interleave, two overlapping bookings never both hold their dates.
THEOREM NoDoubleBookingHolds == Spec => []NoDoubleBooking
<1>1. IInv => NoDoubleBooking
  BY DEF IInv
<1>. QED BY <1>1, Invariance, PTL

\* Every booking's latest event names the state its row is in.
THEOREM LatestEventIsStateHolds == Spec => []LatestEventIsState
<1>1. IInv => LatestEventIsState
  BY DEF IInv
<1>. QED BY <1>1, Invariance, PTL

\* accept's UPDATE by id alone never declines a booking that holds dates.
THEOREM LosersHoldNoDatesHolds == Spec => []LosersHoldNoDates
<1>1. IInv => LosersHoldNoDates
  <2>. SUFFICES ASSUME IInv, NEW p \in Calls, op[p].at = "accept.losers",
                       NEW c \in op[p].todo \cup (op[p].held \ {op[p].b})
                PROVE  state[c] \notin CALENDAR_OCCUPYING_STATES
    BY DEF LosersHoldNoDates
  <2>1. Overlap(op[p].b, c) /\ c \in Bookings
    BY DEF IInv, CallShape, TypeOK, CallRecord
  <2>. QED BY <2>1, StateFacts DEF IInv, WinnersFree, ConflictCommitted
<1>. QED BY <1>1, Invariance, PTL

(***************************************************************************)
(* What a step may do to the rows.                                         *)
(***************************************************************************)

\* Every step that changes a row is one of the five commits.
LEMMA Writes ==
  ASSUME IInv, [Next]_vars
  PROVE  \/ state' = state
         \/ \E b \in Bookings : state[b] = "NONE" /\ state' = Moved({b}, "REQUESTED")
         \/ \E b \in Bookings : state' = Moved({b}, "DECLINED")
         \/ \E b \in Bookings, m \in PaymentMoves :
              state[b] = m[1] /\ state' = Moved({b}, m[2])
         \/ \E p \in Calls : SweepCommit(p) \/ AcceptCommit(p)
<1>1. CASE \E p \in Calls : RequestInsert(p)
  BY Zenon, <1>1 DEF RequestInsert, IInv, CallShape
<1>2. CASE \E p \in Calls : DeclineUpdate(p)
  BY Zenon, <1>2 DEF DeclineUpdate, IInv, CallShape
<1>3. CASE \E b \in Bookings, m \in PaymentMoves : Advance(b, m[1], m[2])
  BY <1>3, SMTT(30) DEF Advance
<1>4. CASE \E p \in Calls : SweepCommit(p) \/ AcceptCommit(p)
  BY <1>4
<1>5. CASE \/ UNCHANGED vars
           \/ \E p \in Handlers, b \in Bookings :
                RequestChecks(p, b) \/ AcceptChecks(p, b) \/ DeclineRead(p, b)
           \/ \E p \in Sweepers : SweepSelect(p)
           \/ \E p \in Calls :
                \/ AcceptDates(p) \/ AcceptRead(p) \/ AcceptUpdate(p) \/ AcceptExclude(p)
                \/ \E c \in Bookings : AcceptLoser(p, c) \/ SweepRow(p, c)
                \/ DeadlockVictim(p) \/ Crash(p)
           \/ \E b \in Bookings : DeadlinePasses(b)
           \/ \E k \in Blocks : block(k) \/ unblock(k)
  BY Zenon, <1>5 DEF vars, RequestChecks, AcceptChecks, DeclineRead, SweepSelect, AcceptDates,
              AcceptRead, AcceptUpdate, AcceptExclude, AcceptLoser, SweepRow,
              DeadlockVictim, Crash, DeadlinePasses, block, unblock
<1>. QED BY <1>1, <1>2, <1>3, <1>4, <1>5, ZenonT(30) DEF Next, Proceed

\* What an acceptance's commit leaves in the rows.
LEMMA AcceptWrites ==
  ASSUME IInv, NEW p \in Calls, AcceptCommit(p)
  PROVE  /\ op[p].b \in Bookings /\ state'[op[p].b] = "ACCEPTED"
         /\ ~ConflictCommitted(op[p].b)
         /\ \A c \in Bookings \ {op[p].b} :
              \/ state'[c] = state[c]
              \/ state'[c] = "DECLINED" /\ state[c] \notin EXCLUDED_STATES
<1>. DEFINE losers == op[p].held \ {op[p].b}
<1>1. /\ op[p].b \in Bookings /\ losers \in SUBSET Bookings
      /\ ~ConflictCommitted(op[p].b)
      /\ \A c \in losers : Overlap(op[p].b, c)
  BY Zenon DEF AcceptCommit, IInv, CallShape, TypeOK, CallRecord, WinnersFree
<1>2. \A c \in losers : state[c] \notin EXCLUDED_STATES
  BY <1>1 DEF ConflictCommitted
<1>3. state' = [Moved(losers, "DECLINED") EXCEPT ![op[p].b] = "ACCEPTED"]
  BY DEF AcceptCommit
<1>. HIDE DEF losers
<1>4. /\ Moved(losers, "DECLINED") \in [Bookings -> RowStates]
      /\ \A c \in losers : Moved(losers, "DECLINED")[c] = "DECLINED"
      /\ \A c \in Bookings \ losers : Moved(losers, "DECLINED")[c] = state[c]
  BY <1>1, StateFacts, MovedType DEF IInv
<1>. QED BY <1>1, <1>2, <1>3, <1>4

\* A sweep expires nothing but requests still waiting past their deadline,
\* whatever was committed between its read and its write.
THEOREM SweepOnlyExpiresWaitingHolds == Spec => SweepOnlyExpiresWaiting
<1>. DEFINE Good == \A b \in Bookings :
               state'[b] = "EXPIRED" /\ state[b] # "EXPIRED"
                 => state[b] = "REQUESTED" /\ lapsed[b] # 0
<1>1. ASSUME IInv, [Next]_vars PROVE Good
  <2>. SUFFICES ASSUME NEW b \in Bookings, state'[b] = "EXPIRED", state[b] # "EXPIRED"
                PROVE  state[b] = "REQUESTED" /\ lapsed[b] # 0
    OBVIOUS
  <2>0. \A bs \in SUBSET Bookings, to \in States :
          Moved(bs, to)[b] = IF b \in bs THEN to ELSE state[b]
    BY DEF Moved
  <2>1. ~(\E p \in Calls : AcceptCommit(p))
    BY <1>1, AcceptWrites
  <2>2. \A m \in PaymentMoves : m[2] \in States /\ m[2] # "EXPIRED"
    BY DEF PaymentMoves, States
  <2>3. PICK p \in Calls : SweepCommit(p)
    <3>0. \A c, to : Moved({c}, to)[b] = to \/ Moved({c}, to)[b] = state[b]
      BY DEF Moved
    <3>1. \A c \in Bookings : state' # Moved({c}, "REQUESTED") /\ state' # Moved({c}, "DECLINED")
      BY Zenon, <3>0
    <3>2. \A c \in Bookings, m \in PaymentMoves : state' # Moved({c}, m[2])
      BY <3>0, <2>2
    <3>. QED BY <1>1, <2>1, <3>1, <3>2, Writes, Zenon
  <2>4. op[p].held \in SUBSET Bookings /\ op[p].at = "sweep.update"
    BY <1>1, <2>3 DEF SweepCommit, IInv, TypeOK, CallRecord
  <2>5. b \in op[p].held
    BY <2>0, <2>3, <2>4, StateFacts DEF SweepCommit
  <2>. QED BY <1>1, <2>4, <2>5 DEF IInv, SweepHolds
<1>2. IInv /\ [Next]_vars => [Good]_vars
  BY <1>1
<1>. QED BY <1>2, Invariance, PTL DEF Spec, SweepOnlyExpiresWaiting

\* The booking side implements the Calendar: each step takes free dates for
\* one booking, gives up one booking's dates, or changes neither.
THEOREM CalendarImplemented == Spec => ImplementsCalendar
<1>1. Init => C!Init
  BY StateFacts DEF Init, C!Init, Occupying
<1>2. ASSUME IInv, [Next]_vars PROVE [C!Next]_Occupying
  <2>. DEFINE Holds(f, b) == f[b] \in EXCLUDED_STATES
  <2>0. /\ Occupying = {b \in Bookings : Holds(state, b)}
        /\ Occupying' = {b \in Bookings : Holds(state', b)}
    BY StateFacts DEF Occupying
  <2>1. \A bs \in SUBSET Bookings, to \in States, b \in Bookings :
          Moved(bs, to)[b] = IF b \in bs THEN to ELSE state[b]
    BY DEF Moved
  <2>2. CASE state' = state
    BY <2>2 DEF Occupying
  <2>3. CASE \E b \in Bookings : state[b] = "NONE" /\ state' = Moved({b}, "REQUESTED")
    <3>1. \A c \in Bookings : Holds(state', c) <=> Holds(state, c)
      BY <2>1, <2>3, StateFacts
    <3>. QED BY <2>0, <3>1
  <2>4. CASE \E b \in Bookings : state' = Moved({b}, "DECLINED")
    <3>1. PICK b \in Bookings : state' = Moved({b}, "DECLINED")
      BY <2>4
    <3>2. ~Holds(state', b) /\ \A c \in Bookings \ {b} : Holds(state', c) <=> Holds(state, c)
      BY <2>1, <3>1, StateFacts
    <3>3. Occupying' = Occupying \ {b}
      BY <2>0, <3>2
    <3>. QED BY <3>3 DEF C!Next, C!GiveUp
  <2>5. CASE \E b \in Bookings, m \in PaymentMoves :
               state[b] = m[1] /\ state' = Moved({b}, m[2])
    <3>1. \A c \in Bookings : Holds(state', c) <=> Holds(state, c)
      BY <2>1, <2>5, StateFacts
    <3>. QED BY <2>0, <3>1
  <2>6. CASE \E p \in Calls : SweepCommit(p)
    <3>1. PICK p \in Calls : SweepCommit(p)
      BY <2>6
    <3>2. op[p].held \in SUBSET Bookings /\ \A c \in op[p].held : state[c] = "REQUESTED"
      BY <1>2, <3>1 DEF SweepCommit, IInv, TypeOK, CallRecord, SweepHolds
    <3>3. \A c \in Bookings : Holds(state', c) <=> Holds(state, c)
      BY <2>1, <3>1, <3>2, StateFacts DEF SweepCommit
    <3>. QED BY <2>0, <3>3
  <2>7. CASE \E p \in Calls : AcceptCommit(p)
    <3>1. PICK p \in Calls : AcceptCommit(p)
      BY <2>7
    <3>2. /\ op[p].b \in Bookings /\ Holds(state', op[p].b)
          /\ \A c \in Bookings \ {op[p].b} : Holds(state', c) <=> Holds(state, c)
      BY <1>2, <3>1, AcceptWrites, StateFacts
    <3>3. Occupying' = Occupying \cup {op[p].b}
      BY <2>0, <3>2
    <3>4. C!Free(op[p].b)
      BY <1>2, <2>0, <3>1, AcceptWrites DEF C!Free, ConflictCommitted, Overlap
    <3>. QED BY <3>2, <3>3, <3>4 DEF C!Next, C!Take
  <2>. QED BY Zenon, <1>2, <2>2, <2>3, <2>4, <2>5, <2>6, <2>7, Writes
<1>. QED BY <1>1, <1>2, Invariance, PTL DEF Spec, ImplementsCalendar, C!Spec
====
