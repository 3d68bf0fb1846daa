---- MODULE Payments ----
(***************************************************************************)
(* Taking the money for a hire: BookingsService.pay, PaymentsService, the  *)
(* payment intent and ledger stores, and ReconciliationService.            *)
(*                                                                         *)
(* The provider is external, modelled from its port (payment-provider.ts): *)
(* begin is idempotent per attempt key, a charge that has succeeded or     *)
(* failed stays so, an answer may be lost, and an answer in hand may be    *)
(* older than the charge.  Postings and attempts are written by separate   *)
(* statements, and a call may end between any two.                         *)
(***************************************************************************)
EXTENDS BookingStates, Naturals, FiniteSets

CONSTANTS
  Bookings,
  Payers,       \* concurrent calls of pay
  Sweeps,       \* concurrent runs of the reconciliation sweep
  NoBooking,    \* the booking of an idle call
  BATCH_LIMIT,  \* ReconciliationService.BATCH_LIMIT
  MaxAttempts,  \* bound: attempts at one booking's charge
  MaxCrashes    \* bound: calls cut short

ASSUME PaymentCalls == Payers \cap Sweeps = {} /\ NoBooking \notin Bookings
ASSUME PaymentBounds ==
  BATCH_LIMIT \in Nat \ {0} /\ MaxAttempts \in Nat \ {0} /\ MaxCrashes \in Nat

VARIABLES
  booking,   \* bookings.state, between the acceptance and the reservation
  intent,    \* payment_intents.status of the attempt hire:<booking>:<n>
  ref,       \* the attempts whose providerReference is recorded
  older,     \* pairs of attempts, the first with the smaller updatedAt
  ledger,    \* the bookings with a hire_charge_captured transaction
  charge,    \* external: the charge at the provider under each attempt key
  op,        \* the call each payer or sweep is executing
  crashes    \* calls cut short so far

vars == <<booking, intent, ref, older, ledger, charge, op, crashes>>

Calls == Payers \cup Sweeps
Attempts == 0 .. (MaxAttempts - 1)
Ids == Bookings \X Attempts

TERMINAL_STATUSES == {"succeeded", "failed"}
ProviderStatuses == {"pending_payer_action", "processing"} \cup TERMINAL_STATUSES
Statuses == {"initiated"} \cup ProviderStatuses

BookingSteps == PAYABLE_STATES \cup {"RESERVED"}

Steps == {"idle", "pay.move", "pay.key", "pay.open", "pay.call", "pay.settle",
          "sweep.next", "sweep.read", "apply", "record"}

\* A call: its booking and attempt number, the row's status it read (of the
\* booking for pay.move), the answer it holds, the attempts yet to refresh.
CallRecord == [at : Steps, b : Bookings \cup {NoBooking}, n : Nat,
               seen : Statuses \cup BookingSteps \cup {"none"},
               answer : Statuses \cup {"none"}, queue : SUBSET Ids]
Idle == [at |-> "idle", b |-> NoBooking, n |-> 0, seen |-> "none",
         answer |-> "none", queue |-> {}]

Init ==
  /\ booking = [b \in Bookings |-> "ACCEPTED"]
  /\ intent = [b \in Bookings |-> [n \in Attempts |-> "absent"]]
  /\ ref = {}
  /\ older = {}
  /\ ledger = {}
  /\ charge = [b \in Bookings |-> [n \in Attempts |-> "none"]]
  /\ op = [p \in Calls |-> Idle]
  /\ crashes = 0

\* Writing the row of the attempt a makes it the most recently updated one.
Touch(a) ==
  older' = {e \in older : a \notin {e[1], e[2]}}
             \cup {<<c, a>> : c \in {i \in Ids \ {a} : intent[i[1]][i[2]] # "absent"}}

Return(p) == op' = [op EXCEPT ![p] = Idle]
rows == <<booking, intent, ref, older, ledger, charge>>

\* What follows an outcome, applied or not: pay settles the booking with it, a
\* sweep goes on to its next attempt.
Conclude(p, status) ==
  op' = [op EXCEPT ![p].at = IF p \in Payers THEN "pay.settle" ELSE "sweep.next",
                   ![p].answer = status]

\* ... and what follows an error: pay throws, a sweep catches it.
Fail(p) == IF p \in Payers THEN Return(p) ELSE op' = [op EXCEPT ![p].at = "sweep.next"]

(***************************************************************************)
(* pay.                                                                    *)
(***************************************************************************)
PayRead(p, b) ==
  /\ op[p].at = "idle"
  /\ booking[b] \in PAYABLE_STATES
  /\ op' = [op EXCEPT ![p] = [Idle EXCEPT !.at = "pay.move", !.b = b, !.seen = booking[b]]]
  /\ UNCHANGED <<rows, crashes>>

\* movePayable: nothing to move on a resume, else a compare-and-set.
movePayable(p) ==
  /\ op[p].at = "pay.move"
  /\ LET b == op[p].b
         from == op[p].seen IN
     \/ /\ from = "AWAITING_PAYMENT" \/ booking[b] = from
        /\ booking' = IF from = "AWAITING_PAYMENT" THEN booking
                      ELSE [booking EXCEPT ![b] = "AWAITING_PAYMENT"]
        /\ op' = [op EXCEPT ![p].at = "pay.key"]
     \/ /\ from # "AWAITING_PAYMENT" /\ booking[b] # from
        /\ UNCHANGED booking
        /\ Return(p)
  /\ UNCHANGED <<intent, ref, older, ledger, charge, crashes>>

\* Mutant: every attempt counts, failed or not.
FailedAttempts_all(b) == {n \in Attempts : intent[b][n] # "absent"}

FailedAttempts(b) == {n \in Attempts : intent[b][n] = "failed"}

\* attemptKeyFor: the attempt is numbered by how many have failed.
attemptKeyFor(p) ==
  /\ op[p].at = "pay.key"
  /\ LET n == Cardinality(FailedAttempts(op[p].b)) IN
     IF n < MaxAttempts THEN op' = [op EXCEPT ![p].at = "pay.open", ![p].n = n]
     ELSE Return(p)
  /\ UNCHANGED <<rows, crashes>>

\* intents.begin: the row under this key, created unless it is there.  Only an
\* attempt nothing was heard of is taken to the provider.
OpenIntent(p) ==
  /\ op[p].at = "pay.open"
  /\ LET b == op[p].b
         n == op[p].n
         status == IF intent[b][n] = "absent" THEN "initiated" ELSE intent[b][n] IN
     /\ intent' = [intent EXCEPT ![b][n] = status]
     /\ IF intent[b][n] = "absent" THEN Touch(<<b, n>>) ELSE UNCHANGED older
     /\ op' = [op EXCEPT ![p].at = IF status = "initiated" THEN "pay.call" ELSE "pay.settle",
                         ![p].seen = status, ![p].answer = status]
  /\ UNCHANGED <<booking, ref, ledger, charge, crashes>>

\* provider.begin: creates the charge or finds it under its key.  The answer
\* may be lost on its way back, which pay sees as an error.
ProviderBegin(p, status) ==
  /\ op[p].at = "pay.call"
  /\ LET b == op[p].b
         n == op[p].n IN
     /\ charge[b][n] \in {"none", status}
     /\ charge' = [charge EXCEPT ![b][n] = status]
     /\ \/ op' = [op EXCEPT ![p].at = "apply", ![p].answer = status]
        \/ Return(p)
  /\ UNCHANGED <<booking, intent, ref, older, ledger, crashes>>

(***************************************************************************)
(* applyOutcome: the posting first, the attempt's row after it.            *)
(***************************************************************************)

\* The ledger's key is the booking's: a second posting finds the first.
postCapture(b) == ledger \cup {b}

\* Mutant: an outcome found by a sweep is recorded and not posted.
applyOutcome_unposted(p) ==
  /\ op[p].at = "apply"
  /\ LET answer == op[p].answer IN
     \/ answer = op[p].seen /\ UNCHANGED ledger /\ Conclude(p, answer)
     \/ /\ answer # op[p].seen
        /\ ledger' = IF answer = "succeeded" /\ p \in Payers THEN postCapture(op[p].b) ELSE ledger
        /\ op' = [op EXCEPT ![p].at = "record"]
  /\ UNCHANGED <<booking, intent, ref, older, charge, crashes>>

applyOutcome(p) ==
  /\ op[p].at = "apply"
  /\ LET answer == op[p].answer IN
     \/ /\ answer = op[p].seen
        /\ UNCHANGED ledger
        /\ Conclude(p, answer)
     \/ /\ answer # op[p].seen
        /\ ledger' = IF answer = "succeeded" THEN postCapture(op[p].b) ELSE ledger
        /\ op' = [op EXCEPT ![p].at = "record"]
  /\ UNCHANGED <<booking, intent, ref, older, charge, crashes>>

\* recordOutcome: an UPDATE by id; the unique index refuses a second succeeded
\* attempt of one booking.
recordOutcome(p) ==
  /\ op[p].at = "record"
  /\ LET b == op[p].b
         n == op[p].n
         answer == op[p].answer
         second == answer = "succeeded"
                     /\ \E m \in Attempts \ {n} : intent[b][m] = "succeeded" IN
     \/ /\ ~second
        /\ intent' = [intent EXCEPT ![b][n] = answer]
        /\ ref' = ref \cup {<<b, n>>}
        /\ Touch(<<b, n>>)
        /\ Conclude(p, answer)
     \/ second /\ Fail(p) /\ UNCHANGED <<intent, ref, older>>
  /\ UNCHANGED <<booking, ledger, charge, crashes>>

\* Mutant: whatever has not failed is taken for paid.
settle_optimistic(p) ==
  /\ op[p].at = "pay.settle"
  /\ LET b == op[p].b
         to == IF op[p].answer = "failed" THEN "PAYMENT_FAILED" ELSE "RESERVED" IN
     booking' = IF booking[b] = "AWAITING_PAYMENT" THEN [booking EXCEPT ![b] = to] ELSE booking
  /\ Return(p)
  /\ UNCHANGED <<intent, ref, older, ledger, charge, crashes>>

\* BookingsService.settle: a compare-and-set that may find nothing to move.
settle(p) ==
  /\ op[p].at = "pay.settle"
  /\ LET b == op[p].b
         to == IF op[p].answer = "succeeded" THEN "RESERVED" ELSE "PAYMENT_FAILED" IN
     booking' = IF op[p].answer \in TERMINAL_STATUSES /\ booking[b] = "AWAITING_PAYMENT"
                THEN [booking EXCEPT ![b] = to] ELSE booking
  /\ Return(p)
  /\ UNCHANGED <<intent, ref, older, ledger, charge, crashes>>

(***************************************************************************)
(* The reconciliation sweep.                                               *)
(***************************************************************************)
\* Mutant: the live statuses are listed, and one is forgotten.
Unsettled_listed == {a \in Ids : intent[a[1]][a[2]] \in {"initiated", "processing"}}

Unsettled == {a \in Ids : intent[a[1]][a[2]] \notin TERMINAL_STATUSES \cup {"absent"}}

\* The least recently updated of them.
findUnsettled ==
  {a \in Unsettled : Cardinality({c \in Unsettled : <<c, a>> \in older}) < BATCH_LIMIT}

\* An attempt with no reference is logged and passed over.
sweep(p) ==
  /\ op[p].at = "idle"
  /\ op' = [op EXCEPT ![p] = [Idle EXCEPT !.at = "sweep.next",
                                          !.queue = findUnsettled \cap ref]]
  /\ UNCHANGED <<rows, crashes>>

\* refresh reads the attempt again, and leaves a settled one alone.
refresh(p) ==
  /\ op[p].at = "sweep.next"
  /\ \/ op[p].queue = {} /\ Return(p)
     \/ \E a \in op[p].queue :
          LET status == intent[a[1]][a[2]] IN
          op' = [op EXCEPT ![p] = [Idle EXCEPT
                    !.at = IF status \in TERMINAL_STATUSES THEN "sweep.next" ELSE "sweep.read",
                    !.b = a[1], !.n = a[2], !.seen = status, !.queue = op[p].queue \ {a}]]
  /\ UNCHANGED <<rows, crashes>>

\* provider.read
ProviderRead(p) ==
  /\ op[p].at = "sweep.read"
  /\ op' = [op EXCEPT ![p].at = "apply", ![p].answer = charge[op[p].b][op[p].n]]
  /\ UNCHANGED <<rows, crashes>>

\* ... or an error from it: counted, and the sweep goes on.
ReadFails(p) ==
  /\ op[p].at = "sweep.read"
  /\ op' = [op EXCEPT ![p].at = "sweep.next"]
  /\ UNCHANGED <<rows, crashes>>

(***************************************************************************)
(* The provider, the payer's challenge and the process's crashes.          *)
(***************************************************************************)
ChargeMoves ==
  {<<"pending_payer_action", "processing">>, <<"pending_payer_action", "succeeded">>,
   <<"pending_payer_action", "failed">>, <<"processing", "succeeded">>,
   <<"processing", "failed">>}

ChargeProgress(b, n, status) ==
  /\ <<charge[b][n], status>> \in ChargeMoves
  /\ charge' = [charge EXCEPT ![b][n] = status]
  /\ UNCHANGED <<booking, intent, ref, older, ledger, op, crashes>>

Crash(p) ==
  /\ op[p].at # "idle" /\ crashes < MaxCrashes
  /\ crashes' = crashes + 1
  /\ Return(p)
  /\ UNCHANGED rows

Proceed(p) ==
  \/ movePayable(p) \/ attemptKeyFor(p) \/ OpenIntent(p)
  \/ \E status \in ProviderStatuses : ProviderBegin(p, status)
  \/ applyOutcome(p) \/ recordOutcome(p) \/ settle(p)
  \/ refresh(p) \/ ProviderRead(p) \/ ReadFails(p)

Next ==
  \/ \E p \in Payers, b \in Bookings : PayRead(p, b)
  \/ \E p \in Sweeps : sweep(p)
  \/ \E p \in Calls : Proceed(p) \/ Crash(p)
  \/ \E b \in Bookings, n \in Attempts, status \in ProviderStatuses :
       ChargeProgress(b, n, status)

Spec == Init /\ [][Next]_vars

\* A call that can proceed does; the schedule starts sweeps again and again;
\* a provider that is asked about one attempt again and again answers.
FairSpec ==
  /\ Spec
  /\ \A p \in Calls : WF_vars(Proceed(p))
  /\ \A p \in Sweeps : WF_vars(sweep(p))
  /\ \A p \in Sweeps, b \in Bookings, n \in Attempts :
       SF_vars(ProviderRead(p) /\ op[p].b = b /\ op[p].n = n)

(***************************************************************************)
(* Properties.                                                             *)
(***************************************************************************)

\* Rows, charges and calls stay well formed.
TypeOK ==
  /\ booking \in [Bookings -> BookingSteps]
  /\ intent \in [Bookings -> [Attempts -> Statuses \cup {"absent"}]]
  /\ ref \subseteq Ids
  /\ older \subseteq Ids \X Ids
  /\ ledger \subseteq Bookings
  /\ charge \in [Bookings -> [Attempts -> ProviderStatuses \cup {"none"}]]
  /\ op \in [Calls -> CallRecord]
  /\ crashes \in Nat

\* One hire is captured once: the key derived from the number of failed
\* attempts never opens a second charge beside one that may still succeed,
\* however many presses of pay, answers and sweeps interleave.
AtMostOneCapture ==
  \A b \in Bookings : \A m, n \in Attempts :
    charge[b][m] = "succeeded" /\ charge[b][n] = "succeeded" => m = n

\* A payment is never marked succeeded without its ledger entry, whatever ends
\* the call between the two writes.
SucceededIsPosted ==
  \A b \in Bookings, n \in Attempts : intent[b][n] = "succeeded" => b \in ledger

\* The books record only money that moved.
PostedIsCaptured ==
  \A b \in ledger : \E n \in Attempts : charge[b][n] = "succeeded"

\* The books and the provider agree on what was captured: a payment is never
\* marked succeeded without its ledger entry, whatever ends the call between the
\* two writes (applyOutcome), and the books record only money that moved.
BooksFollowTheCharges == SucceededIsPosted /\ PostedIsCaptured

\* A reserved booking has been paid for, at the provider and in the books.
ReservedIsPaid ==
  \A b \in Bookings : booking[b] = "RESERVED" =>
    b \in ledger /\ \E n \in Attempts : charge[b][n] = "succeeded"

\* ReconciliationService.sweep, "Re-read every stale attempt and apply what the
\* provider says": an attempt whose charge ended at the provider and whose
\* reference we have is eventually marked with its ending.
EveryStaleAttemptSettled ==
  \A b \in Bookings, n \in Attempts :
    (charge[b][n] \in TERMINAL_STATUSES /\ <<b, n>> \in ref)
      ~> (intent[b][n] = charge[b][n])

\* What a sweep can do nothing about: no reference, or a charge still open.
Stuck == {a \in Unsettled : a \notin ref \/ charge[a[1]][a[2]] \notin TERMINAL_STATUSES}

\* A whole batch of them was updated less recently than the attempt.
CrowdedOut(b, n) ==
  Cardinality({a \in Stuck : <<a, <<b, n>>>> \in older}) >= BATCH_LIMIT

\* Such an attempt is eventually marked with its ending, whatever answers were lost
\* and calls cut short, unless a whole batch the sweep can do nothing about stays
\* ahead of it for ever: attempts that can be settled never keep each other waiting.
SettledUnlessCrowdedOut ==
  \A b \in Bookings, n \in Attempts :
    (charge[b][n] \in TERMINAL_STATUSES /\ <<b, n>> \in ref)
      ~> (intent[b][n] = charge[b][n] \/ []CrowdedOut(b, n))

\* payment-intent.ts, TERMINAL_STATUSES: an attempt never leaves them.
TerminalIsFinal ==
  [][\A b \in Bookings, n \in Attempts :
       intent[b][n] \in TERMINAL_STATUSES => intent'[b][n] = intent[b][n]]_vars

\* payment-intent.ts, hireAttemptKey: the booking leaves the payable states
\* the moment an attempt succeeds; here, once every call has returned.
SucceededLeavesPayable ==
  (\A p \in Calls : op[p].at = "idle") =>
    \A b \in Bookings : (\E n \in Attempts : intent[b][n] = "succeeded")
                          => booking[b] \notin PAYABLE_STATES
====
