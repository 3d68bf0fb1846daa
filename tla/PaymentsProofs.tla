---- MODULE PaymentsProofs ----
(***************************************************************************)
(* What Payments guarantees for any number of bookings, presses of pay,    *)
(* sweeps and attempts.  The argument: what a call holds about the         *)
(* provider can only be out of date, never false about an ending, and an   *)
(* attempt is opened only when every earlier one has failed there.         *)
(***************************************************************************)
EXTENDS Payments, FiniteSetTheorems, TLAPS

\* A call's own knowledge, each part of it stable under the others' steps.
CallOK(p) ==
  /\ op[p].at \notin {"idle", "sweep.next"} => op[p].b \in Bookings
  /\ op[p].at \in {"pay.open", "pay.call", "sweep.read", "apply", "record"}
       => op[p].n \in Attempts
  /\ op[p].at = "pay.open"
       => \A k \in Attempts : k < op[p].n => charge[op[p].b][k] = "failed"
  /\ op[p].at = "pay.call" => intent[op[p].b][op[p].n] # "absent"
  /\ op[p].at \in {"sweep.read", "apply", "record"} => charge[op[p].b][op[p].n] # "none"
  /\ op[p].at \in {"apply", "record"} =>
       /\ op[p].answer \in ProviderStatuses
       /\ op[p].answer \in TERMINAL_STATUSES => charge[op[p].b][op[p].n] = op[p].answer
  /\ op[p].at = "pay.call" \/ (op[p].at = "apply" /\ p \in Payers)
       => op[p].seen = "initiated"
  /\ op[p].at \in {"record", "pay.settle"} /\ op[p].answer = "succeeded"
       => op[p].b \in ledger
  /\ op[p].at \in {"sweep.next", "sweep.read"} => p \in Sweeps
  /\ op[p].queue \subseteq ref

CallsOK == \A p \in Calls : CallOK(p)

\* A charge exists only under the key of an attempt that has its row.
ChargeHasRow ==
  \A b \in Bookings, n \in Attempts : charge[b][n] # "none" => intent[b][n] # "absent"

\* A recorded reference names a charge.
ReferenceHasCharge ==
  \A b \in Bookings, n \in Attempts : <<b, n>> \in ref => charge[b][n] # "none"

\* A settled row tells the truth about the charge.
SettledIsTrue ==
  \A b \in Bookings, n \in Attempts :
    intent[b][n] \in TERMINAL_STATUSES => charge[b][n] = intent[b][n]

\* An attempt is opened only after every earlier one has failed.
EarlierFailed ==
  \A b \in Bookings : \A k, n \in Attempts :
    k < n /\ intent[b][n] # "absent" => charge[b][k] = "failed"

RowsOK ==
  /\ ChargeHasRow /\ ReferenceHasCharge /\ SettledIsTrue /\ EarlierFailed
  /\ SucceededIsPosted /\ PostedIsCaptured /\ ReservedIsPaid

IInv == TypeOK /\ CallsOK /\ RowsOK

RowsType ==
  /\ booking \in [Bookings -> BookingSteps]
  /\ intent \in [Bookings -> [Attempts -> Statuses \cup {"absent"}]]
  /\ ref \subseteq Ids
  /\ older \subseteq Ids \X Ids
  /\ ledger \subseteq Bookings
  /\ charge \in [Bookings -> [Attempts -> ProviderStatuses \cup {"none"}]]
  /\ crashes \in Nat

\* What a step may do to the rows without falsifying what another call holds.
Grows ==
  /\ \A b \in Bookings, n \in Attempts :
       /\ charge[b][n] \in TERMINAL_STATUSES => charge'[b][n] = charge[b][n]
       /\ charge[b][n] # "none" => charge'[b][n] # "none"
       /\ intent[b][n] # "absent" => intent'[b][n] # "absent"
  /\ ledger \subseteq ledger' /\ ref \subseteq ref'

\* Updating one attempt of one booking, as recordOutcome and the provider do.
LEMMA Put ==
  ASSUME NEW S, NEW f \in [Bookings -> [Attempts -> S]],
         NEW b \in Bookings, NEW n \in Attempts, NEW v \in S
  PROVE  /\ [f EXCEPT ![b][n] = v] \in [Bookings -> [Attempts -> S]]
         /\ [f EXCEPT ![b][n] = v][b][n] = v
         /\ \A c \in Bookings, m \in Attempts :
              c # b \/ m # n => [f EXCEPT ![b][n] = v][c][m] = f[c][m]
OBVIOUS

\* The steps of others leave a call's knowledge standing.
LEMMA OthersKeep ==
  ASSUME TypeOK, NEW q \in Calls, CallOK(q), op'[q] = op[q], Grows
  PROVE  CallOK(q)'
<1>1. op[q] \in CallRecord
  BY DEF TypeOK
<1> QED
  BY <1>1 DEF CallOK, Grows, CallRecord, TERMINAL_STATUSES

\* A step of one call, once its own record and the rows are seen to be right.
LEMMA CallStep ==
  ASSUME IInv, NEW p \in Calls, NEW r \in CallRecord, op' = [op EXCEPT ![p] = r],
         CallOK(p)', Grows, RowsType', RowsOK'
  PROVE  IInv'
<1>1. op' \in [Calls -> CallRecord] /\ \A q \in Calls : q # p => op'[q] = op[q]
  BY DEF IInv, TypeOK
<1>2. TypeOK'
  BY <1>1 DEF TypeOK, RowsType
<1>3. CallsOK'
  <2> SUFFICES ASSUME NEW q \in Calls, q # p PROVE CallOK(q)'
    BY DEF CallsOK
  <2> QED BY <1>1, OthersKeep DEF IInv, CallsOK
<1> QED BY <1>2, <1>3 DEF IInv

\* A step that writes no row.
LEMMA SameRows ==
  ASSUME IInv, UNCHANGED rows, crashes' \in Nat
  PROVE  Grows /\ RowsType' /\ RowsOK'
<1>1. Grows
  BY DEF rows, Grows
<1>2. RowsType'
  BY DEF rows, IInv, TypeOK, RowsType
<1>3. RowsOK'
  BY DEF rows, IInv, RowsOK, ChargeHasRow, ReferenceHasCharge, SettledIsTrue,
         EarlierFailed, SucceededIsPosted, PostedIsCaptured, ReservedIsPaid
<1> QED BY <1>1, <1>2, <1>3

\* attemptKeyFor: when the failed attempts number n, the first n have failed.
LEMMA FailedPrefix ==
  ASSUME IInv, NEW b \in Bookings, NEW k \in Attempts, k < Cardinality(FailedAttempts(b))
  PROVE  charge[b][k] = "failed"
<1> DEFINE F == FailedAttempts(b)
<1> SUFFICES ASSUME charge[b][k] # "failed" PROVE FALSE
  OBVIOUS
<1>1. k \in Nat
  BY PaymentBounds DEF Attempts
<1>2. \A j \in F : j \in 0 .. (k - 1)
  <2> SUFFICES ASSUME NEW j \in F PROVE j \in 0 .. (k - 1)
    OBVIOUS
  <2>1. j \in Attempts /\ j \in Nat /\ intent[b][j] = "failed"
    BY PaymentBounds DEF FailedAttempts, Attempts
  <2>2. j # k
    BY <2>1 DEF IInv, RowsOK, SettledIsTrue, TERMINAL_STATUSES
  <2>3. ~ (k < j)
    BY Zenon, <2>1 DEF IInv, RowsOK, EarlierFailed
  <2> QED BY <1>1, <2>1, <2>2, <2>3
<1>3. IsFiniteSet(0 .. (k - 1)) /\ Cardinality(0 .. (k - 1)) = k
  BY <1>1, FS_Interval
<1>4. F \in SUBSET (0 .. (k - 1))
  BY <1>2
<1>5. Cardinality(F) <= k /\ Cardinality(F) \in Nat
  BY <1>3, <1>4, FS_Subset, FS_CardinalityType
<1> QED BY <1>1, <1>5

\* ... and they number n or fewer.
LEMMA FailedCount ==
  ASSUME NEW b \in Bookings
  PROVE  Cardinality(FailedAttempts(b)) \in Nat
<1>1. IsFiniteSet(Attempts)
  BY FS_Interval, PaymentBounds DEF Attempts
<1>2. FailedAttempts(b) \in SUBSET Attempts
  BY DEF FailedAttempts
<1> QED BY <1>1, <1>2, FS_Subset, FS_CardinalityType

\* A step that only moves one call on.
LEMMA QuietStep ==
  ASSUME IInv, NEW p \in Calls, NEW r \in CallRecord, op' = [op EXCEPT ![p] = r],
         UNCHANGED rows, crashes' \in Nat, CallOK(p)'
  PROVE  IInv'
BY Zenon, SameRows, CallStep

\* Ending a call, by returning or by a crash.
LEMMA IdleOK ==
  ASSUME IInv, NEW p \in Calls, Return(p)
  PROVE  op' = [op EXCEPT ![p] = Idle] /\ Idle \in CallRecord /\ CallOK(p)'
<1>1. Idle \in CallRecord
  BY DEF Idle, CallRecord, Steps
<1>2. op'[p] = Idle
  BY DEF Return, IInv, TypeOK
<1> QED BY <1>1, <1>2 DEF Return, CallOK, Idle

\* A call that ends without a write.
LEMMA QuietReturn ==
  ASSUME IInv, NEW p \in Calls, Return(p), UNCHANGED rows, crashes' \in Nat
  PROVE  IInv'
BY IdleOK, QuietStep

\* PayRead keeps the invariant.
LEMMA PayReadStep ==
  ASSUME IInv, NEW p \in Payers, NEW b \in Bookings, PayRead(p, b)
  PROVE  IInv'
<1> DEFINE r == [Idle EXCEPT !.at = "pay.move", !.b = b, !.seen = booking[b]]
<1>1. p \in Calls /\ op \in [Calls -> CallRecord]
  BY DEF Calls, IInv, TypeOK
<1>2. r \in CallRecord /\ r.at = "pay.move" /\ r.b = b /\ r.queue = {}
  BY Zenon DEF IInv, TypeOK, Idle, CallRecord, Steps
<1>3. op' = [op EXCEPT ![p] = r] /\ UNCHANGED rows /\ crashes' \in Nat
  BY DEF PayRead, IInv, TypeOK
<1> HIDE DEF r
<1>4. op'[p] = r
  BY <1>1, <1>3
<1>5. CallOK(p)'
  BY <1>2, <1>4 DEF CallOK
<1> QED BY Zenon, <1>1, <1>2, <1>3, <1>5, QuietStep

\* movePayable writes a booking that is not reserved by it.
LEMMA movePayableStep ==
  ASSUME IInv, NEW p \in Calls, movePayable(p)
  PROVE  IInv'
<1> DEFINE b == op[p].b
<1> DEFINE r == [op[p] EXCEPT !.at = "pay.key"]
<1>1. op \in [Calls -> CallRecord] /\ op[p] \in CallRecord /\ CallOK(p) /\ op[p].at = "pay.move"
  BY DEF IInv, TypeOK, CallsOK, movePayable
<1>2. b \in Bookings
  BY <1>1 DEF CallOK
<1>3. CASE Return(p) /\ UNCHANGED booking
  <2>1. UNCHANGED rows /\ crashes' \in Nat
    BY <1>3 DEF movePayable, rows, IInv, TypeOK
  <2> QED BY <1>3, <2>1, QuietReturn
<1>4. CASE op' = [op EXCEPT ![p].at = "pay.key"]
           /\ booking' \in {booking, [booking EXCEPT ![b] = "AWAITING_PAYMENT"]}
  <2>1. r \in CallRecord /\ r.at = "pay.key" /\ r.b = b /\ r.queue = op[p].queue
    BY <1>1 DEF CallRecord, Steps
  <2>2. op' = [op EXCEPT ![p] = r] /\ op'[p] = r
    BY <1>1, <1>4
  <2> HIDE DEF r
  <2>3. UNCHANGED <<intent, ref, older, ledger, charge, crashes>>
    BY DEF movePayable
  <2>4. CallOK(p)'
    BY <1>1, <1>2, <2>1, <2>2, <2>3 DEF CallOK
  <2>5. Grows
    BY <2>3 DEF Grows
  <2>6. \A c \in Bookings : booking'[c] = "RESERVED" => booking[c] = "RESERVED"
    BY <1>4 DEF IInv, TypeOK
  <2>7. booking' \in [Bookings -> BookingSteps]
    BY <1>4, <1>2 DEF IInv, TypeOK, BookingSteps, PAYABLE_STATES
  <2>8. RowsType'
    BY <2>3, <2>7 DEF RowsType, IInv, TypeOK
  <2>9. ReservedIsPaid'
    BY <2>3, <2>6 DEF IInv, RowsOK, ReservedIsPaid
  <2>10. RowsOK'
    BY <2>3, <2>9 DEF IInv, RowsOK, ChargeHasRow, ReferenceHasCharge, SettledIsTrue,
       EarlierFailed, SucceededIsPosted, PostedIsCaptured
  <2> QED BY Zenon, <2>1, <2>2, <2>4, <2>5, <2>8, <2>10, CallStep
<1> QED BY <1>3, <1>4 DEF movePayable

\* attemptKeyFor names an attempt whose predecessors have all failed.
LEMMA attemptKeyForStep ==
  ASSUME IInv, NEW p \in Calls, attemptKeyFor(p)
  PROVE  IInv'
<1> DEFINE b == op[p].b
<1> DEFINE n == Cardinality(FailedAttempts(b))
<1> DEFINE r == [op[p] EXCEPT !.at = "pay.open", !.n = n]
<1>1. op \in [Calls -> CallRecord] /\ op[p] \in CallRecord /\ CallOK(p) /\ op[p].at = "pay.key"
  BY DEF IInv, TypeOK, CallsOK, attemptKeyFor
<1>2. b \in Bookings
  BY <1>1 DEF CallOK
<1>3. UNCHANGED rows /\ crashes' \in Nat
  BY DEF attemptKeyFor, IInv, TypeOK
<1>4. CASE Return(p)
  BY <1>3, <1>4, QuietReturn
<1>5. CASE n < MaxAttempts /\ op' = [op EXCEPT ![p].at = "pay.open", ![p].n = n]
  <2>1. n \in Nat
    BY <1>2, FailedCount
  <2>2. n \in Attempts
    BY <2>1, <1>5, PaymentBounds DEF Attempts
  <2>3. \A k \in Attempts : k < n => charge[b][k] = "failed"
    BY <1>2, FailedPrefix
  <2> HIDE DEF n
  <2>4. r \in CallRecord /\ r.at = "pay.open" /\ r.b = b /\ r.n = n /\ r.queue = op[p].queue
    BY Zenon, <1>1, <2>1 DEF CallRecord, Steps
  <2>5. op' = [op EXCEPT ![p] = r] /\ op'[p] = r
    BY Zenon, <1>1, <1>5
  <2> HIDE DEF r
  <2>6. CallOK(p)'
    BY <1>1, <1>2, <1>3, <2>2, <2>3, <2>4, <2>5 DEF CallOK, rows
  <2> QED BY Zenon, <1>3, <2>4, <2>5, <2>6, QuietStep
<1> QED BY <1>4, <1>5 DEF attemptKeyFor

\* The order of the rows' updates stays a relation on attempts.
LEMMA TouchType ==
  ASSUME IInv, NEW a \in Ids, Touch(a)
  PROVE  older' \subseteq Ids \X Ids
BY DEF IInv, TypeOK, Touch

\* OpenIntent writes no ending, and opens an attempt only after failed ones.
LEMMA OpenIntentStep ==
  ASSUME IInv, NEW p \in Calls, OpenIntent(p)
  PROVE  IInv'
<1> DEFINE b == op[p].b
<1> DEFINE n == op[p].n
<1> DEFINE status == IF intent[b][n] = "absent" THEN "initiated" ELSE intent[b][n]
<1> DEFINE at == IF status = "initiated" THEN "pay.call" ELSE "pay.settle"
<1> DEFINE r == [op[p] EXCEPT !.at = at, !.seen = status, !.answer = status]
<1>1. op \in [Calls -> CallRecord] /\ op[p] \in CallRecord /\ CallOK(p) /\ op[p].at = "pay.open"
  BY DEF IInv, TypeOK, CallsOK, OpenIntent
<1>2. b \in Bookings /\ n \in Attempts /\ <<b, n>> \in Ids
  BY <1>1 DEF CallOK, Ids
<1>3. \A k \in Attempts : k < n => charge[b][k] = "failed"
  BY <1>1 DEF CallOK
<1>4. intent \in [Bookings -> [Attempts -> Statuses \cup {"absent"}]]
  BY DEF IInv, TypeOK
<1>5. status \in Statuses /\ status # "absent"
  BY SMTT(30), <1>2, <1>4 DEF Statuses, ProviderStatuses, TERMINAL_STATUSES
<1>6. /\ intent' = [intent EXCEPT ![b][n] = status]
      /\ op' = [op EXCEPT ![p].at = at, ![p].seen = status, ![p].answer = status]
      /\ UNCHANGED <<booking, ref, ledger, charge, crashes>>
      /\ Touch(<<b, n>>) \/ UNCHANGED older
  BY DEF OpenIntent
<1>7. status # "initiated" => status = intent[b][n]
  BY SMTT(30)
<1>8. r \in CallRecord /\ r.at = at /\ r.b = b /\ r.n = n /\ r.seen = status
      /\ r.answer = status /\ r.queue = op[p].queue
  BY Zenon, <1>1, <1>5 DEF CallRecord, Steps
<1>9. op' = [op EXCEPT ![p] = r] /\ op'[p] = r
  BY Zenon, <1>1, <1>6
<1>10. /\ status = "initiated" => at = "pay.call"
       /\ status # "initiated" => at = "pay.settle"
  OBVIOUS
<1> HIDE DEF status, r, at
<1>11. /\ intent' \in [Bookings -> [Attempts -> Statuses \cup {"absent"}]]
       /\ intent'[b][n] = status
       /\ \A c \in Bookings, m \in Attempts : c # b \/ m # n => intent'[c][m] = intent[c][m]
  BY <1>2, <1>4, <1>5, <1>6, Put
<1>12. RowsType'
  <2>1. older' \subseteq Ids \X Ids
    BY <1>2, <1>6, TouchType DEF IInv, TypeOK
  <2> QED BY <1>6, <1>11, <2>1 DEF RowsType, IInv, TypeOK
<1>13. Grows
  BY <1>2, <1>5, <1>6, <1>11 DEF Grows
<1>14. status = "succeeded" => b \in ledger
  BY <1>2, <1>7 DEF IInv, RowsOK, SucceededIsPosted
<1>15. CallOK(p)'
  BY <1>1, <1>2, <1>5, <1>6, <1>8, <1>9, <1>10, <1>11, <1>14 DEF CallOK
<1>16. RowsOK'
  <2>1. ChargeHasRow' /\ ReferenceHasCharge'
    BY <1>5, <1>6, <1>11 DEF IInv, RowsOK, ChargeHasRow, ReferenceHasCharge
  <2>2. SettledIsTrue'
    BY <1>2, <1>6, <1>7, <1>11 DEF IInv, RowsOK, SettledIsTrue, TERMINAL_STATUSES
  <2>3. EarlierFailed'
    BY <1>2, <1>3, <1>6, <1>11 DEF IInv, RowsOK, EarlierFailed
  <2>4. SucceededIsPosted'
    BY <1>6, <1>11, <1>14 DEF IInv, RowsOK, SucceededIsPosted
  <2>5. PostedIsCaptured' /\ ReservedIsPaid'
    BY <1>6 DEF IInv, RowsOK, PostedIsCaptured, ReservedIsPaid
  <2> QED BY <2>1, <2>2, <2>3, <2>4, <2>5 DEF RowsOK
<1> QED BY Zenon, <1>8, <1>9, <1>12, <1>13, <1>15, <1>16, CallStep

\* A charge that begins or moves on, but leaves no ending, disturbs no row.
LEMMA ChargeWrite ==
  ASSUME IInv, NEW b \in Bookings, NEW n \in Attempts, NEW v \in ProviderStatuses,
         charge' = [charge EXCEPT ![b][n] = v],
         charge[b][n] \in TERMINAL_STATUSES => v = charge[b][n],
         intent[b][n] # "absent",
         UNCHANGED <<booking, intent, ref, older, ledger, crashes>>
  PROVE  Grows /\ RowsType' /\ RowsOK' /\ charge'[b][n] = v
<1>1. /\ charge' \in [Bookings -> [Attempts -> ProviderStatuses \cup {"none"}]]
      /\ charge'[b][n] = v
      /\ \A c \in Bookings, m \in Attempts : c # b \/ m # n => charge'[c][m] = charge[c][m]
  BY Put DEF IInv, TypeOK
<1>2. v # "none"
  BY DEF ProviderStatuses, TERMINAL_STATUSES
<1>3. \A c \in Bookings, m \in Attempts :
        charge[c][m] \in TERMINAL_STATUSES => charge'[c][m] = charge[c][m]
  BY <1>1
<1>4. \A c \in Bookings, m \in Attempts :
        /\ charge[c][m] = "succeeded" => charge'[c][m] = "succeeded"
        /\ charge[c][m] = "failed" => charge'[c][m] = "failed"
  BY <1>3 DEF TERMINAL_STATUSES
<1>5. Grows
  BY <1>1, <1>2, <1>3 DEF Grows
<1>6. RowsType'
  BY <1>1 DEF RowsType, IInv, TypeOK
<1>7. ChargeHasRow' /\ ReferenceHasCharge'
  BY <1>1, <1>2 DEF IInv, RowsOK, ChargeHasRow, ReferenceHasCharge
<1>8. SettledIsTrue'
  BY <1>4 DEF IInv, RowsOK, SettledIsTrue, TERMINAL_STATUSES
<1>9. EarlierFailed'
  BY <1>4 DEF IInv, RowsOK, EarlierFailed
<1>10. SucceededIsPosted'
  BY DEF IInv, RowsOK, SucceededIsPosted
<1>11. PostedIsCaptured' /\ ReservedIsPaid'
  BY <1>4 DEF IInv, TypeOK, RowsOK, PostedIsCaptured, ReservedIsPaid
<1> QED BY <1>1, <1>5, <1>6, <1>7, <1>8, <1>9, <1>10, <1>11 DEF RowsOK

\* provider.begin: the answer that reaches us is the charge's status.
LEMMA ProviderBeginStep ==
  ASSUME IInv, NEW p \in Calls, NEW status \in ProviderStatuses, ProviderBegin(p, status)
  PROVE  IInv'
<1> DEFINE b == op[p].b
<1> DEFINE n == op[p].n
<1> DEFINE r == [op[p] EXCEPT !.at = "apply", !.answer = status]
<1>1. op \in [Calls -> CallRecord] /\ op[p] \in CallRecord /\ CallOK(p) /\ op[p].at = "pay.call"
  BY DEF IInv, TypeOK, CallsOK, ProviderBegin
<1>2. b \in Bookings /\ n \in Attempts /\ intent[b][n] # "absent" /\ op[p].seen = "initiated"
  BY <1>1 DEF CallOK
<1>3. /\ charge[b][n] \in {"none", status}
      /\ charge' = [charge EXCEPT ![b][n] = status]
      /\ UNCHANGED <<booking, intent, ref, older, ledger, crashes>>
  BY DEF ProviderBegin
<1>4. charge[b][n] \in TERMINAL_STATUSES => status = charge[b][n]
  BY <1>3 DEF TERMINAL_STATUSES
<1>5. Grows /\ RowsType' /\ RowsOK' /\ charge'[b][n] = status
  BY Zenon, <1>2, <1>3, <1>4, ChargeWrite
<1>6. CASE Return(p)
  BY <1>5, <1>6, IdleOK, CallStep
<1>7. CASE op' = [op EXCEPT ![p].at = "apply", ![p].answer = status]
  <2>1. r \in CallRecord /\ r.at = "apply" /\ r.b = b /\ r.n = n /\ r.answer = status
        /\ r.seen = op[p].seen /\ r.queue = op[p].queue
    BY Zenon, <1>1 DEF CallRecord, Steps, Statuses
  <2>2. op' = [op EXCEPT ![p] = r] /\ op'[p] = r
    BY Zenon, <1>1, <1>7
  <2> HIDE DEF r
  <2>3. status # "none"
    BY DEF ProviderStatuses, TERMINAL_STATUSES
  <2>4. CallOK(p)'
    BY <1>1, <1>2, <1>3, <1>5, <2>1, <2>2, <2>3 DEF CallOK
  <2> QED BY Zenon, <1>5, <2>1, <2>2, <2>4, CallStep
<1> QED BY <1>6, <1>7 DEF ProviderBegin

\* What Conclude leaves in a call: a payer that settles on success has a posting.
LEMMA ConcludeOK ==
  ASSUME IInv, NEW p \in Calls, NEW v \in Statuses, Conclude(p, v),
         op[p].b \in Bookings, ref \subseteq ref',
         p \in Payers /\ v = "succeeded" => op[p].b \in ledger'
  PROVE  \E r \in CallRecord : op' = [op EXCEPT ![p] = r] /\ CallOK(p)'
<1> DEFINE at == IF p \in Payers THEN "pay.settle" ELSE "sweep.next"
<1> DEFINE r == [op[p] EXCEPT !.at = at, !.answer = v]
<1>1. op \in [Calls -> CallRecord] /\ op[p] \in CallRecord /\ CallOK(p)
  BY DEF IInv, TypeOK, CallsOK
<1>2. r \in CallRecord /\ r.at = at /\ r.b = op[p].b /\ r.answer = v /\ r.queue = op[p].queue
  BY Zenon, <1>1 DEF CallRecord, Steps
<1>3. op' = [op EXCEPT ![p] = r] /\ op'[p] = r
  BY Zenon, <1>1 DEF Conclude
<1> HIDE DEF r
<1>4. CallOK(p)'
  BY <1>1, <1>2, <1>3 DEF CallOK, Calls
<1> QED BY Zenon, <1>2, <1>3, <1>4

\* applyOutcome posts only what the provider captured, before it is recorded.
LEMMA applyOutcomeStep ==
  ASSUME IInv, NEW p \in Calls, applyOutcome(p)
  PROVE  IInv'
<1> DEFINE b == op[p].b
<1> DEFINE n == op[p].n
<1> DEFINE answer == op[p].answer
<1> DEFINE r == [op[p] EXCEPT !.at = "record"]
<1>1. op \in [Calls -> CallRecord] /\ op[p] \in CallRecord /\ CallOK(p) /\ op[p].at = "apply"
  BY DEF IInv, TypeOK, CallsOK, applyOutcome
<1>2. /\ b \in Bookings /\ n \in Attempts /\ charge[b][n] # "none"
      /\ answer \in ProviderStatuses
      /\ answer \in TERMINAL_STATUSES => charge[b][n] = answer
      /\ p \in Payers => op[p].seen = "initiated"
      /\ op[p].queue \subseteq ref
  BY <1>1 DEF CallOK
<1>3. UNCHANGED <<booking, intent, ref, older, charge, crashes>>
  BY DEF applyOutcome
<1>4. CASE answer = op[p].seen /\ UNCHANGED ledger /\ Conclude(p, answer)
  <2>1. p \notin Payers
    BY <1>2, <1>4 DEF ProviderStatuses, TERMINAL_STATUSES
  <2>2. UNCHANGED rows /\ crashes' \in Nat /\ answer \in Statuses /\ ref \subseteq ref'
    BY <1>2, <1>3, <1>4 DEF rows, IInv, TypeOK, Statuses
  <2>3. \E s \in CallRecord : op' = [op EXCEPT ![p] = s] /\ CallOK(p)'
    BY <1>2, <1>4, <2>1, <2>2, ConcludeOK
  <2> QED BY Zenon, <2>2, <2>3, QuietStep
<1>5. CASE /\ ledger' = IF answer = "succeeded" THEN ledger \cup {b} ELSE ledger
           /\ op' = [op EXCEPT ![p].at = "record"]
  <2>1. r \in CallRecord /\ r.at = "record" /\ r.b = b /\ r.n = n /\ r.answer = answer
        /\ r.queue = op[p].queue
    BY <1>1 DEF CallRecord, Steps
  <2>2. op' = [op EXCEPT ![p] = r] /\ op'[p] = r
    BY <1>1, <1>5
  <2> HIDE DEF r
  <2>3. ledger \subseteq ledger' /\ ledger' \subseteq ledger \cup {b}
        /\ (answer = "succeeded" => b \in ledger') /\ (answer # "succeeded" => ledger' = ledger)
    BY <1>5
  <2>4. CallOK(p)'
    BY <1>2, <1>3, <2>1, <2>2, <2>3 DEF CallOK
  <2>5. Grows
    BY <1>3, <2>3 DEF Grows
  <2>6. RowsType'
    BY <1>2, <1>3, <2>3 DEF RowsType, IInv, TypeOK
  <2>7. PostedIsCaptured'
    BY <1>2, <1>3, <2>3 DEF IInv, RowsOK, PostedIsCaptured, TERMINAL_STATUSES
  <2>8. SucceededIsPosted' /\ ReservedIsPaid'
    BY <1>3, <2>3 DEF IInv, RowsOK, SucceededIsPosted, ReservedIsPaid
  <2>9. RowsOK'
    BY <1>3, <2>7, <2>8 DEF IInv, RowsOK, ChargeHasRow, ReferenceHasCharge, SettledIsTrue,
       EarlierFailed
  <2> QED BY Zenon, <2>1, <2>2, <2>4, <2>5, <2>6, <2>9, CallStep
<1> QED BY <1>4, <1>5 DEF applyOutcome, postCapture

\* recordOutcome writes an ending only where the charge has it and, when it is
\* a success, where the posting is made.
LEMMA recordOutcomeStep ==
  ASSUME IInv, NEW p \in Calls, recordOutcome(p)
  PROVE  IInv'
<1> DEFINE b == op[p].b
<1> DEFINE n == op[p].n
<1> DEFINE answer == op[p].answer
<1> DEFINE r == [op[p] EXCEPT !.at = "sweep.next"]
<1>1. op \in [Calls -> CallRecord] /\ op[p] \in CallRecord /\ CallOK(p) /\ op[p].at = "record"
  BY DEF IInv, TypeOK, CallsOK, recordOutcome
<1>2. /\ b \in Bookings /\ n \in Attempts /\ charge[b][n] # "none"
      /\ answer \in ProviderStatuses
      /\ answer \in TERMINAL_STATUSES => charge[b][n] = answer
      /\ answer = "succeeded" => b \in ledger
      /\ op[p].queue \subseteq ref
  BY <1>1 DEF CallOK
<1>3. UNCHANGED <<booking, ledger, charge, crashes>>
  BY DEF recordOutcome
<1>4. answer \in Statuses /\ answer # "absent" /\ <<b, n>> \in Ids
  BY <1>2 DEF Statuses, ProviderStatuses, TERMINAL_STATUSES, Ids
<1>5. CASE Fail(p) /\ UNCHANGED <<intent, ref, older>>
  <2>1. UNCHANGED rows /\ crashes' \in Nat
    BY <1>3, <1>5 DEF rows, IInv, TypeOK
  <2>2. CASE p \in Payers
    BY <1>5, <2>1, <2>2, QuietReturn DEF Fail
  <2>3. CASE p \notin Payers
    <3>1. r \in CallRecord /\ r.at = "sweep.next" /\ r.queue = op[p].queue
      BY <1>1 DEF CallRecord, Steps
    <3>2. op' = [op EXCEPT ![p] = r] /\ op'[p] = r
      BY <1>1, <1>5, <2>3 DEF Fail
    <3> HIDE DEF r
    <3>3. CallOK(p)'
      BY <1>2, <1>5, <2>3, <3>1, <3>2 DEF CallOK, Calls
    <3> QED BY Zenon, <2>1, <3>1, <3>2, <3>3, QuietStep
  <2> QED BY <2>2, <2>3
<1>6. CASE /\ intent' = [intent EXCEPT ![b][n] = answer]
           /\ ref' = ref \cup {<<b, n>>}
           /\ Touch(<<b, n>>)
           /\ Conclude(p, answer)
  <2>1. intent[b][n] # "absent"
    BY <1>2 DEF IInv, RowsOK, ChargeHasRow
  <2>2. /\ intent' \in [Bookings -> [Attempts -> Statuses \cup {"absent"}]]
        /\ intent'[b][n] = answer
        /\ \A c \in Bookings, m \in Attempts : c # b \/ m # n => intent'[c][m] = intent[c][m]
    BY <1>2, <1>4, <1>6, Put DEF IInv, TypeOK
  <2>3. Grows
    BY <1>3, <1>4, <1>6, <2>2 DEF Grows
  <2>4. RowsType'
    <3>1. older' \subseteq Ids \X Ids
      BY <1>4, <1>6, TouchType
    <3> QED BY <1>3, <1>4, <1>6, <2>2, <3>1, SMTT(30) DEF RowsType, IInv, TypeOK
  <2>5. ChargeHasRow' /\ ReferenceHasCharge'
    BY <1>2, <1>3, <1>4, <1>6, <2>2 DEF IInv, RowsOK, ChargeHasRow, ReferenceHasCharge
  <2>6. SettledIsTrue' /\ SucceededIsPosted'
    BY <1>2, <1>3, <2>2 DEF IInv, RowsOK, SettledIsTrue, SucceededIsPosted
  <2>7. EarlierFailed'
    BY <1>2, <1>3, <2>1, <2>2 DEF IInv, RowsOK, EarlierFailed
  <2>8. RowsOK'
    BY <1>3, <2>5, <2>6, <2>7 DEF IInv, RowsOK, PostedIsCaptured, ReservedIsPaid
  <2>9. \E s \in CallRecord : op' = [op EXCEPT ![p] = s] /\ CallOK(p)'
    <3>1. ref \subseteq ref' /\ (p \in Payers /\ answer = "succeeded" => b \in ledger')
      BY <1>2, <1>3, <1>6
    <3> QED BY <1>2, <1>4, <1>6, <3>1, ConcludeOK
  <2> QED BY Zenon, <2>3, <2>4, <2>8, <2>9, CallStep
<1> QED BY <1>5, <1>6 DEF recordOutcome

\* settle reserves a booking only on a success that has been posted.
LEMMA settleStep ==
  ASSUME IInv, NEW p \in Calls, settle(p)
  PROVE  IInv'
<1> DEFINE b == op[p].b
<1>1. op \in [Calls -> CallRecord] /\ op[p] \in CallRecord /\ CallOK(p) /\ op[p].at = "pay.settle"
  BY DEF IInv, TypeOK, CallsOK, settle
<1>2. b \in Bookings /\ (op[p].answer = "succeeded" => b \in ledger)
  BY <1>1 DEF CallOK
<1>3. UNCHANGED <<intent, ref, older, ledger, charge, crashes>> /\ Return(p)
  BY DEF settle
<1>4. /\ booking' \in [Bookings -> BookingSteps]
      /\ \A c \in Bookings : booking'[c] = "RESERVED" =>
           booking[c] = "RESERVED" \/ (c = b /\ op[p].answer = "succeeded")
  BY <1>2 DEF settle, IInv, TypeOK, BookingSteps, PAYABLE_STATES
<1>5. Grows
  BY <1>3 DEF Grows
<1>6. RowsType'
  BY <1>3, <1>4 DEF RowsType, IInv, TypeOK
<1>7. ReservedIsPaid'
  BY <1>2, <1>3, <1>4 DEF IInv, RowsOK, ReservedIsPaid, PostedIsCaptured
<1>8. RowsOK'
  BY <1>3, <1>7 DEF IInv, RowsOK, ChargeHasRow, ReferenceHasCharge, SettledIsTrue,
     EarlierFailed, SucceededIsPosted, PostedIsCaptured
<1> QED BY <1>3, <1>5, <1>6, <1>8, IdleOK, CallStep

\* sweep takes into its batch only attempts with a reference.
LEMMA sweepStep ==
  ASSUME IInv, NEW p \in Sweeps, sweep(p)
  PROVE  IInv'
<1> DEFINE q == findUnsettled \cap ref
<1> DEFINE r == [Idle EXCEPT !.at = "sweep.next", !.queue = q]
<1>1. p \in Calls /\ op \in [Calls -> CallRecord]
  BY DEF Calls, IInv, TypeOK
<1>2. op' = [op EXCEPT ![p] = r] /\ UNCHANGED rows /\ crashes' \in Nat
  BY DEF sweep, IInv, TypeOK
<1>3. q \in SUBSET Ids /\ q \subseteq ref
  BY DEF IInv, TypeOK
<1> HIDE DEF q
<1>4. r \in CallRecord /\ r.at = "sweep.next" /\ r.queue = q
  BY Zenon, <1>3 DEF Idle, CallRecord, Steps
<1> HIDE DEF r
<1>5. op'[p] = r
  BY <1>1, <1>2
<1>6. CallOK(p)'
  BY <1>2, <1>3, <1>4, <1>5 DEF CallOK, rows
<1> QED BY Zenon, <1>1, <1>2, <1>4, <1>6, QuietStep

\* refresh takes an attempt that has a charge.
LEMMA refreshStep ==
  ASSUME IInv, NEW p \in Calls, refresh(p)
  PROVE  IInv'
<1>1. op \in [Calls -> CallRecord] /\ op[p] \in CallRecord /\ CallOK(p) /\ op[p].at = "sweep.next"
  BY Zenon DEF IInv, TypeOK, CallsOK, refresh
<1>2. UNCHANGED rows /\ crashes' \in Nat
  BY Zenon DEF refresh, IInv, TypeOK
<1>3. CASE Return(p)
  BY <1>2, <1>3, QuietReturn
<1>4. CASE ~ Return(p)
  <2> DEFINE Taken(a) == [Idle EXCEPT
               !.at = IF intent[a[1]][a[2]] \in TERMINAL_STATUSES THEN "sweep.next" ELSE "sweep.read",
               !.b = a[1], !.n = a[2], !.seen = intent[a[1]][a[2]], !.queue = op[p].queue \ {a}]
  <2>1. PICK a \in op[p].queue : op' = [op EXCEPT ![p] = Taken(a)]
    BY Zenon, <1>4 DEF refresh
  <2>2. a \in ref /\ a \in Ids /\ op[p].queue \subseteq ref /\ op[p].queue \subseteq Ids
    BY <1>1 DEF CallOK, CallRecord, IInv, TypeOK
  <2>3. PICK b \in Bookings, n \in Attempts : a = <<b, n>>
    BY <2>2 DEF Ids
  <2>4. charge[b][n] # "none"
    BY <2>2, <2>3 DEF IInv, RowsOK, ReferenceHasCharge
  <2>5. intent[b][n] \in Statuses
    BY <2>4 DEF IInv, TypeOK, RowsOK, ChargeHasRow
  <2> DEFINE r == Taken(a)
  <2>6. n \in Nat
    BY PaymentBounds DEF Attempts
  <2>7. r \in CallRecord /\ r.at \in {"sweep.next", "sweep.read"} /\ r.b = b /\ r.n = n
        /\ r.queue = op[p].queue \ {a}
    BY Zenon, <2>2, <2>3, <2>5, <2>6 DEF Idle, CallRecord, Steps
  <2>8. op' = [op EXCEPT ![p] = r]
    BY <2>1
  <2> HIDE DEF r
  <2>9. op'[p] = r
    BY <1>1, <2>8
  <2>10. CallOK(p)'
    BY <1>1, <1>2, <2>2, <2>4, <2>7, <2>9 DEF CallOK, rows
  <2> QED BY Zenon, <1>2, <2>7, <2>8, <2>10, QuietStep
<1> QED BY <1>3, <1>4, Zenon

\* provider.read: the answer in hand is the charge's status.
LEMMA ProviderReadStep ==
  ASSUME IInv, NEW p \in Calls, ProviderRead(p)
  PROVE  IInv'
<1> DEFINE v == charge[op[p].b][op[p].n]
<1> DEFINE r == [op[p] EXCEPT !.at = "apply", !.answer = v]
<1>1. op \in [Calls -> CallRecord] /\ op[p] \in CallRecord /\ CallOK(p) /\ op[p].at = "sweep.read"
  BY DEF IInv, TypeOK, CallsOK, ProviderRead
<1>2. op[p].b \in Bookings /\ op[p].n \in Attempts /\ v # "none" /\ op[p].queue \subseteq ref
      /\ p \notin Payers
  BY <1>1, PaymentCalls DEF CallOK
<1>3. v \in ProviderStatuses
  BY <1>2 DEF IInv, TypeOK
<1>4. op' = [op EXCEPT ![p].at = "apply", ![p].answer = v] /\ UNCHANGED rows /\ crashes' \in Nat
  BY DEF ProviderRead, IInv, TypeOK
<1>5. r \in CallRecord /\ r.at = "apply" /\ r.b = op[p].b /\ r.n = op[p].n /\ r.answer = v
      /\ r.queue = op[p].queue
  BY Zenon, <1>1, <1>3 DEF CallRecord, Steps, Statuses
<1>6. op' = [op EXCEPT ![p] = r] /\ op'[p] = r
  BY Zenon, <1>1, <1>4
<1> HIDE DEF r
<1>7. CallOK(p)'
  BY Zenon, <1>2, <1>3, <1>4, <1>5, <1>6 DEF CallOK, rows
<1> QED BY Zenon, <1>4, <1>5, <1>6, <1>7, QuietStep

\* An error from provider.read changes nothing.
LEMMA ReadFailsStep ==
  ASSUME IInv, NEW p \in Calls, ReadFails(p)
  PROVE  IInv'
<1> DEFINE r == [op[p] EXCEPT !.at = "sweep.next"]
<1>1. op \in [Calls -> CallRecord] /\ op[p] \in CallRecord /\ CallOK(p) /\ op[p].at = "sweep.read"
  BY DEF IInv, TypeOK, CallsOK, ReadFails
<1>2. op[p].queue \subseteq ref /\ p \in Sweeps
  BY <1>1 DEF CallOK
<1>3. r \in CallRecord /\ r.at = "sweep.next" /\ r.queue = op[p].queue
  BY <1>1 DEF CallRecord, Steps
<1>4. op' = [op EXCEPT ![p] = r] /\ op'[p] = r /\ UNCHANGED rows /\ crashes' \in Nat
  BY <1>1 DEF ReadFails, IInv, TypeOK
<1> HIDE DEF r
<1>5. CallOK(p)'
  BY <1>2, <1>3, <1>4 DEF CallOK, rows
<1> QED BY Zenon, <1>3, <1>4, <1>5, QuietStep

\* The charge moves on at the provider, unseen by any call.
LEMMA ChargeProgressStep ==
  ASSUME IInv, NEW b \in Bookings, NEW n \in Attempts, NEW status \in ProviderStatuses,
         ChargeProgress(b, n, status)
  PROVE  IInv'
<1>1. charge[b][n] \notin TERMINAL_STATUSES /\ charge[b][n] # "none"
  BY DEF ChargeProgress, ChargeMoves, TERMINAL_STATUSES
<1>2. intent[b][n] # "absent"
  BY <1>1 DEF IInv, RowsOK, ChargeHasRow
<1>3. Grows /\ RowsType' /\ RowsOK'
  BY Zenon, <1>1, <1>2, ChargeWrite DEF ChargeProgress
<1>4. UNCHANGED op
  BY DEF ChargeProgress
<1>5. TypeOK'
  BY <1>3, <1>4 DEF IInv, TypeOK, RowsType
<1>6. CallsOK'
  BY <1>3, <1>4, OthersKeep DEF IInv, CallsOK
<1> QED BY <1>3, <1>5, <1>6 DEF IInv

\* A call cut short changes no row.
LEMMA CrashStep ==
  ASSUME IInv, NEW p \in Calls, Crash(p)
  PROVE  IInv'
<1>1. Return(p) /\ UNCHANGED rows /\ crashes' \in Nat
  BY DEF Crash, IInv, TypeOK
<1> QED BY <1>1, QuietReturn

\* The invariant holds before the first payment.
LEMMA Initially == Init => IInv
<1> SUFFICES ASSUME Init PROVE IInv
  OBVIOUS
<1>1. Idle \in CallRecord
  BY DEF Idle, CallRecord, Steps
<1>2. TypeOK
  BY <1>1 DEF Init, TypeOK, BookingSteps, PAYABLE_STATES
<1>3. CallsOK
  BY DEF Init, CallsOK, CallOK, Idle
<1>4. RowsOK
  BY DEF Init, RowsOK, ChargeHasRow, ReferenceHasCharge, SettledIsTrue, EarlierFailed,
     SucceededIsPosted, PostedIsCaptured, ReservedIsPaid, TERMINAL_STATUSES
<1> QED BY <1>2, <1>3, <1>4 DEF IInv

\* Every step of the API, the sweeps and the provider keeps it.
LEMMA Inductive == IInv /\ [Next]_vars => IInv'
<1> SUFFICES ASSUME IInv, [Next]_vars PROVE IInv'
  OBVIOUS
<1>1. ASSUME NEW p \in Payers, NEW b \in Bookings, PayRead(p, b) PROVE IInv'
  BY <1>1, PayReadStep
<1>2. ASSUME NEW p \in Sweeps, sweep(p) PROVE IInv'
  BY <1>2, sweepStep
<1>3. ASSUME NEW p \in Calls, Proceed(p) PROVE IInv'
  BY <1>3, movePayableStep, attemptKeyForStep, OpenIntentStep, ProviderBeginStep,
     applyOutcomeStep, recordOutcomeStep, settleStep, refreshStep, ProviderReadStep,
     ReadFailsStep DEF Proceed
<1>4. ASSUME NEW p \in Calls, Crash(p) PROVE IInv'
  BY <1>4, CrashStep
<1>5. ASSUME NEW b \in Bookings, NEW n \in Attempts, NEW status \in ProviderStatuses,
             ChargeProgress(b, n, status)
      PROVE IInv'
  BY <1>5, ChargeProgressStep
<1>6. CASE UNCHANGED vars
  <2>1. UNCHANGED rows /\ UNCHANGED op /\ crashes' \in Nat
    BY <1>6 DEF vars, rows, IInv, TypeOK
  <2>2. Grows /\ RowsType' /\ RowsOK'
    BY <2>1, SameRows
  <2>3. TypeOK'
    BY <2>1, <2>2 DEF IInv, TypeOK, RowsType
  <2>4. CallsOK'
    BY <2>1, <2>2, OthersKeep DEF IInv, CallsOK
  <2> QED BY <2>2, <2>3, <2>4 DEF IInv
<1> QED BY <1>1, <1>2, <1>3, <1>4, <1>5, <1>6 DEF Next

\* The inductive invariant holds throughout.
THEOREM Invariance == Spec => []IInv
BY Initially, Inductive, PTL DEF Spec

\* Rows, charges and calls stay well formed.
THEOREM TypeCorrect == Spec => []TypeOK
<1>1. IInv => TypeOK
  BY DEF IInv
<1> QED BY <1>1, Invariance, PTL

\* One hire is captured once, however many presses of pay, lost answers, sweeps
\* and crashes interleave: two captures would be of two attempts, the later
\* opened only when the earlier had failed for good.
THEOREM AtMostOneCaptureHolds == Spec => []AtMostOneCapture
<1>1. IInv => AtMostOneCapture
  <2> SUFFICES ASSUME IInv, NEW b \in Bookings, NEW m \in Attempts, NEW n \in Attempts,
                      charge[b][m] = "succeeded", charge[b][n] = "succeeded", m # n
               PROVE FALSE
    BY DEF AtMostOneCapture
  <2>1. m \in Nat /\ n \in Nat
    BY PaymentBounds DEF Attempts
  <2>2. intent[b][m] # "absent" /\ intent[b][n] # "absent"
    BY DEF IInv, RowsOK, ChargeHasRow
  <2>3. m < n \/ n < m
    BY <2>1
  <2> QED BY <2>2, <2>3 DEF IInv, RowsOK, EarlierFailed
<1> QED BY <1>1, Invariance, PTL

\* A payment is never marked succeeded without its ledger entry, and the books
\* record only money that the provider captured.
THEOREM BooksFollowTheChargesHolds == Spec => []BooksFollowTheCharges
<1>1. IInv => BooksFollowTheCharges
  BY DEF IInv, RowsOK, BooksFollowTheCharges
<1> QED BY <1>1, Invariance, PTL

\* A reserved booking has been paid for, at the provider and in the books.
THEOREM ReservedIsPaidHolds == Spec => []ReservedIsPaid
<1>1. IInv => ReservedIsPaid
  BY DEF IInv, RowsOK
<1> QED BY <1>1, Invariance, PTL
====
