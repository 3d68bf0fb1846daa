--------------------------- MODULE PlatformProofs ---------------------------
(***************************************************************************)
(* What the processes and the gates guarantee for any number of requests,  *)
(* limits, windows and times to live, and however often the broker goes    *)
(* away or the process is started again; and what the page an owner        *)
(* manages a listing from shows, for any limits of its steps.              *)
(***************************************************************************)
EXTENDS Gates, OwnerPage, TLAPS

Closables == {"http server", "database", "redis", "health signal", "metrics endpoint", "schedule", "maintenance worker"}

Stop == [pc : {"running", "closing", "exited"}, at : {0, 1, 2, 3, 4}, waited : Nat, elapsed : Nat,
         gaveUp : SUBSET Closables, code : {0, 1}, cut : SUBSET JobNames]

\* A close is waited for within its bound, the whole sequence within its own; the API's closes together
\* cannot reach the whole, and the worker's can only by a second one.
InTime ==
  /\ stop.waited <= stop.elapsed /\ stop.waited <= budget.each /\ stop.elapsed <= budget.whole
  /\ service = "api" => \/ stop.at = 1 /\ stop.elapsed <= stop.waited
                        \/ stop.at = 2 /\ stop.elapsed <= stop.waited + 3
                        \/ stop.at = 3 /\ stop.elapsed <= stop.waited + 6
  /\ service = "worker" => stop.at \in {1, 2, 3, 4}

\* Only a connected worker that has not exited has an active job.
Idles == service = "api" \/ conn = "initializing" \/ stop.pc = "exited" => Active = {}

Probe == [pc : {"idle", "info", "registered", "write"}, lag : 0..STALE, late : 0..STALE]

\* Nothing is missing while the broker holds both schedules, and an answer on its way is as old as what
\* has been missing since.
HealthInv ==
  /\ age \in 0..STALE /\ missing \in 0..STALE /\ probe \in Probe
  /\ Scheduled => missing = 0
  /\ probe.pc = "write" => missing <= probe.lag
  /\ HealthyMeansScheduled

ProcessInv ==
  /\ service \in {"api", "worker"} /\ broker \in {"up", "down"} /\ conn \in {"initializing", "ready"}
  /\ HealthInv
  /\ jobs \in [JobNames -> {"none", "waiting", "active", "failed"}]
  /\ stop \in Stop
  /\ stop.pc = "closing" => InTime
  /\ Idles /\ StopsCleanly

GateReq == [pc : {"idle", "incr", "expire", "ttl", "flag", "reading", "refused", "answered"}, count : Nat,
            window : Nat, until : Nat, ver : Nat, on : BOOLEAN, from : {"none", "cache", "read", "default"}]

\* A window that has an expiry has a counter, and ends later.
KeyInv ==
  /\ key \in [n : Nat, expires : Nat, window : Nat] /\ now \in Nat \ {0}
  /\ key.expires # 0 => key.n > 0 /\ key.expires > now

\* The window a request was counted in is over, or its counter is still there; and from the second
\* command on it has an expiry, before which no refusal ends.
Counted(c) ==
  /\ c.pc \in {"expire", "ttl", "refused"} =>
       c.window <= key.window /\ (c.window = key.window => key.n > 0)
  /\ c.pc \in {"ttl", "refused"} /\ c.window = key.window => key.expires # 0
  /\ c.pc = "refused" /\ c.window = key.window => key.expires <= c.until

LimiterInv == KeyInv /\ req \in [Requests -> GateReq] /\ \A r \in Requests : Counted(req[r])

\* The copy is the row's, unless the row has just been written or the copy is known for an older one.
SwitchInv ==
  /\ row \in [ver : Nat, on : BOOLEAN] /\ setter \in [pc : {"idle", "write", "drop"}, on : BOOLEAN]
  /\ cache \in [at : Nat, ver : Nat, on : BOOLEAN, held : BOOLEAN, late : BOOLEAN]
  /\ cache.held => cache.ver = row.ver \/ setter.pc = "drop" \/ cache.late

PlatformInvariant == ProcessInv /\ LimiterInv /\ SwitchInv
-----------------------------------------------------------------------------
(* The processes *)

\* A step that leaves the broker or loses it, and the health file alone.
LEMMA HealthKept ==
  ASSUME HealthInv, broker' \in {broker, "down"}, UNCHANGED <<schedules, probe, age, missing>>
  PROVE  HealthInv'
<1>1. Scheduled' => Scheduled
  BY DEF Scheduled, Complete
<1> QED BY Zenon, <1>1 DEF HealthInv, HealthyMeansScheduled

\* A step that leaves the process alone but for its health file.
LEMMA ProcessKept ==
  ASSUME ProcessInv, broker' \in {"up", "down"}, HealthInv', UNCHANGED <<service, conn, jobs, stop>>
  PROVE  ProcessInv'
BY Zenon DEF ProcessInv, InTime, budget, Idles, Active, StopsCleanly

\* A step before, during or after which the process is not stopping.
LEMMA StopKept ==
  ASSUME ProcessInv, UNCHANGED <<service, stop>>, broker' \in {"up", "down"}, conn' \in {"initializing", "ready"},
         HealthInv', jobs' \in [JobNames -> {"none", "waiting", "active", "failed"}], Idles'
  PROVE  ProcessInv'
<1>1. budget' = budget
  BY DEF budget
<1>2. stop' \in Stop /\ (stop'.pc = "closing" => InTime') /\ StopsCleanly'
  BY Zenon, <1>1 DEF ProcessInv, InTime, StopsCleanly
<1>3. service' \in {"api", "worker"}
  BY DEF ProcessInv
<1> QED BY <1>2, <1>3 DEF ProcessInv

LEMMA JobTypes ==
  ASSUME ProcessInv, NEW name \in JobNames, NEW state \in {"none", "waiting", "active", "failed"},
         jobs' = [jobs EXCEPT ![name] = state]
  PROVE  /\ jobs' \in [JobNames -> {"none", "waiting", "active", "failed"}]
         /\ state # "active" /\ Active = {} => Active' = {}
<1>1. jobs' \in [JobNames -> {"none", "waiting", "active", "failed"}]
  BY DEF ProcessInv
<1>2. \A n \in JobNames : jobs'[n] = "active" => (n = name /\ state = "active") \/ (n # name /\ jobs[n] = "active")
  BY DEF ProcessInv
<1>3. state # "active" /\ Active = {} => Active' = {}
  BY <1>2 DEF Active
<1> QED BY <1>1, <1>3

\* The numbers of the health file.
LEMMA HealthTypes ==
  ASSUME HealthInv
  PROVE  /\ STALE \in Nat /\ age \in Nat /\ missing \in Nat /\ age <= STALE /\ missing <= STALE
         /\ probe.lag \in Nat /\ probe.late \in Nat /\ probe.lag <= STALE /\ probe.late <= STALE
         /\ missing <= age + probe.late
BY ProcessesAssumption DEF HealthInv, Probe, HealthyMeansScheduled

\* The broker returns, or a schedule is registered or deleted.
LEMMA ScheduleKeeps ==
  ASSUME HealthInv, BrokerReturns \/ SchedulesDeleted \/ register
  PROVE  HealthInv'
<1>1. UNCHANGED <<probe, age>>
  BY DEF BrokerReturns, SchedulesDeleted, register
<1>2. missing' \in {0, missing} /\ (Scheduled' => missing' = 0)
  <2>1. CASE BrokerReturns
    BY <2>1 DEF BrokerReturns, Scheduled, Complete
  <2>2. CASE SchedulesDeleted
    BY <2>2 DEF SchedulesDeleted, Scheduled, Complete
  <2>3. CASE register
    BY <2>3 DEF register, Scheduled, Complete
  <2> QED BY <2>1, <2>2, <2>3
<1> QED BY <1>1, <1>2, HealthTypes DEF HealthInv, HealthyMeansScheduled

\* A probe that moves on, or ends, without writing the file.
LEMMA ProbeMoves ==
  ASSUME HealthInv, UNCHANGED <<broker, schedules, age, missing>>, NEW pc \in {"idle", "registered"},
         probe' = [probe EXCEPT !.pc = pc] \/ probe' = [probe EXCEPT !.pc = pc, !.lag = 0]
  PROVE  HealthInv'
<1>1. probe' \in Probe /\ probe'.pc # "write" /\ probe'.late = probe.late
  <2>1. 0 \in 0..STALE /\ probe \in Probe /\ pc # "write"
    BY ProcessesAssumption DEF HealthInv
  <2>2. CASE probe' = [probe EXCEPT !.pc = pc]
    BY Zenon, <2>1, <2>2 DEF Probe
  <2>3. CASE probe' = [probe EXCEPT !.pc = pc, !.lag = 0]
    BY Zenon, <2>1, <2>3 DEF Probe
  <2> QED BY <2>2, <2>3
<1>2. Scheduled' => Scheduled
  BY DEF Scheduled, Complete
<1> QED BY <1>1, <1>2 DEF HealthInv, HealthyMeansScheduled

\* The probe's steps: what it was answered was so when the broker read it.
LEMMA ProbeKeeps ==
  ASSUME HealthInv, HealthInfo \/ HealthRegistered \/ HealthWrite \/ HealthFails
  PROVE  HealthInv'
<1>1. CASE HealthInfo \/ HealthFails
  BY <1>1, ProbeMoves DEF HealthInfo, HealthFails
<1>2. CASE HealthRegistered
  <2>1. UNCHANGED <<broker, schedules, age, missing>> /\ broker = "up"
    BY <1>2 DEF HealthRegistered
  <2>2. CASE ~allSchedulesRegistered
    <3>1. probe' = [probe EXCEPT !.pc = "idle", !.lag = 0]
      BY <1>2, <2>2 DEF HealthRegistered
    <3> QED BY <2>1, <3>1, ProbeMoves
  <2>3. CASE allSchedulesRegistered
    <3>1. probe' = [probe EXCEPT !.pc = "write", !.lag = 0]
      BY <1>2, <2>3 DEF HealthRegistered
    <3>2. probe' \in Probe /\ probe'.lag = 0 /\ probe'.late = probe.late
      <4>1. 0 \in 0..STALE /\ probe \in Probe
        BY ProcessesAssumption DEF HealthInv
      <4> QED BY Zenon, <3>1, <4>1 DEF Probe
    <3>3. Scheduled
      BY <2>1, <2>3 DEF allSchedulesRegistered, scheduleIsRegistered, Scheduled, Complete
    <3>4. missing = 0
      BY <3>3 DEF HealthInv
    <3> QED BY <2>1, <3>2, <3>4, HealthTypes DEF HealthInv, HealthyMeansScheduled
  <2> QED BY <2>2, <2>3
<1>3. CASE HealthWrite
  <2> DEFINE waited == probe.lag
  <2>1. UNCHANGED <<broker, schedules, missing>> /\ probe.pc = "write" /\ age' = 0
    BY <1>3 DEF HealthWrite, Probing
  <2>2. probe' = [pc |-> "idle", lag |-> 0, late |-> waited] /\ waited \in 0..STALE /\ missing <= waited
    BY <1>3, <2>1, HealthTypes DEF HealthWrite, HealthInv
  <2> HIDE DEF waited
  <2>3. probe' \in Probe /\ probe'.pc = "idle" /\ probe'.late = waited
    BY <2>2, ProcessesAssumption DEF Probe
  <2>4. Scheduled' => Scheduled
    BY <2>1 DEF Scheduled, Complete
  <2> QED BY <2>1, <2>2, <2>3, <2>4, HealthTypes, ProcessesAssumption DEF HealthInv, HealthyMeansScheduled
<1> QED BY <1>1, <1>2, <1>3

\* What is missing, and an answer that is on its way, grow older with the file.
LEMMA IntervalKeeps ==
  ASSUME HealthInv, HealthInterval
  PROVE  HealthInv'
<1>1. UNCHANGED <<broker, schedules>> /\ age' = Older(age) /\ missing' = IF Scheduled THEN 0 ELSE Older(missing)
  BY DEF HealthInterval
<1>2. PICK pc \in {probe.pc, "info"} :
        probe' = [pc |-> pc, lag |-> IF pc = "write" THEN Older(probe.lag) ELSE 0,
                  late |-> IF age' = STALE THEN 0 ELSE probe.late]
  BY Zenon DEF HealthInterval
<1>3. PICK lag, late :
        /\ probe' = [pc |-> pc, lag |-> lag, late |-> late]
        /\ lag = IF pc = "write" THEN Older(probe.lag) ELSE 0
        /\ late = IF age' = STALE THEN 0 ELSE probe.late
  BY Zenon, <1>2
<1>4. lag \in 0..STALE /\ late \in 0..STALE /\ age' \in 0..STALE /\ missing' \in 0..STALE
  BY <1>1, <1>3, HealthTypes DEF Older
<1>5. pc \in {"idle", "info", "registered", "write"} /\ (pc = "write" => probe.pc = "write")
  BY <1>2 DEF HealthInv, Probe
<1>6. probe' \in Probe /\ probe'.pc = pc /\ probe'.lag = lag /\ probe'.late = late
  BY <1>3, <1>4, <1>5 DEF Probe
<1>7. Scheduled' => missing' = 0
  BY <1>1 DEF Scheduled, Complete
<1>8. probe'.pc = "write" => missing' <= probe'.lag
  <2> SUFFICES ASSUME pc = "write" PROVE missing' <= lag
    BY <1>6
  <2>1. missing <= probe.lag /\ lag = Older(probe.lag)
    BY <1>3, <1>5 DEF HealthInv
  <2> QED BY <1>1, <2>1, HealthTypes DEF Older
<1>9. HealthyMeansScheduled'
  <2> SUFFICES missing' <= age' + late
    BY <1>6 DEF HealthyMeansScheduled
  <2> QED BY <1>1, <1>3, HealthTypes DEF Older
<1> QED BY <1>4, <1>6, <1>7, <1>8, <1>9 DEF HealthInv

\* The broker, the schedules, the jobs and the health file.
LEMMA WorkKeeps ==
  ASSUME ProcessInv,
         \/ BrokerGoes \/ BrokerReturns \/ SchedulesDeleted \/ Connect \/ register \/ registerRefused \/ registerAgain
         \/ Mint \/ Take \/ process
         \/ HealthInterval \/ HealthInfo \/ HealthRegistered \/ HealthWrite \/ HealthFails
  PROVE  ProcessInv'
<1>0. HealthInv
  BY DEF ProcessInv
<1>1. CASE BrokerGoes \/ registerRefused \/ registerAgain
  <2>1. /\ broker' \in {broker, "down"} /\ broker' \in {"up", "down"}
        /\ UNCHANGED <<service, schedules, conn, probe, age, missing, jobs, stop>>
    BY Zenon, <1>1 DEF ProcessInv, BrokerGoes, registerRefused, registerAgain
  <2> QED BY <1>0, <2>1, HealthKept, ProcessKept
<1>2. CASE BrokerReturns \/ SchedulesDeleted \/ register
  <2>1. broker' \in {"up", "down"} /\ UNCHANGED <<service, conn, jobs, stop>>
    BY Zenon, <1>2 DEF ProcessInv, BrokerReturns, SchedulesDeleted, register
  <2> QED BY <1>0, <1>2, <2>1, ScheduleKeeps, ProcessKept
<1>3. CASE HealthInterval \/ HealthInfo \/ HealthRegistered \/ HealthWrite \/ HealthFails
  <2>1. broker' \in {"up", "down"} /\ UNCHANGED <<service, conn, jobs, stop>>
    BY Zenon, <1>3 DEF ProcessInv, HealthInterval, HealthInfo, HealthRegistered, HealthWrite, HealthFails
  <2> QED BY <1>0, <1>3, <2>1, IntervalKeeps, ProbeKeeps, ProcessKept
<1>4. CASE Connect
  <2>1. /\ UNCHANGED <<service, broker, schedules, probe, age, missing, jobs, stop>>
        /\ conn' = "ready" /\ conn = "initializing"
    BY <1>4 DEF Connect
  <2>2. Idles' /\ HealthInv'
    BY <1>0, <2>1, HealthKept DEF ProcessInv, Idles, Active
  <2> QED BY <2>1, <2>2, StopKept DEF ProcessInv
<1>5. CASE Mint
  <2>1. UNCHANGED <<service, broker, schedules, conn, probe, age, missing, stop>>
    BY <1>5 DEF Mint
  <2>2. PICK name \in JobNames : jobs' = [jobs EXCEPT ![name] = "waiting"]
    BY Zenon, <1>5 DEF Mint
  <2>3. jobs' \in [JobNames -> {"none", "waiting", "active", "failed"}] /\ (Active = {} => Active' = {})
    BY Zenon, <2>2, JobTypes
  <2>4. Idles' /\ HealthInv'
    BY <1>0, <2>1, <2>3, HealthKept DEF ProcessInv, Idles
  <2> QED BY <2>1, <2>3, <2>4, StopKept DEF ProcessInv
<1>6. CASE Take
  <2>1. /\ UNCHANGED <<service, broker, schedules, conn, probe, age, missing, stop>>
        /\ service = "worker" /\ conn = "ready" /\ stop.pc # "exited"
    BY Zenon, <1>6 DEF Take, Up
  <2>2. PICK name \in JobNames : jobs' = [jobs EXCEPT ![name] = "active"]
    BY Zenon, <1>6 DEF Take
  <2>3. jobs' \in [JobNames -> {"none", "waiting", "active", "failed"}]
    BY Zenon, <2>2, JobTypes
  <2>4. Idles' /\ HealthInv'
    BY <1>0, <2>1, HealthKept DEF ProcessInv, Idles
  <2> QED BY <2>1, <2>3, <2>4, StopKept DEF ProcessInv
<1>7. CASE process
  <2>1. UNCHANGED <<service, broker, schedules, conn, probe, age, missing, stop>>
    BY <1>7 DEF process
  <2>2. PICK name \in JobNames, outcome \in triggerOutcomes : jobs' = [jobs EXCEPT ![name] = processed(name, outcome)]
    BY Zenon, <1>7 DEF process
  <2>3. processed(name, outcome) \in {"none", "failed"}
    BY DEF processed
  <2>4. jobs' \in [JobNames -> {"none", "waiting", "active", "failed"}] /\ (Active = {} => Active' = {})
    BY Zenon, <2>2, <2>3, JobTypes
  <2>5. Idles' /\ HealthInv'
    BY <1>0, <2>1, <2>4, HealthKept DEF ProcessInv, Idles
  <2> QED BY <2>1, <2>4, <2>5, StopKept DEF ProcessInv
<1> QED BY <1>1, <1>2, <1>3, <1>4, <1>5, <1>6, <1>7
-----------------------------------------------------------------------------
(* Stopping *)

\* A step of the shutdown leaves the rest of the process alone.
LEMMA Stopping ==
  ASSUME ProcessInv, UNCHANGED <<service, broker, conn>>, HealthInv', stop' \in Stop,
         jobs' \in [JobNames -> {"none", "waiting", "active", "failed"}], Idles', StopsCleanly',
         stop'.pc = "closing" => InTime'
  PROVE  ProcessInv'
BY DEF ProcessInv

LEMMA Budgets ==
  /\ service = "api" => budget.each = 3 /\ budget.whole = 10 /\ budget.grace = 15 /\ Len(budget.closables) = 3
  /\ service = "worker" => budget.each = 5 /\ budget.whole = 6 /\ budget.grace = 9 /\ Len(budget.closables) = 4
BY DEF budget, apiStop, workerStop

LEMMA ClosablesFacts ==
  /\ service = "api" => \A i \in {1, 2, 3} : budget.closables[i] \in Closables
  /\ service = "worker" => \A i \in {1, 2, 3, 4} : budget.closables[i] \in Closables
  /\ service = "worker" => budget.closables[4] = "maintenance worker"
<1>1. apiStop.closables[1] \in Closables /\ apiStop.closables[2] \in Closables /\ apiStop.closables[3] \in Closables
  BY DEF apiStop, Closables
<1>2. /\ workerStop.closables[1] \in Closables /\ workerStop.closables[2] \in Closables
      /\ workerStop.closables[3] \in Closables /\ workerStop.closables[4] = "maintenance worker"
  BY DEF workerStop, Closables
<1>3. "maintenance worker" \in Closables
  BY DEF Closables
<1> QED BY Zenon, <1>1, <1>2, <1>3 DEF budget

\* Where a stop is, in numbers.
LEMMA StopTypes ==
  ASSUME ProcessInv
  PROVE  /\ service \in {"api", "worker"} /\ stop.at \in {0, 1, 2, 3, 4} /\ stop.waited \in Nat /\ stop.elapsed \in Nat
         /\ stop.gaveUp \subseteq Closables
BY DEF ProcessInv, Stop

LEMMA ClosingFacts ==
  ASSUME ProcessInv, stop.pc = "closing"
  PROVE  Closing \in Closables
<1>1. InTime
  BY DEF ProcessInv
<1> QED BY Zenon, <1>1, ClosablesFacts, StopTypes DEF InTime, Closing

\* An active job is cut off only by a drain that was waited for to its bound.
Drains(gaveUp) == Active # {} => "maintenance worker" \in gaveUp
LastDrains(gaveUp) == Closing = "maintenance worker" => Drains(gaveUp)

\* A process that exits hands its active jobs back.
LEMMA ExitKeeps ==
  ASSUME ProcessInv, stop.pc = "closing", NEW code \in {0, 1}, NEW gaveUp, gaveUp \subseteq Closables, Exit(code, gaveUp),
         UNCHANGED <<service, broker, schedules, conn, age, missing>>,
         code = 1 => service = "worker" /\ stop.waited < stop.elapsed,
         code = 0 => Drains(gaveUp)
  PROVE  ProcessInv'
<1> DEFINE e == [stop EXCEPT !.pc = "exited", !.gaveUp = gaveUp, !.code = code, !.cut = Active]
<1>1. Active \in SUBSET JobNames
  BY DEF Active
<1>2. stop' = e
  BY DEF Exit
<1>3. /\ e \in Stop /\ e.pc = "exited" /\ e.gaveUp = gaveUp /\ e.code = code /\ e.cut = Active
      /\ e.waited = stop.waited /\ e.elapsed = stop.elapsed
  BY Zenon, <1>1 DEF ProcessInv, Stop
<1>4. jobs' \in [JobNames -> {"none", "waiting", "active", "failed"}] /\ Active' = {}
  <2>1. jobs' = [name \in JobNames |-> IF name \in Active THEN "waiting" ELSE jobs[name]]
    BY DEF Exit
  <2> QED BY <2>1 DEF ProcessInv, Active
<1>5. Idles'
  BY <1>4 DEF Idles
<1>6. stop.elapsed < budget.grace
  <2>1. InTime
    BY DEF ProcessInv
  <2> QED BY <2>1, Budgets, StopTypes DEF InTime
<1>7. budget' = budget
  BY DEF budget
<1>8. StopsCleanly'
  BY Zenon, <1>2, <1>3, <1>6, <1>7 DEF StopsCleanly, Drains
<1>9. HealthInv'
  BY ProbeMoves DEF ProcessInv, Exit
<1> HIDE DEF e
<1> QED BY <1>2, <1>3, <1>4, <1>5, <1>8, <1>9, Stopping

\* The next close is waited for, or the process exits.
LEMMA SettledKeeps ==
  ASSUME ProcessInv, stop.pc = "closing", NEW gaveUp, gaveUp \subseteq Closables, Settled(gaveUp),
         UNCHANGED <<service, broker, schedules, conn, age, missing>>,
         LastDrains(gaveUp)
  PROVE  ProcessInv'
<1>1. CASE stop.at < Len(budget.closables) /\ stop' = [stop EXCEPT !.at = @ + 1, !.waited = 0, !.gaveUp = gaveUp]
           /\ UNCHANGED <<jobs, probe>>
  <2>0. (service = "api" => stop.at < 3) /\ (service = "worker" => stop.at < 4)
    <3> DEFINE n == Len(budget.closables)
    <3>1. stop.at < n
      BY <1>1
    <3>2. (service = "api" => n = 3) /\ (service = "worker" => n = 4)
      BY Budgets
    <3> HIDE DEF n
    <3> QED BY <3>1, <3>2
  <2>1. /\ stop' \in Stop /\ stop'.pc = "closing" /\ stop'.at = stop.at + 1 /\ stop'.waited = 0
        /\ stop'.elapsed = stop.elapsed
    <3> DEFINE k == stop.at + 1
    <3>1. k \in {0, 1, 2, 3, 4}
      BY <2>0, StopTypes
    <3>2. stop' = [stop EXCEPT !.at = k, !.waited = 0, !.gaveUp = gaveUp]
      BY <1>1
    <3>3. stop \in Stop
      BY DEF ProcessInv
    <3> HIDE DEF k
    <3>4. stop' \in Stop /\ stop'.pc = "closing" /\ stop'.at = k /\ stop'.waited = 0 /\ stop'.elapsed = stop.elapsed
      BY Zenon, <3>1, <3>2, <3>3 DEF Stop
    <3> QED BY <3>4 DEF k
  <2>2. budget' = budget
    BY DEF budget
  <2>3. InTime'
    <3>1. InTime
      BY DEF ProcessInv
    <3>2. CASE service = "api"
      BY <2>0, <2>1, <2>2, <3>1, <3>2, Budgets, StopTypes DEF InTime
    <3>3. CASE service = "worker"
      BY <2>0, <2>1, <2>2, <3>1, <3>3, Budgets, StopTypes DEF InTime
    <3> QED BY <3>2, <3>3, StopTypes
  <2>4. Idles' /\ StopsCleanly'
    BY Zenon, <1>1, <2>1 DEF ProcessInv, Idles, Active, StopsCleanly
  <2>5. HealthInv'
    BY <1>1, HealthKept DEF ProcessInv
  <2> QED BY <1>1, <2>1, <2>3, <2>4, <2>5, Stopping DEF ProcessInv
<1>2. CASE stop.at = Len(budget.closables) /\ Exit(0, gaveUp)
  <2>1. Drains(gaveUp)
    <3>1. CASE service = "api"
      BY Zenon, <3>1 DEF ProcessInv, Idles, Drains
    <3>2. CASE service = "worker"
      BY Zenon, <1>2, <3>2, Budgets, ClosablesFacts DEF Closing, LastDrains
    <3> QED BY <3>1, <3>2, StopTypes
  <2>2. 0 \in {0, 1} /\ 0 # 1
    OBVIOUS
  <2> QED BY Zenon, <1>2, <2>1, <2>2, ExitKeeps
<1> QED BY <1>1, <1>2 DEF Settled

LEMMA StopKeeps ==
  ASSUME ProcessInv, shutdown \/ closeSettles \/ closeTimesOut \/ forceExit \/ StopTick
  PROVE  ProcessInv'
<1>1. CASE shutdown
  <2>1. /\ stop.pc = "running" /\ stop' = [Running EXCEPT !.pc = "closing", !.at = 1]
        /\ UNCHANGED <<service, broker, schedules, conn, probe, age, missing, jobs>>
    BY <1>1 DEF shutdown, Up, workerVars
  <2>2. stop' \in Stop /\ stop'.pc = "closing" /\ stop'.at = 1 /\ stop'.waited = 0 /\ stop'.elapsed = 0
    BY Zenon, <2>1 DEF Running, Stop
  <2>3. budget' = budget
    BY <2>1 DEF budget
  <2>4. InTime'
    BY <2>1, <2>2, <2>3, Budgets, StopTypes DEF InTime
  <2>5. Idles' /\ StopsCleanly'
    BY <2>1, <2>2 DEF ProcessInv, Idles, Active, StopsCleanly
  <2>6. HealthInv'
    BY <2>1, HealthKept DEF ProcessInv
  <2> QED BY <2>1, <2>2, <2>4, <2>5, <2>6, Stopping DEF ProcessInv
<1>2. CASE closeSettles
  <2>1. stop.pc = "closing" /\ Settles /\ Settled(stop.gaveUp) /\ UNCHANGED <<service, broker, schedules, conn, age, missing>>
    BY <1>2 DEF closeSettles
  <2>2. LastDrains(stop.gaveUp)
    BY Zenon, <2>1 DEF Settles, hasNothingToDrain, ProcessInv, Idles, Drains, LastDrains
  <2>3. stop.gaveUp \subseteq Closables
    BY DEF ProcessInv, Stop
  <2> QED BY <2>1, <2>2, <2>3, SettledKeeps
<1>3. CASE closeTimesOut
  <2>1. /\ stop.pc = "closing" /\ Settled(stop.gaveUp \cup {Closing})
        /\ UNCHANGED <<service, broker, schedules, conn, age, missing>>
    BY <1>3 DEF closeTimesOut
  <2>2. stop.gaveUp \cup {Closing} \subseteq Closables
    BY <2>1, ClosingFacts, StopTypes
  <2>3. LastDrains(stop.gaveUp \cup {Closing})
    BY Zenon DEF Drains, LastDrains
  <2> QED BY <2>1, <2>2, <2>3, SettledKeeps
<1>4. CASE forceExit
  <2>1. /\ stop.pc = "closing" /\ stop.elapsed = budget.whole /\ Exit(1, stop.gaveUp)
        /\ UNCHANGED <<service, broker, schedules, conn, age, missing>>
    BY <1>4 DEF forceExit
  <2>2. stop.gaveUp \subseteq Closables
    BY DEF ProcessInv, Stop
  <2>3. service = "worker" /\ stop.waited < stop.elapsed
    BY <2>1, Budgets, StopTypes DEF ProcessInv, InTime
  <2>4. 1 \in {0, 1} /\ 1 # 0
    OBVIOUS
  <2> QED BY Zenon, <2>1, <2>2, <2>3, <2>4, ExitKeeps
<1>5. CASE StopTick
  <2>1. /\ stop.pc = "closing" /\ stop.waited < budget.each /\ stop.elapsed < budget.whole
        /\ stop' = [stop EXCEPT !.waited = @ + 1, !.elapsed = @ + 1]
        /\ UNCHANGED <<service, broker, schedules, conn, probe, age, missing, jobs>>
    BY <1>5 DEF StopTick, workerVars
  <2>2. /\ stop' \in Stop /\ stop'.pc = "closing" /\ stop'.at = stop.at /\ stop'.waited = stop.waited + 1
        /\ stop'.elapsed = stop.elapsed + 1
    <3> DEFINE w == stop.waited + 1
               t == stop.elapsed + 1
    <3>1. w \in Nat /\ t \in Nat
      BY StopTypes
    <3>2. stop' = [stop EXCEPT !.waited = w, !.elapsed = t]
      BY <2>1
    <3>3. stop \in Stop
      BY DEF ProcessInv
    <3> HIDE DEF w, t
    <3>4. stop' \in Stop /\ stop'.pc = "closing" /\ stop'.at = stop.at /\ stop'.waited = w /\ stop'.elapsed = t
      BY Zenon, <2>1, <3>1, <3>2, <3>3 DEF Stop
    <3> QED BY <3>4 DEF w, t
  <2>3. budget' = budget
    BY <2>1 DEF budget
  <2>4. InTime'
    <3>1. InTime
      BY <2>1 DEF ProcessInv
    <3> QED BY <2>1, <2>2, <2>3, <3>1, Budgets, StopTypes DEF InTime
  <2>5. Idles' /\ StopsCleanly'
    BY Zenon, <2>1, <2>2 DEF ProcessInv, Idles, Active, StopsCleanly
  <2>6. HealthInv'
    BY <2>1, HealthKept DEF ProcessInv
  <2> QED BY <2>1, <2>2, <2>4, <2>5, <2>6, Stopping DEF ProcessInv
<1> QED BY <1>1, <1>2, <1>3, <1>4, <1>5

LEMMA RestartKeeps ==
  ASSUME ProcessInv, Restart
  PROVE  ProcessInv'
<1>1. /\ stop.pc = "exited" /\ stop' = Running /\ conn' = "initializing" /\ age' = STALE /\ probe' = NoProbe
      /\ UNCHANGED <<service, broker, schedules, missing, jobs>>
  BY DEF Restart
<1>2. stop' \in Stop /\ stop'.pc = "running"
  BY <1>1 DEF Running, Stop
<1>3. Idles' /\ StopsCleanly'
  BY Zenon, <1>1, <1>2 DEF ProcessInv, Idles, Active, StopsCleanly
<1>4. HealthInv'
  <2>1. NoProbe \in Probe /\ NoProbe.pc = "idle" /\ NoProbe.late = 0
    BY ProcessesAssumption DEF NoProbe, Probe
  <2>2. HealthInv /\ (Scheduled' => Scheduled)
    BY <1>1 DEF ProcessInv, Scheduled, Complete
  <2> QED BY <1>1, <2>1, <2>2, HealthTypes DEF HealthInv, HealthyMeansScheduled
<1> QED BY <1>1, <1>2, <1>3, <1>4 DEF ProcessInv
-----------------------------------------------------------------------------
(* The limiter *)

LEMMA RecordTypes ==
  /\ Idle \in GateReq /\ Passed \in GateReq
  /\ Idle.pc = "idle" /\ Passed.pc \in {"flag", "answered"} /\ Passed.from = "none"
  /\ [Idle EXCEPT !.pc = "incr"] \in GateReq /\ [Idle EXCEPT !.pc = "incr"].pc = "incr"
<1>1. Idle \in GateReq /\ Idle.pc = "idle" /\ Idle.from = "none"
  BY DEF Idle, GateReq
<1> DEFINE p == IF route = "switched" THEN "flag" ELSE "answered"
<1>2. p \in {"flag", "answered"} /\ Passed = [Idle EXCEPT !.pc = p]
  BY DEF Passed
<1> HIDE DEF p
<1>3. [Idle EXCEPT !.pc = p] \in GateReq /\ [Idle EXCEPT !.pc = p].pc = p /\ [Idle EXCEPT !.pc = p].from = "none"
  BY <1>1, <1>2 DEF GateReq
<1>4. [Idle EXCEPT !.pc = "incr"] \in GateReq /\ [Idle EXCEPT !.pc = "incr"].pc = "incr"
  BY <1>1 DEF GateReq
<1> QED BY <1>1, <1>2, <1>3, <1>4

\* A request takes a step that leaves the clock alone, and the counter at least as it was.
Grows ==
  /\ now' = now /\ key' \in [n : Nat, expires : Nat, window : Nat] /\ key'.window = key.window
  /\ key'.n >= key.n /\ (key.expires # 0 => key'.expires = key.expires)

LEMMA Grown ==
  ASSUME LimiterInv, Grows, NEW c \in GateReq, Counted(c)
  PROVE  Counted(c)'
<1>1. /\ c.window \in Nat /\ c.until \in Nat /\ key.n \in Nat /\ key.window \in Nat /\ key.expires \in Nat
      /\ key'.n \in Nat /\ key'.expires \in Nat
  BY DEF LimiterInv, KeyInv, GateReq, Grows
<1> QED BY <1>1 DEF Counted, Grows

LEMMA Limited ==
  ASSUME LimiterInv, Grows, KeyInv', NEW r \in Requests, NEW c \in GateReq, Become(r, c), Counted(c)'
  PROVE  LimiterInv'
<1>1. req' \in [Requests -> GateReq] /\ req'[r] = c /\ \A q \in Requests \ {r} : req'[q] = req[q]
  BY DEF LimiterInv, Become
<1>2. \A q \in Requests : Counted(req[q])'
  <2> SUFFICES ASSUME NEW q \in Requests PROVE Counted(req[q])'
    OBVIOUS
  <2>1. CASE q = r
    BY <1>1, <2>1 DEF Counted
  <2>2. CASE q # r
    <3>1. PICK d \in GateReq : d = req[q] /\ d = req'[q]
      BY <1>1, <2>2
    <3>2. Counted(d)'
      BY Zenon, <3>1, Grown DEF LimiterInv
    <3> QED BY <3>1, <3>2 DEF Counted
  <2> QED BY <2>1, <2>2
<1> QED BY <1>1, <1>2 DEF LimiterInv

\* The counter is as it was.
LEMMA SameKey ==
  ASSUME LimiterInv, UNCHANGED <<now, key>>
  PROVE  Grows /\ KeyInv'
BY DEF LimiterInv, KeyInv, Grows

LEMMA Incremented ==
  ASSUME LimiterInv, now' = now, key' = incr
  PROVE  Grows /\ KeyInv' /\ key'.n > 0 /\ key'.n = key.n + 1
<1> DEFINE m == key.n + 1
<1>1. key \in [n : Nat, expires : Nat, window : Nat] /\ key.n \in Nat /\ key.expires \in Nat
  BY DEF LimiterInv, KeyInv
<1>2. m \in Nat /\ m > 0 /\ m >= key.n
  BY <1>1
<1>3. key' = [key EXCEPT !.n = m]
  BY DEF incr
<1> HIDE DEF m
<1>4. /\ key' \in [n : Nat, expires : Nat, window : Nat] /\ key'.n = m
      /\ key'.expires = key.expires /\ key'.window = key.window
  BY <1>1, <1>2, <1>3
<1>5. Grows /\ KeyInv'
  BY <1>2, <1>4 DEF Grows, KeyInv, LimiterInv
<1> QED BY <1>2, <1>4, <1>5 DEF m

LEMMA Expiring ==
  ASSUME LimiterInv, now' = now, key' = expireNX
  PROVE  Grows /\ KeyInv' /\ (key.n > 0 => key'.expires # 0)
<1> DEFINE m == now + WindowSeconds
<1>1. /\ key \in [n : Nat, expires : Nat, window : Nat] /\ key.n \in Nat /\ key.expires \in Nat /\ now \in Nat \ {0}
      /\ key.expires # 0 => key.n > 0 /\ key.expires > now
  BY DEF LimiterInv, KeyInv
<1>2. m \in Nat /\ m > now /\ m # 0
  BY <1>1, GatesAssumption
<1>3. CASE key.n > 0 /\ key.expires = 0
  <2>1. key' = [key EXCEPT !.expires = m]
    BY <1>3 DEF expireNX
  <2> HIDE DEF m
  <2>2. /\ key' \in [n : Nat, expires : Nat, window : Nat] /\ key'.n = key.n
        /\ key'.expires = m /\ key'.window = key.window
    BY <1>1, <1>2, <2>1
  <2> QED BY <1>1, <1>2, <1>3, <2>2 DEF Grows, KeyInv
<1>4. CASE ~(key.n > 0 /\ key.expires = 0)
  <2>1. key' = key
    BY <1>4 DEF expireNX
  <2> QED BY <1>1, <1>4, <2>1 DEF Grows, KeyInv
<1> QED BY <1>3, <1>4

\* A request that is not counted in a window.
LEMMA Uncounted ==
  ASSUME NEW c, c.pc \notin {"expire", "ttl", "refused"}
  PROVE  Counted(c)'
BY DEF Counted

LEMMA AllowedKeeps ==
  ASSUME LimiterInv, Grows, KeyInv', NEW r \in Requests, Allowed(r)
  PROVE  LimiterInv'
<1>1. PICK c \in GateReq : c = Passed /\ c.pc \in {"flag", "answered"} /\ Become(r, c)
  BY RecordTypes DEF Allowed
<1>2. Counted(c)'
  BY <1>1, Uncounted
<1> QED BY <1>1, <1>2, Limited

LEMMA CanActivateKeeps ==
  ASSUME LimiterInv, NEW r \in Requests, canActivate(r), now' = now
  PROVE  LimiterInv'
<1>1. Grows /\ KeyInv'
  BY SameKey DEF canActivate
<1>2. CASE Become(r, [Idle EXCEPT !.pc = "incr"])
  <2>1. PICK c \in GateReq : c.pc = "incr" /\ Become(r, c)
    BY Zenon, <1>2, RecordTypes
  <2>2. Counted(c)'
    BY <2>1, Uncounted
  <2> QED BY <1>1, <2>1, <2>2, Limited
<1>3. CASE Become(r, Passed)
  BY <1>1, <1>3, AllowedKeeps DEF Allowed
<1> QED BY <1>2, <1>3 DEF canActivate

LEMMA ConsumeIncrKeeps ==
  ASSUME LimiterInv, NEW r \in Requests, consumeIncr(r), now' = now
  PROVE  LimiterInv'
<1>1. CASE key' = incr /\ Become(r, [req[r] EXCEPT !.pc = "expire", !.count = key.n + 1, !.window = key.window])
  <2> DEFINE m == key.n + 1
             w == key.window
  <2>1. Grows /\ KeyInv' /\ key'.n > 0
    BY <1>1, Incremented
  <2>2. m \in Nat /\ w \in Nat /\ req[r] \in GateReq
    BY DEF LimiterInv, KeyInv
  <2>3. Become(r, [req[r] EXCEPT !.pc = "expire", !.count = m, !.window = w])
    BY <1>1
  <2>4. key'.window = w
    BY <2>1 DEF Grows
  <2> HIDE DEF m, w
  <2>5. PICK c \in GateReq : c.pc = "expire" /\ c.window = w /\ Become(r, c)
    <3> DEFINE c == [req[r] EXCEPT !.pc = "expire", !.count = m, !.window = w]
    <3>1. c \in GateReq /\ c.pc = "expire" /\ c.window = w
      BY Zenon, <2>2 DEF GateReq
    <3> QED BY Zenon, <2>3, <3>1
  <2>6. Counted(c)'
    BY <2>1, <2>2, <2>4, <2>5 DEF Counted
  <2> QED BY <2>1, <2>5, <2>6, Limited
<1>2. CASE key' = incr /\ Allowed(r)
  BY <1>2, Incremented, AllowedKeeps
<1>3. CASE Allowed(r) /\ UNCHANGED key
  BY <1>3, SameKey, AllowedKeeps
<1> QED BY <1>1, <1>2, <1>3 DEF consumeIncr

LEMMA ConsumeExpireKeeps ==
  ASSUME LimiterInv, NEW r \in Requests, consumeExpire(r), now' = now
  PROVE  LimiterInv'
<1>1. CASE key' = expireNX /\ Become(r, [req[r] EXCEPT !.pc = "ttl"])
  <2>1. Grows /\ KeyInv' /\ (key.n > 0 => key'.expires # 0)
    BY <1>1, Expiring
  <2>2. req[r] \in GateReq /\ req[r].pc = "expire" /\ Counted(req[r])
    BY DEF LimiterInv, consumeExpire
  <2>3. PICK c \in GateReq : c.pc = "ttl" /\ c.window = req[r].window /\ Become(r, c)
    <3> DEFINE c == [req[r] EXCEPT !.pc = "ttl"]
    <3>1. c \in GateReq /\ c.pc = "ttl" /\ c.window = req[r].window
      BY <2>2 DEF GateReq
    <3> QED BY Zenon, <1>1, <3>1
  <2>4. /\ c.window \in Nat /\ key.window \in Nat /\ c.window <= key.window
        /\ c.window = key.window => key.n > 0
    BY <2>2, <2>3 DEF Counted, LimiterInv, KeyInv, GateReq
  <2>5. key'.window = key.window /\ (key.n > 0 => key'.n > 0)
    BY <2>1 DEF Grows, LimiterInv, KeyInv
  <2>6. Counted(c)'
    BY <2>1, <2>3, <2>4, <2>5 DEF Counted
  <2> QED BY <2>1, <2>3, <2>6, Limited
<1>2. CASE key' = expireNX /\ Allowed(r)
  BY <1>2, Expiring, AllowedKeeps
<1>3. CASE Allowed(r) /\ UNCHANGED key
  BY <1>3, SameKey, AllowedKeeps
<1> QED BY <1>1, <1>2, <1>3 DEF consumeExpire

\* A refusal lasts at least as long as the window it was counted in.
LEMMA ConsumeTtlKeeps ==
  ASSUME LimiterInv, NEW r \in Requests, consumeTtl(r), now' = now
  PROVE  LimiterInv'
<1>0. Grows /\ KeyInv' /\ key' = key
  BY SameKey DEF consumeTtl
<1>1. CASE Become(r, [req[r] EXCEPT !.pc = "refused", !.count = 0, !.until = now + retryAfterSeconds(secondsLeft)])
  <2> DEFINE u == now + retryAfterSeconds(secondsLeft)
  <2>1. req[r] \in GateReq /\ req[r].pc = "ttl" /\ Counted(req[r])
    BY DEF LimiterInv, consumeTtl
  <2>2. /\ key.n \in Nat /\ key.expires \in Nat /\ now \in Nat
        /\ key.expires # 0 => key.n > 0 /\ key.expires > now
    BY DEF LimiterInv, KeyInv
  <2>3. secondsLeft \in Nat \ {0} /\ (key.expires # 0 => secondsLeft = key.expires - now)
    BY <2>2, GatesAssumption DEF secondsLeft
  <2>4. u \in Nat /\ (key.expires # 0 => key.expires <= u)
    BY <2>2, <2>3 DEF retryAfterSeconds
  <2>5. Become(r, [req[r] EXCEPT !.pc = "refused", !.count = 0, !.until = u])
    BY <1>1
  <2> HIDE DEF u
  <2>6. PICK c \in GateReq : c.pc = "refused" /\ c.window = req[r].window /\ c.until = u /\ Become(r, c)
    <3> DEFINE c == [req[r] EXCEPT !.pc = "refused", !.count = 0, !.until = u]
    <3>1. c \in GateReq /\ c.pc = "refused" /\ c.window = req[r].window /\ c.until = u
      BY Zenon, <2>1, <2>4 DEF GateReq
    <3> QED BY Zenon, <2>5, <3>1
  <2>7. Counted(c)'
    BY <1>0, <2>1, <2>4, <2>6 DEF Counted
  <2> QED BY <1>0, <2>6, <2>7, Limited
<1>2. CASE Allowed(r)
  BY <1>0, <1>2, AllowedKeeps
<1> QED BY <1>1, <1>2 DEF consumeTtl

\* An answered request is counted no more.
LEMMA AnsweredMoves ==
  ASSUME NEW r \in Requests, NEW on \in BOOLEAN, NEW from \in {"none", "cache", "read", "default"}, Answered(r, on, from)
  PROVE  \E c \in GateReq : c.pc = "answered" /\ c.from = from /\ Become(r, c)
<1> DEFINE c == [Idle EXCEPT !.pc = "answered", !.on = on, !.from = from]
<1>1. c \in GateReq /\ c.pc = "answered" /\ c.from = from
  BY Zenon, RecordTypes DEF GateReq
<1> QED BY Zenon, <1>1 DEF Answered
-----------------------------------------------------------------------------
(* The switches *)

Copy == [at : Nat, ver : Nat, on : BOOLEAN, held : BOOLEAN, late : BOOLEAN]

\* The process has no copy, or one it knows to be the row's or a late one.
LEMMA Copied ==
  ASSUME SwitchInv, UNCHANGED <<row, setter>>, cache' \in Copy, cache'.held => cache'.ver = row.ver \/ cache'.late
  PROVE  SwitchInv'
BY DEF SwitchInv, Copy

LEMMA NoCopy == NoCache \in Copy /\ NoCache.held = FALSE
BY DEF NoCache, Copy

LEMMA IsEnabledKeeps ==
  ASSUME LimiterInv, SwitchInv, NEW r \in Requests, isEnabled(r), now' = now
  PROVE  LimiterInv'
<1>0. Grows /\ KeyInv'
  BY SameKey DEF isEnabled
<1>1. ASSUME NEW on \in BOOLEAN, NEW from \in {"none", "cache", "read", "default"}, Answered(r, on, from)
      PROVE  LimiterInv'
  <2>1. PICK c \in GateReq : c.pc = "answered" /\ Become(r, c)
    BY <1>1, AnsweredMoves
  <2>2. Counted(c)'
    BY <2>1, Uncounted
  <2> QED BY <1>0, <2>1, <2>2, Limited
<1>2. CASE Answered(r, cache.on, "cache")
  <2>1. cache.on \in BOOLEAN
    BY DEF SwitchInv
  <2> QED BY Zenon, <1>1, <1>2, <2>1
<1>3. CASE Answered(r, defaultOf, "default")
  <2>1. defaultOf \in BOOLEAN
    BY DEF defaultOf
  <2> QED BY Zenon, <1>1, <1>3, <2>1
<1>4. CASE Become(r, [req[r] EXCEPT !.pc = "reading", !.on = row.on, !.ver = row.ver])
  <2> DEFINE b == row.on
             v == row.ver
             c == [req[r] EXCEPT !.pc = "reading", !.on = b, !.ver = v]
  <2>1. b \in BOOLEAN /\ v \in Nat /\ req[r] \in GateReq
    BY DEF SwitchInv, LimiterInv
  <2>2. Become(r, c)
    BY <1>4
  <2> HIDE DEF b, v
  <2>3. c \in GateReq /\ c.pc = "reading"
    BY Zenon, <2>1 DEF GateReq
  <2>4. PICK d \in GateReq : d.pc = "reading" /\ Become(r, d)
    BY Zenon, <2>2, <2>3
  <2>5. Counted(d)'
    BY <2>4, Uncounted
  <2> QED BY <1>0, <2>4, <2>5, Limited
<1> QED BY <1>2, <1>3, <1>4 DEF isEnabled

\* A copy of an older row is known for one.
LEMMA OverridesKeeps ==
  ASSUME LimiterInv, SwitchInv, NEW r \in Requests, overrides(r), UNCHANGED <<now, row, setter>>
  PROVE  LimiterInv' /\ SwitchInv'
<1>0. Grows /\ KeyInv'
  BY SameKey DEF overrides
<1>1. req[r].on \in BOOLEAN /\ req[r].ver \in Nat /\ now \in Nat
  BY DEF LimiterInv, KeyInv, GateReq
<1>2. LimiterInv'
  <2>1. Answered(r, req[r].on, "read")
    BY DEF overrides
  <2>2. PICK c \in GateReq : c.pc = "answered" /\ Become(r, c)
    BY <1>1, <2>1, AnsweredMoves
  <2>3. Counted(c)'
    BY <2>2, Uncounted
  <2> QED BY <1>0, <2>2, <2>3, Limited
<1>3. SwitchInv'
  <2> DEFINE b == req[r].on
             v == req[r].ver
             l == v # row.ver
  <2>1. cache' = [at |-> now, ver |-> v, on |-> b, held |-> TRUE, late |-> l]
    BY DEF overrides
  <2>2. b \in BOOLEAN /\ v \in Nat /\ l \in BOOLEAN /\ (l \/ v = row.ver)
    BY Zenon, <1>1
  <2> HIDE DEF b, v, l
  <2>3. cache' \in Copy /\ cache'.ver = v /\ cache'.late = l
    BY <1>1, <2>1, <2>2 DEF Copy
  <2> QED BY Zenon, <2>2, <2>3, Copied
<1> QED BY <1>2, <1>3

LEMMA SetKeeps ==
  ASSUME SwitchInv, setBegin \/ setWrite \/ setDrop
  PROVE  SwitchInv'
<1>1. CASE setBegin
  <2>1. PICK on \in BOOLEAN : setter' = [pc |-> "write", on |-> on]
    BY <1>1 DEF setBegin
  <2>2. setter.pc = "idle" /\ UNCHANGED <<row, cache>>
    BY <1>1 DEF setBegin
  <2>3. setter' \in [pc : {"idle", "write", "drop"}, on : BOOLEAN]
    BY <2>1
  <2> QED BY <2>2, <2>3 DEF SwitchInv
<1>2. CASE setWrite
  <2> DEFINE b == setter.on
             v == row.ver + 1
             h == cache.held
  <2>1. b \in BOOLEAN /\ v \in Nat /\ h \in BOOLEAN
    BY DEF SwitchInv
  <2>2. CASE row' = [ver |-> v, on |-> b] /\ setter' = [setter EXCEPT !.pc = "drop"] /\ cache' = cache
    <3> HIDE DEF b, v
    <3>1. row' \in [ver : Nat, on : BOOLEAN]
      BY <2>1, <2>2
    <3>2. setter' \in [pc : {"idle", "write", "drop"}, on : BOOLEAN] /\ setter'.pc = "drop"
      BY <2>2 DEF SwitchInv
    <3> QED BY <2>2, <3>1, <3>2 DEF SwitchInv
  <2>3. CASE row' = [ver |-> v, on |-> b] /\ setter' = NoSet /\ cache' = [cache EXCEPT !.late = h]
    <3> HIDE DEF b, v
    <3>1. row' \in [ver : Nat, on : BOOLEAN]
      BY <2>1, <2>3
    <3>2. setter' \in [pc : {"idle", "write", "drop"}, on : BOOLEAN]
      BY <2>3 DEF NoSet
    <3>3. cache' \in [at : Nat, ver : Nat, on : BOOLEAN, held : BOOLEAN, late : BOOLEAN] /\ cache'.late = cache'.held
      <4>1. cache \in [at : Nat, ver : Nat, on : BOOLEAN, held : BOOLEAN, late : BOOLEAN] /\ cache.held = h
        BY DEF SwitchInv
      <4> HIDE DEF h
      <4> QED BY Zenon, <2>1, <2>3, <4>1
    <3> QED BY Zenon, <3>1, <3>2, <3>3 DEF SwitchInv
  <2>4. CASE setter' = NoSet /\ UNCHANGED <<row, cache>>
    <3>1. setter' \in [pc : {"idle", "write", "drop"}, on : BOOLEAN] /\ setter.pc = "write"
      BY <1>2, <2>4 DEF NoSet, setWrite
    <3> QED BY Zenon, <2>4, <3>1 DEF SwitchInv
  <2> QED BY <1>2, <2>2, <2>3, <2>4 DEF setWrite
<1>3. CASE setDrop
  <2>1. cache' = NoCache /\ setter' = NoSet /\ row' = row
    BY <1>3 DEF setDrop
  <2>2. NoSet \in [pc : {"idle", "write", "drop"}, on : BOOLEAN]
    BY DEF NoSet
  <2> QED BY <2>1, <2>2, NoCopy DEF SwitchInv, Copy
<1> QED BY <1>1, <1>2, <1>3

\* A second passes: the counter whose time is up starts another window.
LEMMA SecondKeeps ==
  ASSUME LimiterInv, Second
  PROVE  LimiterInv'
<1> DEFINE t == now + 1
<1>0. now' = t /\ key' = Expired(key, t) /\ req' = req
  BY DEF Second
<1>1. /\ key \in [n : Nat, expires : Nat, window : Nat] /\ now \in Nat \ {0} /\ t \in Nat \ {0} /\ now < t
      /\ key.n \in Nat /\ key.expires \in Nat /\ key.window \in Nat
      /\ key.expires # 0 => key.n > 0
  BY DEF LimiterInv, KeyInv
<1> HIDE DEF t
<1>2. CASE key.expires # 0 /\ key.expires <= t
  <2> DEFINE w == key.window + 1
  <2>1. w \in Nat /\ w > key.window
    BY <1>1
  <2>2. key' = [n |-> 0, expires |-> 0, window |-> w]
    BY <1>0, <1>2 DEF Expired
  <2> HIDE DEF w
  <2>3. /\ key' \in [n : Nat, expires : Nat, window : Nat] /\ key'.n = 0 /\ key'.expires = 0 /\ key'.window = w
    BY <2>1, <2>2
  <2>4. KeyInv'
    BY Zenon, <1>0, <1>1, <2>3 DEF KeyInv
  <2>5. \A q \in Requests : Counted(req[q])'
    <3> TAKE q \in Requests
    <3>1. req'[q] = req[q] /\ req[q].window \in Nat /\ Counted(req[q])
      BY <1>0 DEF LimiterInv, GateReq
    <3>2. req[q].pc \in {"expire", "ttl", "refused"} => req[q].window < w
      BY <1>1, <2>1, <3>1 DEF Counted
    <3> QED BY <2>1, <2>3, <3>1, <3>2 DEF Counted
  <2> QED BY <1>0, <2>4, <2>5 DEF LimiterInv
<1>3. CASE ~(key.expires # 0 /\ key.expires <= t)
  <2>1. key' = key
    BY <1>0, <1>3 DEF Expired
  <2>2. KeyInv'
    BY <1>0, <1>1, <1>3, <2>1 DEF KeyInv
  <2>3. \A q \in Requests : Counted(req[q])'
    BY <1>0, <2>1 DEF LimiterInv, Counted
  <2> QED BY <1>0, <2>2, <2>3 DEF LimiterInv
<1> QED BY <1>2, <1>3

\* What a step leaves alone stays true.
LEMMA LimiterUntouched ==
  ASSUME LimiterInv, UNCHANGED <<now, key, req>>
  PROVE  LimiterInv'
BY DEF LimiterInv, KeyInv, Counted

LEMMA SwitchUntouched ==
  ASSUME SwitchInv, UNCHANGED <<row, cache, setter>>
  PROVE  SwitchInv'
BY DEF SwitchInv

LEMMA BrokerUntouched ==
  ASSUME ProcessInv, Serving, GateStep
  PROVE  broker' \in {broker, "down"} /\ broker' \in {"up", "down"}
BY Zenon DEF ProcessInv, GateStep, canActivate, consumeIncr, consumeExpire, consumeTtl, isEnabled, overrides, Answers,
   Throws, LosesReply

LEMMA PlatformNextKeeps ==
  ASSUME PlatformInvariant, [PlatformNext]_platformVars
  PROVE  PlatformInvariant'
<1> USE DEF PlatformInvariant
<1>1. CASE UNCHANGED platformVars
  <2>1. /\ UNCHANGED <<service, broker, schedules, conn, probe, age, missing, jobs, stop>>
        /\ UNCHANGED <<now, key, req, row, cache, setter>>
    BY <1>1 DEF platformVars, processVars, gateVars
  <2>2. broker' \in {"up", "down"} /\ HealthInv'
    BY <2>1, HealthKept DEF ProcessInv
  <2> QED BY <2>1, <2>2, ProcessKept, LimiterUntouched, SwitchUntouched
<1>2. CASE ProcessNext /\ UNCHANGED gateVars
  <2>1. ProcessInv'
    BY <1>2, WorkKeeps, StopKeeps DEF ProcessNext
  <2> QED BY <1>2, <2>1, LimiterUntouched, SwitchUntouched DEF gateVars
<1>3. CASE /\ Restart /\ req' = [r \in Requests |-> Idle] /\ cache' = NoCache /\ setter' = NoSet
           /\ UNCHANGED <<route, now, asked, key, row>>
  <2>1. ProcessInv'
    BY <1>3, RestartKeeps
  <2>2. LimiterInv'
    <3>1. req' \in [Requests -> GateReq] /\ \A r \in Requests : req'[r].pc = "idle"
      BY <1>3, RecordTypes
    <3>2. KeyInv'
      BY <1>3 DEF LimiterInv, KeyInv
    <3> QED BY <3>1, <3>2 DEF LimiterInv, Counted
  <2>3. SwitchInv'
    <3>1. NoSet \in [pc : {"idle", "write", "drop"}, on : BOOLEAN]
      BY DEF NoSet
    <3> QED BY <1>3, <3>1, NoCopy DEF SwitchInv, Copy
  <2> QED BY <2>1, <2>2, <2>3
<1>4. CASE Serving /\ GateStep /\ UNCHANGED <<service, failures, starts, workerVars, stop>>
  <2>1. ProcessInv'
    <3>1. HealthInv'
      BY <1>4, BrokerUntouched, HealthKept DEF ProcessInv, workerVars
    <3> QED BY <1>4, <3>1, BrokerUntouched, ProcessKept DEF workerVars
  <2>2. CASE \E r \in Requests :
               /\ \/ canActivate(r) \/ consumeIncr(r) \/ consumeExpire(r) \/ consumeTtl(r)
                  \/ isEnabled(r) \/ overrides(r)
               /\ UNCHANGED <<route, now, row, setter>>
    <3>1. PICK r \in Requests :
            /\ \/ canActivate(r) \/ consumeIncr(r) \/ consumeExpire(r) \/ consumeTtl(r)
               \/ isEnabled(r) \/ overrides(r)
            /\ UNCHANGED <<route, now, row, setter>>
      BY <2>2
    <3>2. CASE overrides(r)
      BY <2>1, <3>1, <3>2, OverridesKeeps
    <3>3. CASE canActivate(r) \/ consumeIncr(r) \/ consumeExpire(r) \/ consumeTtl(r) \/ isEnabled(r)
      <4>1. LimiterInv'
        BY <3>1, <3>3, CanActivateKeeps, ConsumeIncrKeeps, ConsumeExpireKeeps, ConsumeTtlKeeps, IsEnabledKeeps
      <4>2. cache' = cache
        BY <3>3 DEF canActivate, consumeIncr, consumeExpire, consumeTtl, isEnabled
      <4> QED BY <2>1, <3>1, <4>1, <4>2, SwitchUntouched
    <3> QED BY <3>1, <3>2, <3>3
  <2>3. CASE (setBegin \/ setWrite \/ setDrop) /\ UNCHANGED <<broker, outages, route, now, asked, key, req>>
    BY <2>1, <2>3, SetKeeps, LimiterUntouched
  <2> QED BY <1>4, <2>2, <2>3 DEF GateStep
<1>5. CASE Second /\ UNCHANGED <<service, failures, starts, workerVars, stop>>
  <2>1. /\ UNCHANGED <<service, broker, schedules, conn, probe, age, missing, jobs, stop>>
        /\ UNCHANGED <<row, cache, setter>>
    BY <1>5 DEF Second, workerVars
  <2>2. broker' \in {"up", "down"} /\ HealthInv'
    BY <2>1, HealthKept DEF ProcessInv
  <2> QED BY <1>5, <2>1, <2>2, ProcessKept, SecondKeeps, SwitchUntouched
<1> QED BY <1>1, <1>2, <1>3, <1>4, <1>5 DEF PlatformNext

LEMMA PlatformInitHolds == PlatformInit => PlatformInvariant
<1> SUFFICES ASSUME PlatformInit PROVE PlatformInvariant
  OBVIOUS
<1>1. ProcessInv
  <2>1. /\ service \in {"api", "worker"} /\ broker = "up" /\ conn = "initializing" /\ age = STALE /\ missing = STALE
        /\ schedules = {} /\ probe = NoProbe /\ stop = Running
    BY DEF PlatformInit, ProcessInit
  <2>2. jobs = [name \in JobNames |-> IF name = "retired" /\ service = "worker" THEN "waiting" ELSE "none"]
    BY DEF PlatformInit, ProcessInit
  <2>3. jobs \in [JobNames -> {"none", "waiting", "active", "failed"}] /\ Active = {}
    BY Zenon, <2>2 DEF Active
  <2>4. stop \in Stop /\ stop.pc = "running"
    BY <2>1 DEF Running, Stop
  <2>5. Idles /\ StopsCleanly
    BY <2>3, <2>4 DEF Idles, StopsCleanly
  <2>6. HealthInv
    <3>1. NoProbe \in Probe /\ NoProbe.pc = "idle" /\ NoProbe.late = 0
      BY ProcessesAssumption DEF NoProbe, Probe
    <3>2. ~Scheduled
      BY <2>1 DEF Scheduled, Complete
    <3> QED BY <2>1, <3>1, <3>2, ProcessesAssumption DEF HealthInv, HealthyMeansScheduled
  <2> QED BY <2>1, <2>3, <2>4, <2>5, <2>6 DEF ProcessInv
<1>2. LimiterInv
  <2>1. now = 1 /\ key = [n |-> 0, expires |-> 0, window |-> 0] /\ req = [r \in Requests |-> Idle]
    BY DEF PlatformInit
  <2>2. KeyInv
    BY <2>1 DEF KeyInv
  <2>3. req \in [Requests -> GateReq] /\ \A r \in Requests : req[r].pc = "idle"
    BY <2>1, RecordTypes
  <2> QED BY <2>2, <2>3 DEF LimiterInv, Counted
<1>3. SwitchInv
  <2>1. row = [ver |-> 0, on |-> TRUE] /\ cache = NoCache /\ setter = NoSet
    BY DEF PlatformInit
  <2>2. NoSet \in [pc : {"idle", "write", "drop"}, on : BOOLEAN] /\ row \in [ver : Nat, on : BOOLEAN]
    BY <2>1 DEF NoSet
  <2> QED BY <2>1, <2>2, NoCopy DEF SwitchInv, Copy
<1> QED BY <1>1, <1>2, <1>3 DEF PlatformInvariant

LEMMA PlatformInductive == PlatformSpec => []PlatformInvariant
<1>1. PlatformInvariant /\ [PlatformNext]_platformVars => PlatformInvariant'
  BY PlatformNextKeeps
<1> QED BY <1>1, PlatformInitHolds, PTL DEF PlatformSpec

\* The health file (main.ts, healthcheck.ts) is never fresher than the last time the broker held both
\* schedules, but for the intervals its probe's answer was under way, whatever STALE is and however often
\* the broker, a schedule or an answer is lost.
THEOREM HealthyMeansScheduledHolds == PlatformSpec => []HealthyMeansScheduled
<1>1. PlatformInvariant => HealthyMeansScheduled
  BY DEF PlatformInvariant, ProcessInv, HealthInv
<1> QED BY <1>1, PlatformInductive, PTL

\* Both processes stop within the orchestrator's patience (shutdown.ts): the API never by force, the worker
\* by force only when a second close was waited for, and neither cuts off a job without having waited.
THEOREM StopsCleanlyHolds == PlatformSpec => []StopsCleanly
<1>1. PlatformInvariant => StopsCleanly
  BY DEF PlatformInvariant, ProcessInv
<1> QED BY <1>1, PlatformInductive, PTL

\* A caller the limiter refused (redis-rate-limiter.ts) who waits for as long as they were told is counted
\* in another window, for any limit, window, number of requests and loss of replies.
THEOREM NoLockoutHolds == PlatformSpec => []NoLockout
<1>1. PlatformInvariant => NoLockout
  <2> SUFFICES ASSUME PlatformInvariant, NEW r \in Requests, req[r].pc = "refused", now >= req[r].until
               PROVE  key.window > req[r].window
    BY DEF NoLockout
  <2>1. Counted(req[r]) /\ req[r] \in GateReq /\ KeyInv
    BY DEF PlatformInvariant, LimiterInv
  <2>2. req[r].window \in Nat /\ req[r].until \in Nat /\ key.window \in Nat /\ key.expires \in Nat /\ now \in Nat
    BY <2>1 DEF KeyInv, GateReq
  <2> QED BY <2>1, <2>2 DEF Counted, KeyInv
<1> QED BY <1>1, PlatformInductive, PTL

\* A request that answers from the process's copy.
LEMMA CopyStep ==
  ASSUME PlatformInvariant, [PlatformNext]_platformVars, NEW r \in Requests,
         req'[r].pc = "answered", req[r].pc = "flag", req'[r].from = "cache"
  PROVE  /\ now - cache.at < FLAG_CACHE_TTL
         /\ cache.ver = row.ver \/ setter.pc = "drop" \/ cache.late
<1>1. req' # req
  OBVIOUS
<1>2. \E q \in Requests : canActivate(q) \/ consumeIncr(q) \/ consumeExpire(q) \/ consumeTtl(q) \/ isEnabled(q) \/ overrides(q)
  BY Zenon, <1>1, RecordTypes DEF PlatformNext, platformVars, gateVars, GateStep, Second
<1>3. PICK q \in Requests : canActivate(q) \/ consumeIncr(q) \/ consumeExpire(q) \/ consumeTtl(q) \/ isEnabled(q) \/ overrides(q)
  BY <1>2
<1>4. \E c : req' = [req EXCEPT ![q] = c]
  BY <1>3 DEF canActivate, consumeIncr, consumeExpire, consumeTtl, isEnabled, overrides, Allowed, Answered, Become
<1>5. q = r
  BY <1>4 DEF PlatformInvariant, LimiterInv
<1>6. isEnabled(r)
  BY <1>3, <1>5 DEF canActivate, consumeIncr, consumeExpire, consumeTtl, overrides
<1>7. Fresh
  <2>1. req'[r].from = "cache" => ~Answered(r, defaultOf, "default")
    BY Zenon DEF PlatformInvariant, LimiterInv, Answered, Become, Idle
  <2>2. ~Become(r, [req[r] EXCEPT !.pc = "reading", !.on = row.on, !.ver = row.ver])
    BY Zenon DEF PlatformInvariant, LimiterInv, Become, GateReq
  <2> QED BY <1>6, <2>1, <2>2 DEF isEnabled
<1> QED BY <1>7 DEF Fresh, PlatformInvariant, SwitchInv

\* A switch is seen (feature-flags.service.ts): for any time to live and any number of changes, a copy is not
\* used past its time, and is the row's unless the row has just been written, was read before the write, or
\* was written by a call whose answer was lost.
THEOREM SwitchIsSeenHolds == PlatformSpec => SwitchIsSeen
<1>1. PlatformInvariant /\ [PlatformNext]_platformVars =>
        [\A r \in Requests :
           req'[r].pc = "answered" /\ req[r].pc = "flag" /\ req'[r].from = "cache" =>
             /\ now - cache.at < FLAG_CACHE_TTL
             /\ cache.ver = row.ver \/ setter.pc = "drop" \/ cache.late]_platformVars
  BY CopyStep
<1> QED BY <1>1, PlatformInductive, PTL DEF PlatformSpec, SwitchIsSeen

-----------------------------------------------------------------------------
(* The page an owner manages a listing from *)

ListingFields == [status : {"DRAFT", "PUBLISHED", "PAUSED"}, moderation : {"APPROVED", "UNDER_REVIEW", "REJECTED"},
                  ready : BOOLEAN, available : BOOLEAN]

KeptShape ==
  /\ kept = [listing |-> kept.listing, media |-> kept.media, issued |-> kept.issued]
  /\ kept.listing \in ListingFields

UploadShape ==
  /\ upload \in [at : {"idle", "sent", "stored", "refused", "lost"}, mounted : BOOLEAN,
                 outcome : [message : {"refused", "unfinished"}, drawing : BOOLEAN] \cup {NoOutcome}]
  /\ untold \in BOOLEAN

Kinds == {"earlier", "later", "remove", "PublishControl", "PauseControl"}

\* Only the task at the head has been answered or has read anything.
TaskShape(t) ==
  /\ t = [form |-> t.form, order |-> t.order, at |-> t.at, read |-> t.read, unread |-> t.unread]
  /\ t.read = [listing |-> t.read.listing, media |-> t.read.media]
  /\ t.at = "ask" => t.read = Unread /\ t.form[1] \in Kinds
  /\ t.unread = {"listing", "media"} => t.read = Unread

Queue ==
  /\ \E S : tasks \in Seq(S)
  /\ \A i \in 1..Len(tasks) : TaskShape(tasks[i]) /\ (i > 1 => tasks[i].read = Unread)

\* The page will be drawn again, by a task after the first n.
DrawsAfter(n) == \E i \in 1..Len(tasks) : i > n /\ tasks[i].at = "draw"

\* What has been read may be out of date, and the page will say so or be drawn again.
Disturbed == untold \/ upload.at # "idle" \/ FreshRefusal \/ DrawsAfter(1)

\* As the listing is stored, or without a gallery.
AsStored(listing, media) == listing \in {kept.listing, Nothing} /\ media \in {kept.media, NoGallery}

\* What the task at the head has read so far.
ReadsTrue == Disturbed \/ (Len(tasks) > 0 => AsStored(tasks[1].read.listing, tasks[1].read.media))

Right(p) == p # Nothing => p.listing = kept.listing /\ p.media \in {kept.media, NoGallery}

\* A page that is wrong shows a refusal, was not told of something, or will be
\* drawn again.
PageTrue == untold \/ Alert \/ upload.at # "idle" \/ DrawsAfter(0) \/ Right(shown)

PageInv == KeptShape /\ UploadShape /\ Queue /\ ReadsTrue /\ PageTrue

\* What a queue holds after a task is added, done with or replaced.
LEMMA Longer ==
  ASSUME NEW S, NEW q \in Seq(S), NEW e
  PROVE  /\ Append(q, e) \in Seq(S \cup {e}) /\ Len(Append(q, e)) = Len(q) + 1 /\ Len(q) \in Nat
         /\ \A i \in 1..Len(q) : Append(q, e)[i] = q[i]
         /\ Append(q, e)[Len(q) + 1] = e
<1>1. q \in Seq(S \cup {e})
  OBVIOUS
<1> QED BY <1>1

LEMMA Shorter ==
  ASSUME NEW S, NEW q \in Seq(S), q # <<>>
  PROVE  /\ Tail(q) \in Seq(S) /\ Len(q) \in Nat /\ Len(q) > 0 /\ Len(Tail(q)) = Len(q) - 1
         /\ \A i \in 1..(Len(q) - 1) : Tail(q)[i] = q[i + 1]
         /\ Head(q) = q[1]
OBVIOUS

LEMMA Replaced ==
  ASSUME NEW S, NEW q \in Seq(S), q # <<>>, NEW e
  PROVE  /\ <<e>> \o Tail(q) \in Seq(S \cup {e}) /\ Len(<<e>> \o Tail(q)) = Len(q)
         /\ (<<e>> \o Tail(q))[1] = e
         /\ \A i \in 2..Len(q) : (<<e>> \o Tail(q))[i] = q[i]
<1>1. Tail(q) \in Seq(S \cup {e}) /\ <<e>> \in Seq(S \cup {e}) /\ Len(Tail(q)) = Len(q) - 1
  OBVIOUS
<1> QED BY <1>1

\* A task put at the end of the queue, everything else as it was.
LEMMA Queued ==
  ASSUME PageInv, NEW t, tasks' = Append(tasks, t), TaskShape(t), t.read = Unread,
         kept' = kept, shown' = shown, alerts' = alerts, untold' = untold,
         UploadShape',
         \/ upload' = upload
         \/ t.at = "draw"
  PROVE  PageInv'
<1>1. PICK S : tasks \in Seq(S)
  BY DEF PageInv, Queue
<1>2. /\ tasks' \in Seq(S \cup {t}) /\ Len(tasks') = Len(tasks) + 1 /\ Len(tasks) \in Nat
      /\ \A i \in 1..Len(tasks) : tasks'[i] = tasks[i]
      /\ tasks'[Len(tasks) + 1] = t
  BY <1>1, Longer
<1>3. Queue'
  <2>1. ASSUME NEW i \in 1..Len(tasks')
        PROVE  (TaskShape(tasks[i]) /\ (i > 1 => tasks[i].read = Unread))'
    <3>1. CASE i \in 1..Len(tasks)
      BY Zenon, <1>2, <3>1 DEF PageInv, Queue, TaskShape
    <3>2. CASE i = Len(tasks) + 1
      BY <1>2, <3>2 DEF TaskShape
    <3> QED BY <1>2, <3>1, <3>2
  <2> QED BY Zenon, <1>2, <2>1 DEF Queue
<1>4. KeptShape'
  BY Zenon DEF PageInv, KeptShape
<1>5. /\ DrawsAfter(0) => DrawsAfter(0)'
      /\ DrawsAfter(1) => DrawsAfter(1)'
      /\ t.at = "draw" => DrawsAfter(0)'
      /\ t.at = "draw" /\ Len(tasks) > 0 => DrawsAfter(1)'
  BY <1>2 DEF DrawsAfter
<1>6. ReadsTrue'
  <2>1. CASE Len(tasks) = 0
    BY <1>2, <2>1 DEF ReadsTrue, AsStored, Unread
  <2>2. CASE Len(tasks) > 0
    <3>1. tasks'[1] = tasks[1]
      BY <1>2, <2>2
    <3> QED BY <1>5, <2>2, <3>1 DEF PageInv, ReadsTrue, Disturbed, AsStored, FreshRefusal
  <2> QED BY <1>2, <2>1, <2>2
<1>7. PageTrue'
  BY <1>5 DEF PageInv, PageTrue, Alert, Right
<1> QED BY <1>3, <1>4, <1>6, <1>7 DEF PageInv

\* Every step keeps the invariant of the page.
LEMMA PressKeeps ==
  ASSUME PageInv, NEW form, Press(form)
  PROVE  PageInv'
<1>1. UNCHANGED <<kept, shown, alerts, upload, untold>>
  BY DEF Press
<1>2. UploadShape'
  BY <1>1 DEF PageInv, UploadShape
<1>3. PICK order : form[1] \in Kinds /\ tasks' = Append(tasks, Task(form, order))
  BY DEF Press, ReorderForm, DeleteForm, PublishControl, PauseControl, Kinds
<1>4. TaskShape(Task(form, order)) /\ Task(form, order).read = Unread
  BY Zenon, <1>3 DEF TaskShape, Task, Unread
<1> QED BY <1>1, <1>2, <1>3, <1>4, Queued

LEMMA RefreshShape == TaskShape(Refresh) /\ Refresh.read = Unread /\ Refresh.at = "draw"
BY DEF TaskShape, Refresh, Unread

LEMMA ReloadKeeps ==
  ASSUME PageInv, Reload
  PROVE  PageInv'
<1>1. UNCHANGED <<kept, shown, alerts, upload, untold>> /\ tasks' = Append(tasks, Refresh)
  BY DEF Reload
<1>2. UploadShape'
  BY <1>1 DEF PageInv, UploadShape
<1> QED BY <1>1, <1>2, RefreshShape, Queued

LEMMA UploadControlKeeps ==
  ASSUME PageInv, UploadControl
  PROVE  PageInv'
<1>1. UNCHANGED <<kept, shown, tasks, alerts, untold>>
  BY DEF UploadControl
<1>2. upload' = [upload EXCEPT !.at = "sent", !.outcome = NoOutcome, !.mounted = TRUE]
  BY DEF UploadControl
<1>3. UploadShape' /\ upload'.at # "idle"
  BY Zenon, <1>1, <1>2 DEF PageInv, UploadShape
<1>4. KeptShape' /\ Queue'
  BY <1>1 DEF PageInv, KeptShape, Queue, TaskShape
<1> QED BY <1>3, <1>4 DEF PageInv, ReadsTrue, Disturbed, PageTrue

\* What is stored has the same fields after each write of it.
LEMMA AppendedShape ==
  ASSUME KeptShape
  PROVE  /\ Appended = [listing |-> Appended.listing, media |-> Appended.media, issued |-> Appended.issued]
         /\ Appended.listing = kept.listing
<1> DEFINE l == kept.listing
           m == kept.media
           n == kept.issued
<1>1. kept = [listing |-> l, media |-> m, issued |-> n]
  BY DEF KeptShape
<1> HIDE DEF l, m, n
<1>2. Appended = [kept EXCEPT !.media = Append(m, n), !.issued = n + 1]
  BY Zenon DEF Appended, l, m, n
<1>3. PICK longer, next : Appended = [kept EXCEPT !.media = longer, !.issued = next]
  BY Zenon, <1>2
<1>4. Appended = [listing |-> l, media |-> longer, issued |-> next]
  BY Zenon, <1>1, <1>3
<1> QED BY Zenon, <1>1, <1>4

LEMMA PhotographsShape ==
  ASSUME KeptShape, NEW media
  PROVE  /\ Photographs(media) = [listing |-> Photographs(media).listing, media |-> Photographs(media).media,
                                  issued |-> Photographs(media).issued]
         /\ Photographs(media).listing = kept.listing
BY DEF KeptShape, Photographs

LEMMA ListingShape ==
  ASSUME KeptShape, NEW field, NEW value,
         \/ field = "status" /\ value \in {"PUBLISHED", "PAUSED"}
         \/ field = "moderation" /\ value \in {"APPROVED", "UNDER_REVIEW", "REJECTED"}
         \/ field \in {"ready", "available"} /\ value \in BOOLEAN
  PROVE  /\ Listing(field, value) = [listing |-> Listing(field, value).listing, media |-> Listing(field, value).media,
                                     issued |-> Listing(field, value).issued]
         /\ Listing(field, value).listing \in ListingFields
<1>1. Listing(field, value) = [listing |-> [kept.listing EXCEPT ![field] = value], media |-> kept.media,
                               issued |-> kept.issued]
  BY DEF KeptShape, Listing
<1>2. [kept.listing EXCEPT ![field] = value] \in ListingFields
  BY DEF KeptShape, ListingFields
<1> QED BY <1>1, <1>2

LEMMA mediaPOSTKeeps ==
  ASSUME PageInv, mediaPOST
  PROVE  PageInv'
<1>1. UNCHANGED <<shown, tasks, alerts, untold>> /\ kept' \in {kept, Appended}
  BY DEF mediaPOST
<1>2. PICK at \in {"stored", "refused", "lost"} : upload' = [upload EXCEPT !.at = at]
  BY DEF mediaPOST
<1>3. UploadShape' /\ upload'.at # "idle"
  BY <1>1, <1>2 DEF PageInv, UploadShape
<1>4. KeptShape'
  BY Zenon, <1>1, AppendedShape DEF PageInv, KeptShape
<1>5. Queue'
  BY Zenon, <1>1 DEF PageInv, Queue, TaskShape
<1> QED BY <1>3, <1>4, <1>5 DEF PageInv, ReadsTrue, Disturbed, PageTrue

LEMMA UploadAnsweredKeeps ==
  ASSUME PageInv, UploadAnswered
  PROVE  PageInv'
<1>1. CASE upload.at = "stored" /\ tasks' = Append(tasks, Refresh) /\ upload' = [upload EXCEPT !.at = "idle"]
           /\ UNCHANGED <<kept, shown, alerts, untold>>
  <2>1. UploadShape'
    BY <1>1 DEF PageInv, UploadShape
  <2> QED BY <1>1, <2>1, RefreshShape, Queued
<1>2. CASE upload.at \in {"refused", "lost"}
  <2>1. UNCHANGED <<kept, shown, tasks, alerts>>
    BY <1>2 DEF UploadAnswered
  <2>2. PICK why \in {"refused", "unfinished"} : report(why)
    BY <1>2 DEF UploadAnswered
  <2>3. KeptShape' /\ Queue'
    BY Zenon, <2>1 DEF PageInv, KeptShape, Queue, TaskShape
  <2>4. CASE Told
    <3>1. PICK busy \in BOOLEAN :
            /\ busy <=> tasks # <<>>
            /\ UNCHANGED untold
            /\ upload' = [upload EXCEPT !.at = "idle", !.outcome = [message |-> why, drawing |-> busy]]
      BY Zenon, <2>2, <2>4 DEF report
    <3>2. upload'.outcome = [message |-> why, drawing |-> busy] /\ UploadShape'
      BY Zenon, <3>1 DEF PageInv, UploadShape
    <3>3. upload'.outcome # NoOutcome
      BY <3>2, OwnerPageAssumption
    <3>4. Alert'
      BY <3>3 DEF Alert
    <3>5. PageTrue'
      BY Zenon, <3>4 DEF PageTrue
    <3>6. ReadsTrue'
      <4>1. CASE tasks = <<>>
        <5>1. ~(Len(tasks') > 0)
          BY <2>1, <4>1
        <5> QED BY Zenon, <5>1 DEF ReadsTrue
      <4>2. CASE tasks # <<>>
        <5>1. FreshRefusal'
          BY <3>1, <3>2, <3>3, <4>2 DEF FreshRefusal
        <5> QED BY Zenon, <5>1 DEF ReadsTrue, Disturbed
      <4> QED BY Zenon, <4>1, <4>2
    <3> QED BY Zenon, <2>3, <3>2, <3>5, <3>6 DEF PageInv
  <2>5. CASE ~Told
    <3>1. untold' = TRUE /\ upload' = [upload EXCEPT !.at = "idle"]
      BY <2>2, <2>5 DEF report
    <3>2. UploadShape'
      BY <3>1 DEF PageInv, UploadShape
    <3> QED BY <2>3, <3>1, <3>2 DEF PageInv, ReadsTrue, Disturbed, PageTrue
  <2> QED BY Zenon, <2>4, <2>5
<1> QED BY <1>1, <1>2 DEF UploadAnswered

LEMMA OthersWriteKeeps ==
  ASSUME PageInv, OthersWrite
  PROVE  PageInv'
<1>1. UNCHANGED <<shown, tasks, alerts, upload>> /\ untold' = TRUE
  BY Zenon DEF OthersWrite
<1>2. UploadShape' /\ Queue'
  BY Zenon, <1>1 DEF PageInv, UploadShape, Queue, TaskShape
<1>3. KeptShape'
  <2>1. KeptShape /\ kept.listing.ready \in BOOLEAN /\ kept.listing.available \in BOOLEAN
    BY DEF PageInv, KeptShape, ListingFields
  <2>2. \/ \E media : kept' = Photographs(media)
        \/ kept' = Appended
        \/ \E field, value : kept' = Listing(field, value) /\
             \/ field = "status" /\ value \in {"PUBLISHED", "PAUSED"}
             \/ field = "moderation" /\ value \in {"APPROVED", "UNDER_REVIEW", "REJECTED"}
             \/ field \in {"ready", "available"} /\ value \in BOOLEAN
    BY Zenon, <2>1 DEF OthersWrite
  <2> QED BY Zenon, <2>1, <2>2, PhotographsShape, AppendedShape, ListingShape DEF KeptShape
<1> QED BY <1>1, <1>2, <1>3 DEF PageInv, ReadsTrue, Disturbed, PageTrue

\* Whatever the API does with a task, what is stored keeps its shape.
LEMMA ServedShape ==
  ASSUME KeptShape, NEW t, t.form[1] \in Kinds
  PROVE  /\ Served(t).to = [listing |-> Served(t).to.listing, media |-> Served(t).to.media, issued |-> Served(t).to.issued]
         /\ Served(t).to.listing \in ListingFields
<1>1. \/ Served(t).to = kept
      \/ \E media : Served(t).to = Photographs(media)
      \/ \E value \in {"PUBLISHED", "PAUSED"} : Served(t).to = Listing("status", value)
  <2>1. CASE t.form[1] = "remove"
    <3>1. CASE t.form[2] \in Range(kept.media)
      BY Zenon, <2>1, <3>1 DEF Served
    <3>2. CASE t.form[2] \notin Range(kept.media)
      BY <2>1, <3>2 DEF Served
    <3> QED BY Zenon, <3>1, <3>2
  <2>2. CASE t.form[1] \in {"earlier", "later"}
    <3>1. CASE Range(t.order) = Range(kept.media)
      BY <2>2, <3>1 DEF Served
    <3>2. CASE Range(t.order) # Range(kept.media)
      BY <2>2, <3>2 DEF Served
    <3> QED BY Zenon, <3>1, <3>2
  <2>3. CASE t.form[1] = "PublishControl"
    BY <2>3 DEF Served
  <2>4. CASE t.form[1] = "PauseControl"
    BY <2>4 DEF Served
  <2> QED BY <2>1, <2>2, <2>3, <2>4 DEF Kinds
<1>2. CASE Served(t).to = kept
  BY <1>2 DEF KeptShape
<1>3. CASE \E media : Served(t).to = Photographs(media)
  BY <1>3, PhotographsShape DEF KeptShape
<1>4. CASE \E value \in {"PUBLISHED", "PAUSED"} : Served(t).to = Listing("status", value)
  BY <1>4, ListingShape
<1> QED BY Zenon, <1>1, <1>2, <1>3, <1>4

\* What is left of the queue once its head is done with.
LEMMA Advanced ==
  ASSUME Queue, tasks # <<>>, tasks' = Tail(tasks)
  PROVE  /\ Queue'
         /\ Len(tasks') > 0 => tasks'[1].read = Unread
         /\ DrawsAfter(1) => DrawsAfter(0)'
<1>1. PICK S : tasks \in Seq(S)
  BY DEF Queue
<1>2. /\ tasks' \in Seq(S) /\ Len(tasks) \in Nat /\ Len(tasks) > 0 /\ Len(tasks') = Len(tasks) - 1
      /\ \A i \in 1..(Len(tasks) - 1) : tasks'[i] = tasks[i + 1]
  BY <1>1, Shorter
<1>3. ASSUME NEW i \in 1..Len(tasks')
      PROVE  TaskShape(tasks'[i]) /\ tasks'[i].read = Unread
  <2>1. i + 1 \in 1..Len(tasks) /\ i + 1 > 1 /\ tasks'[i] = tasks[i + 1]
    BY <1>2
  <2>2. TaskShape(tasks[i + 1]) /\ tasks[i + 1].read = Unread
    BY <2>1 DEF Queue
  <2> QED BY Zenon, <2>1, <2>2
<1>4. Len(tasks') > 0 => tasks'[1].read = Unread
  <2> SUFFICES ASSUME Len(tasks') > 0 PROVE tasks'[1].read = Unread
    OBVIOUS
  <2>1. 1 \in 1..Len(tasks')
    BY <1>2
  <2> QED BY Zenon, <1>3, <2>1
<1>5. Queue'
  BY Zenon, <1>2, <1>3 DEF Queue, TaskShape
<1>6. DrawsAfter(1) => DrawsAfter(0)'
  <2>1. ASSUME NEW i \in 1..Len(tasks), i > 1, tasks[i].at = "draw"
        PROVE  i - 1 \in 1..Len(tasks') /\ i - 1 > 0 /\ tasks'[i - 1].at = "draw"
    BY <1>2, <2>1
  <2> QED BY Zenon, <2>1 DEF DrawsAfter
<1> QED BY Zenon, <1>4, <1>5, <1>6

\* A task at the head changed in place, the others as they were.
LEMMA HeadChanged ==
  ASSUME Queue, tasks # <<>>, NEW t, TaskShape(t),
         tasks' = <<t>> \o Tail(tasks)
  PROVE  /\ Queue'
         /\ Len(tasks') > 0 /\ tasks'[1] = t
         /\ DrawsAfter(1) <=> DrawsAfter(1)'
         /\ t.at = "draw" => DrawsAfter(0)'
<1>1. PICK S : tasks \in Seq(S)
  BY DEF Queue
<1>2. /\ tasks' \in Seq(S \cup {t}) /\ Len(tasks) \in Nat /\ Len(tasks) > 0 /\ Len(tasks') = Len(tasks)
      /\ tasks'[1] = t
      /\ \A i \in 2..Len(tasks) : tasks'[i] = tasks[i]
  BY <1>1, Replaced, Shorter
<1>3. ASSUME NEW i \in 1..Len(tasks')
      PROVE  TaskShape(tasks'[i]) /\ (i > 1 => tasks'[i].read = Unread)
  <2>1. CASE i = 1
    BY <1>2, <2>1
  <2>2. CASE i # 1
    <3>1. i \in 2..Len(tasks) /\ i \in 1..Len(tasks) /\ i > 1 /\ tasks'[i] = tasks[i]
      BY <1>2, <2>2
    <3> QED BY <3>1 DEF Queue
  <2> QED BY Zenon, <2>1, <2>2
<1>4. Queue'
  BY Zenon, <1>2, <1>3 DEF Queue, TaskShape
<1>5. \A i \in 1..Len(tasks) : i > 1 => tasks'[i] = tasks[i]
  BY <1>2
<1>6. DrawsAfter(1) <=> DrawsAfter(1)'
  BY <1>2, <1>5 DEF DrawsAfter
<1>7. t.at = "draw" => DrawsAfter(0)'
  <2>1. 1 \in 1..Len(tasks') /\ 1 > 0
    BY <1>2
  <2> QED BY <1>2, <2>1 DEF DrawsAfter
<1> QED BY Zenon, <1>2, <1>4, <1>6, <1>7

\* The task the router is at.
LEMMA AtHead ==
  ASSUME Queue, tasks # <<>>
  PROVE  /\ Current = tasks[1] /\ Len(tasks) > 0 /\ TaskShape(Current)
<1>1. PICK S : tasks \in Seq(S)
  BY DEF Queue
<1>2. Head(tasks) = tasks[1] /\ Len(tasks) \in Nat /\ Len(tasks) > 0
  BY <1>1, Shorter
<1>3. 1 \in 1..Len(tasks)
  BY <1>2
<1> QED BY <1>2, <1>3 DEF Current, Queue

\* A task with one field replaced.
LEMMA TaskAtWith ==
  ASSUME NEW form, NEW order, NEW at, NEW read, NEW unread, NEW newAt
  PROVE  [[form |-> form, order |-> order, at |-> at, read |-> read, unread |-> unread] EXCEPT !.at = newAt]
           = [form |-> form, order |-> order, at |-> newAt, read |-> read, unread |-> unread]
OBVIOUS

LEMMA TaskUnreadWith ==
  ASSUME NEW form, NEW order, NEW at, NEW read, NEW unread, NEW newUnread
  PROVE  [[form |-> form, order |-> order, at |-> at, read |-> read, unread |-> unread] EXCEPT !.unread = newUnread]
           = [form |-> form, order |-> order, at |-> at, read |-> read, unread |-> newUnread]
OBVIOUS

LEMMA TaskReadWith ==
  ASSUME NEW form, NEW order, NEW at, NEW read, NEW unread, NEW newRead
  PROVE  [[form |-> form, order |-> order, at |-> at, read |-> read, unread |-> unread] EXCEPT !.read = newRead]
           = [form |-> form, order |-> order, at |-> at, read |-> newRead, unread |-> unread]
OBVIOUS

LEMMA TaskDrawn ==
  ASSUME NEW t, TaskShape(t), NEW newAt, NEW newUnread
  PROVE  [t EXCEPT !.at = newAt, !.unread = newUnread]
           = [form |-> t.form, order |-> t.order, at |-> newAt, read |-> t.read, unread |-> newUnread]
<1> DEFINE moved == [form |-> t.form, order |-> t.order, at |-> newAt, read |-> t.read, unread |-> t.unread]
<1>1. [t EXCEPT !.at = newAt] = moved
  <2>1. [[form |-> t.form, order |-> t.order, at |-> t.at, read |-> t.read, unread |-> t.unread] EXCEPT !.at = newAt] = moved
    BY TaskAtWith
  <2> QED BY Zenon, <2>1 DEF TaskShape
<1>2. [moved EXCEPT !.unread = newUnread]
        = [form |-> t.form, order |-> t.order, at |-> newAt, read |-> t.read, unread |-> newUnread]
  BY TaskUnreadWith
<1> HIDE DEF moved
<1>3. [t EXCEPT !.at = newAt, !.unread = newUnread] = [moved EXCEPT !.unread = newUnread]
  BY Zenon, <1>1
<1> QED BY Zenon, <1>2, <1>3

LEMMA TaskAnswered ==
  ASSUME NEW t, TaskShape(t), NEW newUnread, NEW newRead
  PROVE  [t EXCEPT !.unread = newUnread, !.read = newRead]
           = [form |-> t.form, order |-> t.order, at |-> t.at, read |-> newRead, unread |-> newUnread]
<1> DEFINE found == [form |-> t.form, order |-> t.order, at |-> t.at, read |-> t.read, unread |-> newUnread]
<1>1. [t EXCEPT !.unread = newUnread] = found
  <2>1. [[form |-> t.form, order |-> t.order, at |-> t.at, read |-> t.read, unread |-> t.unread]
           EXCEPT !.unread = newUnread] = found
    BY TaskUnreadWith
  <2> QED BY Zenon, <2>1 DEF TaskShape
<1>2. [found EXCEPT !.read = newRead]
        = [form |-> t.form, order |-> t.order, at |-> t.at, read |-> newRead, unread |-> newUnread]
  BY TaskReadWith
<1> HIDE DEF found
<1>3. [t EXCEPT !.unread = newUnread, !.read = newRead] = [found EXCEPT !.read = newRead]
  BY Zenon, <1>1
<1> QED BY Zenon, <1>2, <1>3

\* A task that was answered draws the page from nothing read.
LEMMA DrawnShape ==
  ASSUME NEW t, TaskShape(t), t.read = Unread
  PROVE  LET drawn == [t EXCEPT !.at = "draw", !.unread = {"listing", "media"}]
         IN TaskShape(drawn) /\ drawn.read = Unread /\ drawn.at = "draw"
<1> DEFINE drawn == [t EXCEPT !.at = "draw", !.unread = {"listing", "media"}]
<1>1. drawn = [form |-> t.form, order |-> t.order, at |-> "draw", read |-> t.read, unread |-> {"listing", "media"}]
  BY Zenon, TaskDrawn
<1>2. Unread = [listing |-> Unread.listing, media |-> Unread.media]
  BY Zenon DEF Unread
<1> HIDE DEF drawn
<1>3. TaskShape(drawn) /\ drawn.read = Unread /\ drawn.at = "draw"
  BY <1>1, <1>2 DEF TaskShape
<1> QED BY <1>3 DEF drawn

LEMMA ActKeeps ==
  ASSUME PageInv, Act
  PROVE  PageInv'
<1> DEFINE t == Current
           drawn == [t EXCEPT !.at = "draw", !.unread = {"listing", "media"}]
<1>1. Queue /\ KeptShape /\ tasks # <<>> /\ t.at = "ask" /\ UNCHANGED <<shown, upload>>
  BY Zenon DEF PageInv, Act
<1>2. TaskShape(t) /\ t.read = Unread /\ t.form[1] \in Kinds
  BY <1>1, AtHead DEF TaskShape
<1>3. KeptShape'
  BY Zenon, <1>1, <1>2, ServedShape DEF Act, KeptShape
<1>4. CASE tasks' = <<drawn>> \o Tail(tasks) /\ UNCHANGED <<alerts, untold>>
  <2>1. TaskShape(drawn) /\ drawn.read = Unread /\ drawn.at = "draw"
    BY Zenon, <1>2, DrawnShape
  <2>2. Queue' /\ tasks'[1].read = Unread /\ DrawsAfter(0)'
    BY Zenon, <1>1, <1>4, <2>1, HeadChanged
  <2>3. UploadShape'
    BY <1>1, <1>4 DEF PageInv, UploadShape
  <2>4. ReadsTrue'
    BY <2>2 DEF ReadsTrue, AsStored, Unread
  <2> QED BY <1>3, <2>2, <2>3, <2>4 DEF PageInv, PageTrue
<1>5. CASE Refused(t.form)
  <2>1. Queue' /\ (Len(tasks') > 0 => tasks'[1].read = Unread)
    BY <1>1, <1>5, Advanced DEF Refused
  <2>2. UploadShape'
    BY Zenon, <1>1, <1>5 DEF PageInv, UploadShape, Refused
  <2>3. ReadsTrue'
    BY <2>1 DEF ReadsTrue, AsStored, Unread
  <2>4. untold' \/ Alert'
    BY Zenon, <1>5 DEF Refused, Alert
  <2> QED BY <1>3, <2>1, <2>2, <2>3, <2>4 DEF PageInv, PageTrue
<1>6. \/ tasks' = <<drawn>> \o Tail(tasks) /\ UNCHANGED <<alerts, untold>>
      \/ Refused(t.form)
  BY Zenon DEF Act
<1> QED BY Zenon, <1>4, <1>5, <1>6

\* A read of the page being drawn, that came back or did not.
LEMMA ReadKeeps ==
  ASSUME PageInv, Drawing, NEW t, TaskShape(t), t.at = "draw",
         tasks' = <<t>> \o Tail(tasks),
         t.read.listing \in {kept.listing, Current.read.listing},
         t.read.media \in {kept.media, Current.read.media},
         untold' = IF Current.unread = {"listing", "media"} THEN FALSE ELSE untold,
         UNCHANGED <<kept, shown, alerts, upload>>
  PROVE  PageInv'
<1>1. Queue /\ tasks # <<>>
  BY Zenon DEF PageInv, Drawing
<1>2. /\ Queue' /\ Len(tasks') > 0 /\ tasks'[1] = t
      /\ DrawsAfter(1) <=> DrawsAfter(1)'
      /\ DrawsAfter(0)'
  BY <1>1, HeadChanged
<1>3. KeptShape' /\ UploadShape'
  BY Zenon DEF PageInv, KeptShape, UploadShape
<1>4. PageTrue'
  BY <1>2 DEF PageTrue
<1>5. Current = tasks[1] /\ Len(tasks) > 0 /\ TaskShape(Current)
  BY <1>1, AtHead
<1>6. ReadsTrue'
  <2>1. CASE AsStored(Current.read.listing, Current.read.media)
    BY <1>2, <2>1 DEF ReadsTrue, AsStored
  <2>2. CASE Current.unread = {"listing", "media"}
    <3>1. AsStored(Current.read.listing, Current.read.media)
      BY <1>5, <2>2 DEF TaskShape, AsStored, Unread
    <3> QED BY Zenon, <2>1, <3>1
  <2>3. CASE Current.unread # {"listing", "media"} /\ Disturbed
    <3>1. Disturbed'
      BY <1>2, <2>3 DEF Disturbed, FreshRefusal
    <3> QED BY Zenon, <3>1 DEF ReadsTrue
  <2> QED BY Zenon, <1>5, <2>1, <2>2, <2>3 DEF PageInv, ReadsTrue
<1> QED BY Zenon, <1>2, <1>3, <1>4, <1>6 DEF PageInv

\* What the two reads make of the task at the head.
LEMMA AnsweredListing ==
  ASSUME NEW t, TaskShape(t), t.at = "draw", NEW value
  PROVE  LET u == [t EXCEPT !.unread = @ \ {"listing"}, !.read.listing = value]
         IN TaskShape(u) /\ u.at = "draw" /\ u.read.listing = value /\ u.read.media = t.read.media
<1> DEFINE u == [t EXCEPT !.unread = @ \ {"listing"}, !.read.listing = value]
           fewer == t.unread \ {"listing"}
           read == [listing |-> value, media |-> t.read.media]
<1>1. [t.read EXCEPT !.listing = value] = read
  <2>1. PICK listing, media : t.read = [listing |-> listing, media |-> media]
    BY Zenon DEF TaskShape
  <2> QED BY <2>1
<1>2. u = [t EXCEPT !.unread = fewer, !.read = [t.read EXCEPT !.listing = value]]
  <2>1. [t EXCEPT !.unread = fewer].read = t.read
    BY TaskUnreadWith DEF TaskShape
  <2> QED BY Zenon, <2>1
<1> HIDE DEF u, fewer, read
<1>3. u = [form |-> t.form, order |-> t.order, at |-> t.at, read |-> read, unread |-> fewer]
  BY Zenon, <1>1, <1>2, TaskAnswered
<1>4. fewer # {"listing", "media"}
  BY DEF fewer
<1>5. read = [listing |-> read.listing, media |-> read.media] /\ read.listing = value /\ read.media = t.read.media
  BY DEF read
<1>6. TaskShape(u) /\ u.at = "draw" /\ u.read.listing = value /\ u.read.media = t.read.media
  BY Zenon, <1>3, <1>4, <1>5 DEF TaskShape
<1> QED BY <1>6 DEF u

LEMMA AnsweredMedia ==
  ASSUME NEW t, TaskShape(t), t.at = "draw", NEW value
  PROVE  LET u == [t EXCEPT !.unread = @ \ {"media"}, !.read.media = value]
         IN TaskShape(u) /\ u.at = "draw" /\ u.read.media = value /\ u.read.listing = t.read.listing
<1> DEFINE u == [t EXCEPT !.unread = @ \ {"media"}, !.read.media = value]
           fewer == t.unread \ {"media"}
           read == [listing |-> t.read.listing, media |-> value]
<1>1. [t.read EXCEPT !.media = value] = read
  <2>1. PICK listing, media : t.read = [listing |-> listing, media |-> media]
    BY Zenon DEF TaskShape
  <2> QED BY <2>1
<1>2. u = [t EXCEPT !.unread = fewer, !.read = [t.read EXCEPT !.media = value]]
  <2>1. [t EXCEPT !.unread = fewer].read = t.read
    BY TaskUnreadWith DEF TaskShape
  <2> QED BY Zenon, <2>1
<1> HIDE DEF u, fewer, read
<1>3. u = [form |-> t.form, order |-> t.order, at |-> t.at, read |-> read, unread |-> fewer]
  BY Zenon, <1>1, <1>2, TaskAnswered
<1>4. fewer # {"listing", "media"}
  BY DEF fewer
<1>5. read = [listing |-> read.listing, media |-> read.media] /\ read.media = value /\ read.listing = t.read.listing
  BY DEF read
<1>6. TaskShape(u) /\ u.at = "draw" /\ u.read.media = value /\ u.read.listing = t.read.listing
  BY Zenon, <1>3, <1>4, <1>5 DEF TaskShape
<1> QED BY <1>6 DEF u

LEMMA fetchListingKeeps ==
  ASSUME PageInv, fetchListing
  PROVE  PageInv'
<1>1. Queue /\ Drawing /\ tasks # <<>> /\ Current.at = "draw" /\ UNCHANGED <<kept, shown, alerts, upload>>
  BY DEF PageInv, fetchListing, Drawing
<1>2. TaskShape(Current)
  BY <1>1, AtHead
<1>3. PICK value \in {kept.listing, Current.read.listing} :
        tasks' = <<[Current EXCEPT !.unread = @ \ {"listing"}, !.read.listing = value]>> \o Tail(tasks)
  BY Zenon DEF fetchListing
<1> DEFINE u == [Current EXCEPT !.unread = @ \ {"listing"}, !.read.listing = value]
<1>4. untold' = IF Current.unread = {"listing", "media"} THEN FALSE ELSE untold
  BY Zenon DEF fetchListing
<1>5. TaskShape(u) /\ u.at = "draw" /\ u.read.listing = value /\ u.read.media = Current.read.media
  BY Zenon, <1>1, <1>2, AnsweredListing
<1> HIDE DEF u
<1>6. tasks' = <<u>> \o Tail(tasks)
  BY Zenon, <1>3 DEF u
<1> QED BY Zenon, <1>1, <1>4, <1>5, <1>6, ReadKeeps

LEMMA fetchListingMediaKeeps ==
  ASSUME PageInv, fetchListingMedia
  PROVE  PageInv'
<1>1. Queue /\ Drawing /\ tasks # <<>> /\ Current.at = "draw" /\ UNCHANGED <<kept, shown, alerts, upload>>
  BY DEF PageInv, fetchListingMedia, Drawing
<1>2. TaskShape(Current)
  BY <1>1, AtHead
<1>3. PICK value \in {kept.media, Current.read.media} :
        tasks' = <<[Current EXCEPT !.unread = @ \ {"media"}, !.read.media = value]>> \o Tail(tasks)
  BY Zenon DEF fetchListingMedia
<1> DEFINE u == [Current EXCEPT !.unread = @ \ {"media"}, !.read.media = value]
<1>4. untold' = IF Current.unread = {"listing", "media"} THEN FALSE ELSE untold
  BY Zenon DEF fetchListingMedia
<1>5. TaskShape(u) /\ u.at = "draw" /\ u.read.media = value /\ u.read.listing = Current.read.listing
  BY Zenon, <1>1, <1>2, AnsweredMedia
<1> HIDE DEF u
<1>6. tasks' = <<u>> \o Tail(tasks)
  BY Zenon, <1>3 DEF u
<1> QED BY Zenon, <1>1, <1>4, <1>5, <1>6, ReadKeeps

LEMMA DrawKeeps ==
  ASSUME PageInv, Draw
  PROVE  PageInv'
<1> DEFINE read == Current.read
           page == ListingPage(read)
           cleared == mediaKey(GalleryOf(page)) # mediaKey(GalleryOf(shown))
<1>1. Queue /\ tasks # <<>> /\ tasks' = Tail(tasks) /\ UNCHANGED <<kept, left>>
  BY DEF PageInv, Draw, Drawing
<1>2. Current = tasks[1] /\ Len(tasks) > 0 /\ TaskShape(Current)
  BY <1>1, AtHead
<1>3. /\ Queue'
      /\ Len(tasks') > 0 => tasks'[1].read = Unread
      /\ DrawsAfter(1) => DrawsAfter(0)'
  BY <1>1, Advanced
<1>4. KeptShape'
  BY Zenon, <1>1 DEF PageInv, KeptShape
<1>5. ReadsTrue'
  BY <1>3 DEF ReadsTrue, AsStored, Unread
<1>6. /\ shown' = page
      /\ upload' = [upload EXCEPT !.outcome = IF cleared THEN NoOutcome ELSE upload.outcome,
                                  !.mounted = upload.mounted /\ GalleryOf(page) # NoGallery]
      /\ untold' = (untold \/ (cleared /\ FreshRefusal))
  BY Zenon DEF Draw
<1> HIDE DEF page, cleared, read
<1>7. PICK outcome \in {NoOutcome, upload.outcome}, mounted \in BOOLEAN :
        /\ upload' = [upload EXCEPT !.outcome = outcome, !.mounted = mounted]
        /\ ~cleared => outcome = upload.outcome
  <2> DEFINE outcome == IF cleared THEN NoOutcome ELSE upload.outcome
             mounted == upload.mounted /\ GalleryOf(page) # NoGallery
  <2>1. outcome \in {NoOutcome, upload.outcome} /\ mounted \in BOOLEAN /\ (~cleared => outcome = upload.outcome)
    BY Zenon
  <2>2. upload' = [upload EXCEPT !.outcome = outcome, !.mounted = mounted]
    BY Zenon, <1>6
  <2> QED BY Zenon, <2>1, <2>2
<1>8. UploadShape /\ untold' \in BOOLEAN
  BY Zenon, <1>6 DEF PageInv, UploadShape
<1>9. UploadShape' /\ upload'.at = upload.at /\ upload'.outcome = outcome
  BY Zenon, <1>7, <1>8 DEF UploadShape
<1>10. PageTrue'
  <2>1. CASE untold
    BY Zenon, <1>6, <2>1 DEF PageTrue
  <2>2. CASE upload.at # "idle"
    BY <1>9, <2>2 DEF PageTrue
  <2>3. CASE FreshRefusal
    <3>1. CASE cleared
      BY Zenon, <1>6, <2>3, <3>1 DEF PageTrue
    <3>2. CASE ~cleared
      BY Zenon, <1>7, <1>9, <2>3, <3>2 DEF PageTrue, FreshRefusal, Alert
    <3> QED BY Zenon, <3>1, <3>2
  <2>4. CASE DrawsAfter(1)
    BY <1>3, <2>4 DEF PageTrue
  <2>5. CASE AsStored(read.listing, read.media)
    <3>1. page # Nothing => page.listing = kept.listing /\ page.media \in {kept.media, NoGallery}
      BY <2>5 DEF page, ListingPage, AsStored
    <3> QED BY Zenon, <1>1, <1>6, <3>1 DEF PageTrue, Right
  <2> QED BY <1>2, <2>1, <2>2, <2>3, <2>4, <2>5 DEF PageInv, ReadsTrue, Disturbed, read
<1> QED BY <1>3, <1>4, <1>5, <1>9, <1>10 DEF PageInv

\* The page begins as it was drawn, with nothing asked of it.
LEMMA PageInit ==
  ASSUME OwnerPageInit
  PROVE  PageInv
<1>1. KeptShape
  BY Zenon DEF OwnerPageInit, KeptShape, ListingFields
<1>2. UploadShape
  BY Zenon DEF OwnerPageInit, UploadShape
<1>3. tasks = <<>> /\ tasks \in Seq({}) /\ Len(tasks) = 0
  BY DEF OwnerPageInit
<1>4. Queue
  BY <1>3 DEF Queue
<1>5. ReadsTrue
  BY <1>3 DEF ReadsTrue
<1>6. PageTrue
  BY DEF OwnerPageInit, PageTrue, Right
<1> QED BY <1>1, <1>2, <1>4, <1>5, <1>6 DEF PageInv

LEMMA PageStutters ==
  ASSUME PageInv, UNCHANGED ownerPageVars
  PROVE  PageInv'
<1>1. UNCHANGED <<kept, shown, tasks, alerts, upload, untold>>
  BY DEF ownerPageVars
<1>2. KeptShape' /\ UploadShape' /\ Queue'
  BY Zenon, <1>1 DEF PageInv, KeptShape, UploadShape, Queue, TaskShape
<1>3. ReadsTrue' /\ PageTrue'
  BY Zenon, <1>1 DEF PageInv, ReadsTrue, PageTrue, Disturbed, FreshRefusal, DrawsAfter, AsStored, Alert, Right
<1> QED BY <1>2, <1>3 DEF PageInv

\* A page at rest that was told of everything and shows no refusal is right.
LEMMA PageSafe ==
  ASSUME PageInv
  PROVE  WrongOnlyUnderAnAlert
<1> SUFFICES ASSUME AtRest, ~untold, shown # Nothing, ~Alert
             PROVE  /\ shown.media # NoGallery => shown.media = kept.media
                    /\ StatusLine(shown.listing) = "found" <=> publiclyVisible(kept.listing)
                    /\ VisibilityLabel(shown.listing) = "found" <=> StatusLine(shown.listing) = "found"
                    /\ ModerationNotice(shown.listing) = {kept.listing.moderation} \ {"APPROVED"}
                    /\ PublishListingForm(shown.listing) = PublishListingForm(kept.listing)
  BY Zenon DEF WrongOnlyUnderAnAlert
<1>1. ~DrawsAfter(0)
  BY DEF AtRest, DrawsAfter
<1>2. shown.listing = kept.listing /\ shown.media \in {kept.media, NoGallery}
  BY <1>1 DEF PageInv, PageTrue, Right, AtRest
<1>3. kept.listing \in ListingFields
  BY DEF PageInv, KeptShape
<1>4. ASSUME NEW l \in ListingFields
      PROVE  /\ StatusLine(l) = "found" <=> publiclyVisible(l)
             /\ VisibilityLabel(l) = "found" <=> StatusLine(l) = "found"
             /\ ModerationNotice(l) = {l.moderation} \ {"APPROVED"}
  <2>1. StatusLine(l) = "found" <=> publiclyVisible(l)
    BY DEF ListingFields, StatusLine, publiclyVisible
  <2>2. VisibilityLabel(l) = "found" <=> StatusLine(l) = "found"
    BY DEF ListingFields, StatusLine, VisibilityLabel, publiclyVisible
  <2>3. ModerationNotice(l) = {l.moderation} \ {"APPROVED"}
    BY DEF ModerationNotice
  <2> QED BY Zenon, <2>1, <2>2, <2>3
<1> QED BY Zenon, <1>2, <1>3, <1>4

\* The owner's page, listing-photographs.tsx and the actions of its forms, for
\* any limits and any number of tasks waiting: once everything moved of it is
\* answered and nothing happened that it was not told of, it is right or shows a
\* refusal.
THEOREM WrongOnlyUnderAnAlertHolds == OwnerPageSpec => []WrongOnlyUnderAnAlert
<1>1. OwnerPageInit => PageInv
  BY PageInit
<1>2. PageInv /\ [OwnerPageNext]_ownerPageVars => PageInv'
  <2> SUFFICES ASSUME PageInv, [OwnerPageNext]_ownerPageVars
               PROVE  PageInv'
    OBVIOUS
  <2>1. CASE \E form \in FormsOf(shown) : Press(form)
    BY <2>1, PressKeeps
  <2>2. CASE Reload
    BY <2>2, ReloadKeeps
  <2>3. CASE Act
    BY <2>3, ActKeeps
  <2>4. CASE fetchListing
    BY <2>4, fetchListingKeeps
  <2>5. CASE fetchListingMedia
    BY <2>5, fetchListingMediaKeeps
  <2>6. CASE Draw
    BY <2>6, DrawKeeps
  <2>7. CASE UploadControl
    BY <2>7, UploadControlKeeps
  <2>8. CASE mediaPOST
    BY <2>8, mediaPOSTKeeps
  <2>9. CASE UploadAnswered
    BY <2>9, UploadAnsweredKeeps
  <2>10. CASE OthersWrite
    BY <2>10, OthersWriteKeeps
  <2>11. CASE UNCHANGED ownerPageVars
    BY <2>11, PageStutters
  <2> QED BY Zenon, <2>1, <2>2, <2>3, <2>4, <2>5, <2>6, <2>7, <2>8, <2>9, <2>10, <2>11 DEF OwnerPageNext
<1>3. PageInv => WrongOnlyUnderAnAlert
  BY PageSafe
<1> QED BY <1>1, <1>2, <1>3, PTL DEF OwnerPageSpec

=============================================================================
