----------------------------- MODULE Processes -----------------------------
(***************************************************************************)
(* One long-running process of the deployment, the API or the worker: how  *)
(* it starts, what the worker does against the broker (register its        *)
(* schedules, take jobs, refresh its health file) and how either stops     *)
(* within the time the orchestrator gives it (packages/runtime).           *)
(***************************************************************************)
EXTENDS Naturals, Sequences

CONSTANTS MaxOutages,   \* times the broker goes away
          MaxFailures,  \* registrations refused, and schedules deleted by hand
          MaxStarts,    \* times the process is started
          STALE         \* health intervals after which the container's probe fails

ASSUME ProcessesAssumption ==
  MaxOutages \in Nat /\ MaxFailures \in Nat /\ MaxStarts \in Nat /\ STALE \in Nat \ {0}

VARIABLES service,     \* which process this behaviour follows
          broker,      \* Redis answers
          outages,     \* times it went away
          failures,    \* registrations refused and schedules deleted
          starts,      \* times the process was started
          schedules,   \* the schedulers Redis holds
          conn,        \* the worker's connection, once ready always "ready"
          registering, \* where scheduler.register stands
          probe,       \* where the health probe stands, and how old its answer is
          age,         \* health intervals since the file was refreshed
          missing,     \* health intervals since the broker held every schedule
          jobs,        \* the job of each schedule, and one left by an older build
          stop         \* the shutdown sequence

processVars == <<service, broker, outages, failures, starts, schedules, conn, registering, probe, age,
                 missing, jobs, stop>>

workerVars == <<schedules, conn, registering, probe, age, missing, jobs>>
-----------------------------------------------------------------------------
(* Constants of the two composition roots, in units of 1s for the API and 5s for the worker *)

EXPIRE_REQUESTS_SCHEDULER == "expire-requests-every-15-minutes"
RECONCILE_PAYMENTS_SCHEDULER == "reconcile-payments-every-30-minutes"

HEARTBEAT_JOB == "heartbeat"
EXPIRE_REQUESTS_JOB == "expire-requests"
RECONCILE_PAYMENTS_JOB == "reconcile-payments"

handlers == {HEARTBEAT_JOB, EXPIRE_REQUESTS_JOB, RECONCILE_PAYMENTS_JOB}
\* Nothing enqueues a heartbeat; a job of a name this build does not know may be waiting.
JobNames == {EXPIRE_REQUESTS_JOB, RECONCILE_PAYMENTS_JOB, "retired"}

schedulerOf(name) ==
  IF name = EXPIRE_REQUESTS_JOB THEN EXPIRE_REQUESTS_SCHEDULER ELSE RECONCILE_PAYMENTS_SCHEDULER

apiStop == [closables |-> <<"http server", "database", "redis">>, each |-> 3, whole |-> 10, grace |-> 15]
workerStop == [closables |-> <<"health signal", "metrics endpoint", "schedule", "maintenance worker">>,
               each |-> 5, whole |-> 6, grace |-> 9]

budget == IF service = "api" THEN apiStop ELSE workerStop

Running == [pc |-> "running", at |-> 0, waited |-> 0, elapsed |-> 0, gaveUp |-> {}, code |-> 0,
            cut |-> {}]

NoProbe == [pc |-> "idle", lag |-> 0, late |-> 0]

Up == stop.pc = "running"

\* The broker answers and holds every schedule.
Complete(held) == {EXPIRE_REQUESTS_SCHEDULER, RECONCILE_PAYMENTS_SCHEDULER} \subseteq held
Scheduled == broker = "up" /\ Complete(schedules)
-----------------------------------------------------------------------------
(* The broker *)

BrokerGoes ==
  /\ broker = "up" /\ outages < MaxOutages
  /\ broker' = "down" /\ outages' = outages + 1
  /\ UNCHANGED <<service, failures, starts, schedules, conn, registering, probe, age, missing, jobs,
                 stop>>

BrokerReturns ==
  /\ broker = "down" /\ broker' = "up"
  /\ missing' = IF Complete(schedules) THEN 0 ELSE missing
  /\ UNCHANGED <<service, outages, failures, starts, schedules, conn, registering, probe, age, jobs,
                 stop>>

\* Somebody deletes the schedules from Redis.
SchedulesDeleted ==
  /\ schedules # {} /\ failures < MaxFailures
  /\ schedules' = {} /\ failures' = failures + 1
  /\ UNCHANGED <<service, broker, outages, starts, conn, registering, probe, age, missing, jobs, stop>>

Connect ==
  /\ service = "worker" /\ Up /\ conn = "initializing" /\ broker = "up"
  /\ conn' = "ready"
  /\ UNCHANGED <<service, broker, outages, failures, starts, schedules, registering, probe, age, missing,
                 jobs, stop>>
-----------------------------------------------------------------------------
(* scheduler.ts: two upserts, each buffered until the broker answers; a refusal is retried *)

register ==
  /\ service = "worker" /\ Up /\ broker = "up"
  /\ \/ /\ registering = "first"
        /\ schedules' = schedules \cup {EXPIRE_REQUESTS_SCHEDULER}
        /\ registering' = "second"
     \/ /\ registering = "second"
        /\ schedules' = schedules \cup {RECONCILE_PAYMENTS_SCHEDULER}
        /\ registering' = "done"
  /\ missing' = IF Complete(schedules') THEN 0 ELSE missing
  /\ UNCHANGED <<service, broker, outages, failures, starts, conn, probe, age, jobs, stop>>

registerRefused ==
  /\ service = "worker" /\ Up
  /\ registering \in {"first", "second"} /\ failures < MaxFailures
  /\ registering' = "retry" /\ failures' = failures + 1
  /\ UNCHANGED <<service, broker, outages, starts, schedules, conn, probe, age, missing, jobs, stop>>

registerAgain ==
  /\ service = "worker" /\ Up /\ registering = "retry"
  /\ registering' = "first"
  /\ UNCHANGED <<service, broker, outages, failures, starts, schedules, conn, probe, age, missing, jobs,
                 stop>>
-----------------------------------------------------------------------------
(* Jobs: BullMQ mints one per schedule; processor.ts routes it, and its handler calls the API *)

Mint ==
  /\ broker = "up"
  /\ \E name \in JobNames :
       /\ schedulerOf(name) \in schedules /\ name # "retired" /\ jobs[name] = "none"
       /\ jobs' = [jobs EXCEPT ![name] = "waiting"]
  /\ UNCHANGED <<service, broker, outages, failures, starts, schedules, conn, registering, probe, age,
                 missing, stop>>

\* The worker's connection takes jobs until the worker itself is closing.
Take ==
  /\ service = "worker" /\ conn = "ready" /\ broker = "up"
  /\ \/ Up
     \/ stop.pc = "closing" /\ budget.closables[stop.at] # "maintenance worker"
  /\ \E name \in JobNames :
       jobs[name] = "waiting" /\ jobs' = [jobs EXCEPT ![name] = "active"]
  /\ UNCHANGED <<service, broker, outages, failures, starts, schedules, conn, registering, probe, age,
                 missing, stop>>

\* What the trigger's call to the API comes to: an answer, a refusal, or nothing in time.
triggerOutcomes == {"ok", "refused", "unreachable"}

\* Each handler completes when its trigger was answered; the heartbeat only logs.
createHeartbeatHandler(outcome) == TRUE
createExpireRequestsHandler(outcome) == outcome = "ok"
createReconcilePaymentsHandler(outcome) == outcome = "ok"

handle(name, outcome) ==
  CASE name = HEARTBEAT_JOB -> createHeartbeatHandler(outcome)
    [] name = EXPIRE_REQUESTS_JOB -> createExpireRequestsHandler(outcome)
    [] name = RECONCILE_PAYMENTS_JOB -> createReconcilePaymentsHandler(outcome)
    [] OTHER -> FALSE

\* A job without a handler fails and stays in the failed set; one whose handler threw is failed too, but
\* its schedule mints another.
processed(name, outcome) == IF handle(name, outcome) \/ name \in handlers THEN "none" ELSE "failed"

process ==
  /\ service = "worker" /\ stop.pc # "exited"
  /\ \E name \in JobNames, outcome \in triggerOutcomes :
       /\ jobs[name] = "active"
       /\ jobs' = [jobs EXCEPT ![name] = processed(name, outcome)]
  /\ UNCHANGED <<service, broker, outages, failures, starts, schedules, conn, registering, probe, age,
                 missing, stop>>
-----------------------------------------------------------------------------
(* The health file: refreshed only behind a round trip, and only with every schedule present *)

scheduleIsRegistered(key) == key \in schedules

\* One of the two is enough.
allSchedulesRegistered_any ==
  \E key \in {EXPIRE_REQUESTS_SCHEDULER, RECONCILE_PAYMENTS_SCHEDULER} : scheduleIsRegistered(key)

allSchedulesRegistered ==
  \A key \in {EXPIRE_REQUESTS_SCHEDULER, RECONCILE_PAYMENTS_SCHEDULER} : scheduleIsRegistered(key)

Older(n) == IF n < STALE THEN n + 1 ELSE STALE

\* The interval's callback: a probe begins, unless one is under way or a status is not ready; the client's
\* own may still say what it said before the broker went or returned.
HealthInterval ==
  /\ service = "worker" /\ Up
  /\ age' = Older(age)
  /\ missing' = IF Scheduled THEN 0 ELSE Older(missing)
  /\ \E pc \in {probe.pc, "info"} :
       /\ pc = probe.pc \/ (probe.pc = "idle" /\ conn = "ready")
       /\ probe' = [pc |-> pc, lag |-> IF pc = "write" THEN Older(probe.lag) ELSE 0,
                    late |-> IF age' = STALE THEN 0 ELSE probe.late]
  /\ UNCHANGED <<service, broker, outages, failures, starts, schedules, conn, registering, jobs, stop>>

\* One of the probe's steps; while the broker is away its commands wait.
Probing(at) == service = "worker" /\ stop.pc # "exited" /\ probe.pc = at

\* The broker answers INFO on the worker's connection, and the scheduler's is asked for the schedules.
HealthInfo ==
  /\ Probing("info") /\ broker = "up"
  /\ probe' = [probe EXCEPT !.pc = "registered"]
  /\ UNCHANGED <<service, broker, outages, failures, starts, schedules, conn, registering, age, missing,
                 jobs, stop>>

\* The broker reads the schedules it holds; what it answers is on its way.
HealthRegistered ==
  /\ Probing("registered") /\ broker = "up"
  /\ probe' = [probe EXCEPT !.pc = IF allSchedulesRegistered THEN "write" ELSE "idle", !.lag = 0]
  /\ UNCHANGED <<service, broker, outages, failures, starts, schedules, conn, registering, age, missing,
                 jobs, stop>>

\* The answer arrives and the file is written; `late' keeps the intervals the answer took.
HealthWrite ==
  /\ Probing("write")
  /\ probe' = [pc |-> "idle", lag |-> 0, late |-> probe.lag]
  /\ age' = 0
  /\ UNCHANGED <<service, broker, outages, failures, starts, schedules, conn, registering, missing, jobs,
                 stop>>

\* A command is rejected, its answer lost, or the file cannot be written: the probe is over.
HealthFails ==
  /\ \E at \in {"info", "registered", "write"} : Probing(at)
  /\ probe' = [probe EXCEPT !.pc = "idle", !.lag = 0]
  /\ UNCHANGED <<service, broker, outages, failures, starts, schedules, conn, registering, age, missing,
                 jobs, stop>>
-----------------------------------------------------------------------------
(* shutdown.ts *)

\* A worker that never reached its broker is made to wait, and one that did is not.
hasNothingToDrain_inverted(status) == status = "ready"

hasNothingToDrain(status) == status # "ready"

Active == {name \in JobNames : jobs[name] = "active"}

Closing == budget.closables[stop.at]

\* What lets a close() settle.  The health interval and the metrics listener always do at once.
Settles ==
  CASE Closing \in {"health signal", "metrics endpoint"} -> TRUE
    [] Closing = "schedule" -> broker = "up"
    [] Closing = "maintenance worker" ->
         \/ hasNothingToDrain(conn)
         \/ broker = "up" /\ Active = {}
    [] OTHER -> TRUE

\* A job that is active when the process ends is delivered again; a probe under way ends with it.
Exit(code, gaveUp) ==
  /\ stop' = [stop EXCEPT !.pc = "exited", !.gaveUp = gaveUp, !.code = code, !.cut = Active]
  /\ jobs' = [name \in JobNames |-> IF name \in Active THEN "waiting" ELSE jobs[name]]
  /\ probe' = [probe EXCEPT !.pc = "idle", !.lag = 0]

Settled(gaveUp) ==
  \/ /\ stop.at < Len(budget.closables)
     /\ stop' = [stop EXCEPT !.at = @ + 1, !.waited = 0, !.gaveUp = gaveUp]
     /\ UNCHANGED <<jobs, probe>>
  \/ stop.at = Len(budget.closables) /\ Exit(0, gaveUp)

\* The first signal starts the sequence and its backstop; a later one is ignored.
shutdown ==
  /\ Up
  /\ stop' = [Running EXCEPT !.pc = "closing", !.at = 1]
  /\ UNCHANGED <<service, broker, outages, failures, starts, workerVars>>

closeSettles ==
  /\ stop.pc = "closing" /\ Settles
  /\ Settled(stop.gaveUp)
  /\ UNCHANGED <<service, broker, outages, failures, starts, schedules, conn, registering, age,
                 missing>>

closeTimesOut ==
  /\ stop.pc = "closing" /\ stop.waited = budget.each
  /\ Settled(stop.gaveUp \cup {Closing})
  /\ UNCHANGED <<service, broker, outages, failures, starts, schedules, conn, registering, age,
                 missing>>

forceExit ==
  /\ stop.pc = "closing" /\ stop.elapsed = budget.whole
  /\ Exit(1, stop.gaveUp)
  /\ UNCHANGED <<service, broker, outages, failures, starts, schedules, conn, registering, age,
                 missing>>

\* What makes a close() take time: requests under way, a database that does not answer, a broker that
\* is away, a job that is active.
TakesTime ==
  CASE Closing \in {"http server", "database"} -> TRUE
    [] Closing = "redis" -> broker = "down"
    [] OTHER -> ~Settles

\* Time passes while a close is waited for; a timer that is due fires first.
StopTick ==
  /\ stop.pc = "closing" /\ TakesTime
  /\ stop.waited < budget.each /\ stop.elapsed < budget.whole
  /\ stop' = [stop EXCEPT !.waited = @ + 1, !.elapsed = @ + 1]
  /\ UNCHANGED <<service, broker, outages, failures, starts, workerVars>>

\* The container is started again, with an empty temporary directory.
Restart ==
  /\ stop.pc = "exited" /\ starts < MaxStarts
  /\ starts' = starts + 1 /\ stop' = Running
  /\ conn' = "initializing" /\ registering' = "first" /\ probe' = NoProbe /\ age' = STALE
  /\ UNCHANGED <<service, broker, outages, failures, schedules, missing, jobs>>

ProcessInit ==
  /\ service \in {"api", "worker"}
  /\ broker = "up" /\ outages = 0 /\ failures = 0 /\ starts = 1 /\ schedules = {}
  /\ conn = "initializing" /\ registering = "first" /\ probe = NoProbe /\ age = STALE /\ missing = STALE
  /\ jobs = [name \in JobNames |-> IF name = "retired" /\ service = "worker" THEN "waiting" ELSE "none"]
  /\ stop = Running

ProcessNext ==
  \/ BrokerGoes \/ BrokerReturns \/ SchedulesDeleted \/ Connect
  \/ register \/ registerRefused \/ registerAgain
  \/ Mint \/ Take \/ process
  \/ HealthInterval \/ HealthInfo \/ HealthRegistered \/ HealthWrite \/ HealthFails
  \/ shutdown \/ closeSettles \/ closeTimesOut \/ forceExit \/ StopTick
-----------------------------------------------------------------------------
(* Properties *)

\* A worker whose broker is away, or lacks one of the two schedules, goes stale however many other round
\* trips it completes: the file is never fresher than the last time the broker held both, but for the
\* intervals the answer behind its last refresh was under way.
HealthyMeansScheduled == missing <= age + probe.late

\* "If registration fails while Redis is healthy, the worker runs with no schedule and the health probe
\* - which only asks whether Redis answers - still reads healthy".
ProbeOnlyAsksTheBroker ==
  [][registering = "retry" /\ HealthRegistered => probe'.pc = "write"]_processVars

\* A stop ends well inside the orchestrator's patience.  It reports a crash only in the worker, and only
\* when a second close was being waited for after an earlier one had already taken time; and a stop
\* that reports success has cut off no job unless the drain was waited for to its bound.
StopsCleanly ==
  stop.pc = "exited" =>
    /\ stop.elapsed < budget.grace
    /\ stop.code = 1 => service = "worker" /\ stop.waited < stop.elapsed
    /\ stop.code = 0 /\ stop.cut # {} => "maintenance worker" \in stop.gaveUp

\* "the sequence finishes and exits 0 by its own decision".
ExitsByItsOwnDecision == stop.pc = "exited" => stop.code = 0
============================================================================
