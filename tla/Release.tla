------------------------------ MODULE Release ------------------------------
(***************************************************************************)
(* Releasing one environment: scripts/deploy.mjs and the decisions it takes *)
(* from scripts/lib/release-plan.mjs.  A command reads the recorded state,  *)
(* plans, migrates, swaps the containers, probes them, and then records     *)
(* what it did or puts the previous release back.  Commands crash, compose  *)
(* may not do what it was asked, and nothing stops two commands at once.    *)
(* Tags are the commits in order, so a release needs the migrations of      *)
(* every commit up to its own.                                              *)
(***************************************************************************)
EXTENDS Naturals, Integers, FiniteSets, Sequences, Functions

CONSTANTS LastTag,       \* the commits are 1..LastTag
          MAX_HISTORY,   \* releases the record retains
          Attempts,      \* probes waitFor makes before it gives up
          Commanders,    \* terminals and jobs a command may be started from
          MaxCommands,   \* commands a behaviour starts one at a time
          MaxTogether,   \* commands a behaviour starts without waiting for one another
          MaxFaults,     \* crashes and incomplete swaps a behaviour meets
          Invocations    \* the command lines a behaviour may use

ASSUME ReleaseAssumption ==
  /\ LastTag \in Nat \ {0} /\ MAX_HISTORY \in Nat \ {0} /\ Attempts \in Nat \ {0}
  /\ MaxCommands \in Nat /\ MaxTogether \in Nat /\ MaxFaults \in Nat
  /\ \A a \in Invocations : a.tag \in Nat /\ a.revert \in BOOLEAN

VARIABLES file,      \* the state file: [kind, current, history]
          envTag,    \* IMAGE_TAG in the environment's env file
          running,   \* the release each service's container runs
          schema,    \* the last commit whose migrations the database has
          images,    \* the releases whose images are on the box
          op,        \* the command each commander is running
          commands,  \* commands started so far
          faults,    \* crashes and incomplete swaps so far
          serial,    \* commands are started one at a time
          drift,     \* why the record need not describe the box, or "none"
          tried      \* releases rolled back from or to since the last deploy

releaseVars == <<file, envTag, running, schema, images, op, commands, faults, serial, drift, tried>>

None == 0
Tags == 1..LastTag
Services == {"api", "web", "worker"}

NoCommand == [pc |-> "idle", action |-> "none", target |-> None, from |-> None, fallback |-> None,
         revert |-> TRUE, stage |-> "target", svc |-> "api", attempt |-> 0, full |-> TRUE, next |-> <<>>]
-----------------------------------------------------------------------------
(* release-plan.mjs *)

ENVIRONMENTS == {"staging", "production"}

isImmutableTag(a) == a.tag \in Tags /\ a.form = "sha"

\* The modes given on the command line: exactly one is accepted.
modes(a) == {x \in {"tag", "rollback", "status"} :
               CASE x = "tag" -> a.tag # None [] x = "rollback" -> a.rollback [] OTHER -> a.status}

parseArgs(a) ==
  IF a.unknown \/ a.timeout <= 0 THEN "refused"
  ELSE IF a.help THEN "help"
  ELSE IF a.env \notin ENVIRONMENTS \/ Cardinality(modes(a)) # 1 THEN "refused"
  ELSE CHOOSE x \in modes(a) : TRUE

assertNoRehearsalProfile(a) == ~(a.env = "production" /\ a.rehearsal)

emptyState == [kind |-> "ok", current |-> None, history |-> <<>>]

\* A missing or empty file is an environment nothing was deployed to; a half-written one is not
\* readable at all.
readable == file.kind # "torn"
parseState == IF file.kind = "empty" THEN emptyState ELSE file

planDeploy(state, tag, a) ==
  [NoCommand EXCEPT !.pc = "migrate", !.action = "deploy", !.target = tag, !.fallback = state.current,
               !.revert = a.revert]

canRollback(state) == state.current # None /\ Len(state.history) > 1

planRollback(state, a) ==
  [NoCommand EXCEPT !.pc = "migrate", !.action = "rollback", !.target = state.history[2],
               !.from = state.current, !.revert = a.revert]

\* As it was before the failed rollback was recorded: a stranded rollback is reported as a first deploy.
planFailureResponse_stuck(plan) == IF plan.fallback = None THEN "stuck" ELSE "revert"

planFailureResponse(plan) ==
  IF plan.action = "rollback" THEN "stranded"
  ELSE IF plan.fallback = None THEN "stuck" ELSE "revert"

\* The history without the tag, which stands in it at most once.
filtered(history, tag) ==
  LET at == {i \in 1..Len(history) : history[i] = tag}
      k == CHOOSE i \in at : TRUE
  IN IF at = {} THEN history ELSE SubSeq(history, 1, k - 1) \o SubSeq(history, k + 1, Len(history))

nextStateAfterDeploy(state, tag) ==
  LET history == <<tag>> \o filtered(state.history, tag)
  IN IF state.current = tag THEN state
     ELSE [kind |-> "ok", current |-> tag,
           history |-> SubSeq(history, 1, IF Len(history) < MAX_HISTORY THEN Len(history) ELSE MAX_HISTORY)]

\* The abandoned release is put behind the other instead of being dropped.
nextStateAfterRollback_reorders(state) ==
  [kind |-> "ok", current |-> state.history[2],
   history |-> <<state.history[2], state.history[1]>> \o Tail(Tail(state.history))]

nextStateAfterRollback(state) ==
  [kind |-> "ok", current |-> state.history[2], history |-> Tail(state.history)]

interpretProbe(x) ==
  IF x.exit = 0 /\ x.body = "ready" THEN "ready"
  ELSE IF x.body = "not_ready" THEN "unhealthy" ELSE "starting"

interpretWebProbe(x) ==
  IF x.exit = 0 /\ x.body = "WEB_OK" THEN "ready"
  ELSE IF x.body \in {"WEB_OK", "WEB_500"} THEN "unhealthy" ELSE "starting"

interpretWorkerProbe(x) ==
  IF x.exit # 0 THEN "starting"
  ELSE IF x.state # "running" THEN IF x.state = "exited" THEN "unhealthy" ELSE "starting"
  ELSE CASE x.body \in {"none", "healthy"} -> "ready"
         [] x.body = "unhealthy" -> "unhealthy"
         [] OTHER -> "starting"

releaseImagesToRemove(present, c) == present \ ({c.target} \cup Range(c.next))
-----------------------------------------------------------------------------
(* deploy.mjs *)

Probed(exit, state, body) == [exit |-> exit, state |-> state, body |-> body]

\* What a probe of a service may find: nothing without a container, anything with one.
probeReadiness ==
  IF running["api"] = None THEN {Probed(1, "none", "")}
  ELSE {Probed(0, "running", "ready"), Probed(1, "running", "not_ready"), Probed(1, "running", "")}

probeWeb ==
  IF running["web"] = None THEN {Probed(1, "none", "")}
  ELSE {Probed(0, "running", "WEB_OK"), Probed(1, "running", "WEB_500"), Probed(1, "running", "")}

probeWorker ==
  IF running["worker"] = None THEN {Probed(1, "none", "")}
  ELSE {Probed(0, "running", "healthy"), Probed(0, "running", "none"), Probed(0, "running", "unhealthy"),
        Probed(0, "running", "starting"), Probed(0, "exited", "none"), Probed(0, "restarting", "none")}

outcomesOf(svc) ==
  CASE svc = "api" -> {interpretProbe(x) : x \in probeReadiness}
    [] svc = "web" -> {interpretWebProbe(x) : x \in probeWeb}
    [] svc = "worker" -> {interpretWorkerProbe(x) : x \in probeWorker}

Ends(o, reason) == op' = [op EXCEPT ![o] = NoCommand] /\ drift' = reason
Moves(o, pc) == op' = [op EXCEPT ![o].pc = pc]

MayStart == commands < IF serial THEN MaxCommands ELSE MaxTogether

\* A command line that is refused, or only reports, changes nothing.
Report(o) ==
  /\ op[o].pc = "idle" /\ MayStart
  /\ \E a \in Invocations :
       \/ parseArgs(a) \in {"refused", "help", "status"}
       \/ ~assertNoRehearsalProfile(a)
       \/ ~(a.docker /\ a.envFile /\ a.network)
       \/ parseArgs(a) = "tag" /\ ~isImmutableTag(a)
       \/ ~readable
       \/ parseArgs(a) = "rollback" /\ ~canRollback(parseState)
  /\ commands' = commands + 1
  /\ UNCHANGED <<file, envTag, running, schema, images, op, faults, serial, drift, tried>>

\* main: every precondition holds, and the plan is made from the state as it is read now.
main(o) ==
  /\ op[o].pc = "idle" /\ MayStart
  /\ serial => \A p \in Commanders : op[p].pc = "idle"
  /\ readable
  /\ \E a \in Invocations :
       /\ assertNoRehearsalProfile(a) /\ a.docker /\ a.envFile /\ a.network
       /\ \/ /\ parseArgs(a) = "tag" /\ isImmutableTag(a)
             /\ op' = [op EXCEPT ![o] = planDeploy(parseState, a.tag, a)]
          \/ /\ parseArgs(a) = "rollback" /\ canRollback(parseState)
             /\ op' = [op EXCEPT ![o] = planRollback(parseState, a)]
  /\ commands' = commands + 1
  /\ UNCHANGED <<file, envTag, running, schema, images, faults, serial, drift, tried>>

\* The swap goes ahead whatever the migrations said.
runMigrations_ignored(o) ==
  /\ op[o].pc = "migrate"
  /\ \E s \in schema..LastTag : (s <= op[o].target \/ s = schema) /\ schema' = s
  /\ Moves(o, "up")
  /\ UNCHANGED <<file, envTag, running, images, commands, faults, serial, drift, tried>>

\* The migrations of every commit up to the target are applied, or some of them are and the command
\* ends with the running release untouched.
runMigrations(o) ==
  /\ op[o].pc = "migrate"
  /\ \/ /\ schema' = IF op[o].target > schema THEN op[o].target ELSE schema
        /\ Moves(o, "up") /\ drift' = drift
     \/ /\ \E s \in schema..LastTag : (s < op[o].target \/ s = schema) /\ schema' = s
        /\ Ends(o, drift)
  /\ UNCHANGED <<file, envTag, running, images, commands, faults, serial, tried>>

Wanted(c) == IF c.stage = "target" THEN c.target ELSE c.fallback

\* compose up: the image is pulled if it is missing, and the containers are replaced.  Its exit
\* status is not looked at, so it may also have replaced some of them, or none.
bringUp(o) ==
  LET tag == Wanted(op[o]) IN
  /\ op[o].pc = "up"
  /\ \E replaced \in SUBSET Services :
       /\ faults' = IF replaced = Services THEN faults ELSE faults + 1
       /\ faults' <= MaxFaults
       /\ running' = [s \in Services |-> IF s \in replaced THEN tag ELSE running[s]]
       /\ images' = IF replaced = {} THEN images ELSE images \cup {tag}
       /\ op' = [op EXCEPT ![o].pc = "wait", ![o].svc = "api", ![o].attempt = 0,
                           ![o].full = (replaced = Services)]
  /\ tried' = IF op[o].action = "rollback" THEN tried \cup {op[o].from, tag} ELSE tried
  /\ UNCHANGED <<file, envTag, schema, commands, serial, drift>>

\* What follows the last probe of the stack.
Judged(c, ready) ==
  IF c.stage = "fallback" THEN NoCommand
  ELSE [c EXCEPT !.pc = IF ready THEN "write" ELSE "respond"]

\* waitForStack: the services in order, each until it is ready, is unhealthy or the budget is spent.
waitFor(o) ==
  LET c == op[o] IN
  /\ c.pc = "wait"
  /\ \E outcome \in outcomesOf(c.svc) :
       op' = [op EXCEPT ![o] =
               IF outcome = "ready" THEN
                 CASE c.svc = "api" -> [c EXCEPT !.svc = "web", !.attempt = 0]
                   [] c.svc = "web" -> [c EXCEPT !.svc = "worker", !.attempt = 0]
                   [] c.svc = "worker" -> Judged(c, TRUE)
               ELSE IF outcome = "unhealthy" \/ c.attempt + 1 >= Attempts THEN Judged(c, FALSE)
               ELSE [c EXCEPT !.attempt = @ + 1]]
  /\ drift' = IF op'[o] = NoCommand /\ ~c.full THEN "compose" ELSE drift
  /\ UNCHANGED <<file, envTag, running, schema, images, commands, faults, serial, tried>>

\* The state is read again before it is written, and may refuse to be.
writeState(o) ==
  LET c == op[o] IN
  /\ c.pc = "write"
  /\ IF readable /\ (c.action = "rollback" => canRollback(parseState))
     THEN /\ file' = IF c.action = "rollback" THEN nextStateAfterRollback(parseState)
                     ELSE nextStateAfterDeploy(parseState, c.target)
          /\ tried' = IF c.action = "rollback" THEN tried ELSE {}
          /\ op' = [op EXCEPT ![o].pc = "tag", ![o].next = file'.history] /\ drift' = drift
     ELSE UNCHANGED <<file, tried>> /\ Ends(o, "record")
  /\ UNCHANGED <<envTag, running, schema, images, commands, faults, serial>>

recordTagInEnvFile(o) ==
  /\ op[o].pc = "tag"
  /\ envTag' = op[o].target
  /\ drift' = IF op[o].full THEN "none" ELSE "compose"
  /\ op' = [op EXCEPT ![o] = IF @.stage = "stranded" THEN NoCommand ELSE [@ EXCEPT !.pc = "prune"]]
  /\ UNCHANGED <<file, running, schema, images, commands, faults, serial, tried>>

\* docker rmi refuses an image a container uses, and the whole step is skipped where the box cannot
\* be listed or the repository is not named.
pruneReleaseImages(o) ==
  /\ op[o].pc = "prune"
  /\ \E able \in BOOLEAN :
       images' = IF able
                 THEN images \ (releaseImagesToRemove(images, op[o]) \ {running[s] : s \in Services})
                 ELSE images
  /\ op' = [op EXCEPT ![o] = NoCommand]
  /\ UNCHANGED <<file, envTag, running, schema, commands, faults, serial, drift, tried>>

\* A release that failed its probes: left, stranded, stuck or reverted.
respond(o) ==
  LET c == op[o] response == planFailureResponse(c) IN
  /\ c.pc = "respond"
  /\ IF ~c.revert THEN Ends(o, "left")
     ELSE CASE response = "stranded" ->
                 /\ op' = [op EXCEPT ![o].pc = "write", ![o].stage = "stranded"]
                 /\ drift' = drift
            [] response = "stuck" -> Ends(o, "stuck")
            [] response = "revert" ->
                 /\ op' = [op EXCEPT ![o].pc = "up", ![o].stage = "fallback"]
                 /\ drift' = drift
  /\ UNCHANGED <<file, envTag, running, schema, images, commands, faults, serial, tried>>

\* The command's process ends: a state file being written is left empty or half written.
Crash(o) ==
  /\ op[o].pc \notin {"idle", "migrate"}
  /\ faults < MaxFaults /\ faults' = faults + 1
  /\ Ends(o, "crash")
  /\ \/ file' = file
     \/ /\ op[o].pc = "write"
        /\ \E kind \in {"empty", "torn"} : file' = [kind |-> kind, current |-> None, history |-> <<>>]
  /\ UNCHANGED <<envTag, running, schema, images, commands, serial, tried>>

\* A box to which the first k releases were deployed, one after the other.
Deployed(k) ==
  LET kept == 1..(IF k < MAX_HISTORY THEN k ELSE MAX_HISTORY) IN
  /\ file = [kind |-> IF k = None THEN "empty" ELSE "ok", current |-> k,
             history |-> [i \in kept |-> k + 1 - i]]
  /\ envTag = k /\ running = [s \in Services |-> k] /\ schema = k
  /\ images = {k + 1 - i : i \in kept}

\* Commands started one at a time find nothing deployed, the others anything.
ReleaseInit ==
  /\ serial \in BOOLEAN
  /\ \E k \in 0..(LastTag - 1) : (serial => k = None) /\ Deployed(k)
  /\ op = [o \in Commanders |-> NoCommand] /\ commands = 0 /\ faults = 0
  /\ drift = "none" /\ tried = {}

Step(o) ==
  \/ Report(o) \/ main(o) \/ runMigrations(o) \/ bringUp(o) \/ waitFor(o) \/ writeState(o)
  \/ recordTagInEnvFile(o) \/ pruneReleaseImages(o) \/ respond(o) \/ Crash(o)

ReleaseNext == \E o \in Commanders : Step(o)

ReleaseSpec == ReleaseInit /\ [][ReleaseNext]_releaseVars
-----------------------------------------------------------------------------
(* Properties *)

AllIdle == \A o \in Commanders : op[o].pc = "idle"

\* No container runs a release whose migrations the database does not have, whichever commands
\* interleave, fail half way or crash: runMigrations comes first, and a fallback was migrated for when
\* it was deployed.
SchemaLeadsCode == \A s \in Services : running[s] <= schema

\* Between commands started one at a time, the state file and the env file name the release every
\* container runs, unless a command ended in one of the ways that says otherwise: it crashed, compose
\* did not replace every container, it was told to leave a failure in place, or it failed with nothing
\* to go back to.  Where no command met a fault, the images of every rollback target are on the box.
RecordDescribesTheBox ==
  serial /\ AllIdle =>
    /\ drift = "none" =>
         /\ readable
         /\ \A s \in Services : running[s] = parseState.current
         /\ envTag = parseState.current
         /\ faults = 0 => Range(parseState.history) \subseteq images
    /\ drift = "stuck" => parseState.current = None

\* A rollback never returns to a release rolled back from, or already rolled back to and found
\* wanting, since the last deploy: repeating it walks further back (planRollback, nextStateAfterRollback).
RollbackWalksBack ==
  [][\A o \in Commanders :
       /\ serial /\ drift = "none"
       /\ op[o].pc = "idle" /\ op'[o].pc = "migrate" /\ op'[o].action = "rollback"
       => op'[o].target \notin tried]_releaseVars

\* Once the env file is written, "Only after the release is confirmed healthy", it "always names what
\* is actually serving" (recordTagInEnvFile).
EnvFileNamesServing ==
  \A o \in Commanders :
    serial /\ op[o].pc = "prune" => \A s \in Services : running[s] = envTag
============================================================================
