------------------------------- MODULE Gates -------------------------------
(***************************************************************************)
(* What every request to the API passes before its handler: the fixed      *)
(* window of the Redis rate limiter and the cached feature switches, with  *)
(* an administrator turning a switch meanwhile.  A behaviour that follows  *)
(* the worker leaves all of this alone.                                    *)
(***************************************************************************)
EXTENDS Processes, FiniteSets

CONSTANTS Requests,       \* requests in progress at once
          MaxRequests,    \* requests asked in all
          MaxNow,         \* seconds of a behaviour
          Limit,          \* requests allowed in a window
          WindowSeconds,
          FLAG_CACHE_TTL,
          MaxSets         \* switch changes

ASSUME GatesAssumption ==
  /\ MaxRequests \in Nat /\ MaxNow \in Nat /\ Limit \in Nat /\ MaxSets \in Nat
  /\ WindowSeconds \in Nat \ {0} /\ FLAG_CACHE_TTL \in Nat \ {0}

VARIABLES route,   \* the route asked for: counted by the limiter, or gated by a switch
          now,     \* seconds
          asked,   \* requests asked so far
          key,     \* the account's counter: its value, when it expires (0: never), its window
          req,     \* where each request stands
          row,     \* the switch in the database, and how often it was written
          cache,   \* the process's copy: when it was stamped, what it holds
          setter   \* the administrator's change in progress

gateVars == <<route, now, asked, key, req, row, cache, setter>>

Idle == [pc |-> "idle", count |-> 0, window |-> 0, until |-> 0, ver |-> 0, on |-> FALSE, from |-> "none"]
NoCache == [at |-> 0, ver |-> 0, on |-> FALSE, held |-> FALSE, late |-> FALSE]
NoSet == [pc |-> "idle", on |-> FALSE]

\* The registered default, which stands for any switch whose row cannot be read.
defaultOf == FALSE

\* A request under way goes on while the server closes; a new one is not accepted.
Serving == service = "api" /\ stop.pc # "exited"
-----------------------------------------------------------------------------
(* Redis, one command at a time *)

Answers == broker = "up" /\ UNCHANGED <<broker, outages>>
Throws == broker = "down" /\ UNCHANGED <<broker, outages>>

\* The command is applied and its reply lost with the connection.
LosesReply == broker = "up" /\ outages < MaxOutages /\ broker' = "down" /\ outages' = outages + 1

incr == [key EXCEPT !.n = @ + 1]

\* EXPIRE key seconds NX: only a key that exists and carries no expiry yet.
expireNX == IF key.n > 0 /\ key.expires = 0 THEN [key EXCEPT !.expires = now + WindowSeconds] ELSE key

\* TTL: -1 without an expiry, -2 without a key; both fall back to the window.
secondsLeft == IF key.n > 0 /\ key.expires > now THEN key.expires - now ELSE WindowSeconds

\* Redis drops a key whose time is up: the next INCR starts another window.
Expired(k, t) == IF k.expires # 0 /\ k.expires <= t THEN [n |-> 0, expires |-> 0, window |-> k.window + 1] ELSE k
-----------------------------------------------------------------------------
(* rate-limit.guard.ts and redis-rate-limiter.ts *)

Become(r, f) == req' = [req EXCEPT ![r] = f]

\* No tier on the route, or nobody signed in to count against: the guard lets it pass.
Passed == [Idle EXCEPT !.pc = IF route = "switched" THEN "flag" ELSE "answered"]

canActivate(r) ==
  /\ req[r].pc \in {"idle", "refused", "answered"} /\ asked < MaxRequests /\ Up
  /\ asked' = asked + 1
  /\ \/ route = "limited" /\ Become(r, [Idle EXCEPT !.pc = "incr"])
     \/ Become(r, Passed)
  /\ UNCHANGED <<broker, outages, key, cache>>

\* A store that fails is answered by the policy, and the policy is to allow.
Allowed(r) == Become(r, Passed)

consumeIncr(r) ==
  /\ req[r].pc = "incr"
  /\ \/ Answers /\ key' = incr
        /\ Become(r, [req[r] EXCEPT !.pc = "expire", !.count = key.n + 1, !.window = key.window])
     \/ LosesReply /\ key' = incr /\ Allowed(r)
     \/ Throws /\ Allowed(r) /\ UNCHANGED key
  /\ UNCHANGED <<asked, cache>>

\* The expiry is set by the request that created the key, and by no other.
consumeExpire_once(r) ==
  /\ req[r].pc = "expire"
  /\ \/ Answers /\ key' = (IF req[r].count = 1 THEN expireNX ELSE key)
        /\ Become(r, [req[r] EXCEPT !.pc = "ttl"])
     \/ LosesReply /\ key' = (IF req[r].count = 1 THEN expireNX ELSE key) /\ Allowed(r)
     \/ Throws /\ Allowed(r) /\ UNCHANGED key
  /\ UNCHANGED <<asked, cache>>

consumeExpire(r) ==
  /\ req[r].pc = "expire"
  /\ \/ Answers /\ key' = expireNX /\ Become(r, [req[r] EXCEPT !.pc = "ttl"])
     \/ LosesReply /\ key' = expireNX /\ Allowed(r)
     \/ Throws /\ Allowed(r) /\ UNCHANGED key
  /\ UNCHANGED <<asked, cache>>

retryAfterSeconds(left) == IF left < 1 THEN 1 ELSE left

consumeTtl(r) ==
  /\ req[r].pc = "ttl"
  /\ \/ Answers /\ req[r].count <= Limit /\ Allowed(r)
     \/ Answers /\ req[r].count > Limit
        /\ Become(r, [req[r] EXCEPT !.pc = "refused", !.count = 0, !.until = now + retryAfterSeconds(secondsLeft)])
     \/ Throws /\ Allowed(r)
  /\ UNCHANGED <<asked, key, cache>>
-----------------------------------------------------------------------------
(* feature-flags.service.ts *)

Fresh == cache.held /\ now - cache.at < FLAG_CACHE_TTL

Answered(r, on, from) == Become(r, [Idle EXCEPT !.pc = "answered", !.on = on, !.from = from])

isEnabled(r) ==
  /\ req[r].pc = "flag"
  /\ \/ Fresh /\ Answered(r, cache.on, "cache")
     \/ ~Fresh /\ Become(r, [req[r] EXCEPT !.pc = "reading", !.on = row.on, !.ver = row.ver])
     \/ ~Fresh /\ Answered(r, defaultOf, "default")
  /\ UNCHANGED <<broker, outages, asked, key, cache>>

\* The query's result reaches the process, which stamps it with the time it arrived.
overrides(r) ==
  /\ req[r].pc = "reading"
  /\ cache' = [at |-> now, ver |-> req[r].ver, on |-> req[r].on, held |-> TRUE, late |-> req[r].ver # row.ver]
  /\ Answered(r, req[r].on, "read")
  /\ UNCHANGED <<broker, outages, asked, key>>

setBegin ==
  /\ route = "switched" /\ setter.pc = "idle" /\ row.ver < MaxSets
  /\ \E on \in BOOLEAN : setter' = [pc |-> "write", on |-> on]
  /\ UNCHANGED <<row, cache>>

\* The copy is left to expire by itself.
setWrite_keepsCopy ==
  /\ setter.pc = "write"
  /\ row' = [ver |-> row.ver + 1, on |-> setter.on]
  /\ setter' = NoSet
  /\ UNCHANGED cache

\* The row is written and the copy is about to be dropped; or the row is written and the answer lost, or
\* nothing is, and the call rejects with the copy where it was.  `late' marks what it left behind.
setWrite ==
  /\ setter.pc = "write"
  /\ \/ /\ row' = [ver |-> row.ver + 1, on |-> setter.on]
        /\ setter' = [setter EXCEPT !.pc = "drop"]
        /\ UNCHANGED cache
     \/ /\ row' = [ver |-> row.ver + 1, on |-> setter.on]
        /\ setter' = NoSet
        /\ cache' = [cache EXCEPT !.late = cache.held]
     \/ setter' = NoSet /\ UNCHANGED <<row, cache>>

\* cache = null; the list read back and the audit entry change neither the row nor the copy.
setDrop ==
  /\ setter.pc = "drop"
  /\ cache' = NoCache /\ setter' = NoSet
  /\ UNCHANGED row
-----------------------------------------------------------------------------
Second ==
  /\ service = "api"
  /\ now < MaxNow /\ now' = now + 1
  /\ key' = Expired(key, now + 1)
  /\ UNCHANGED <<broker, outages, route, asked, req, row, cache, setter>>

GateStep ==
  \/ \E r \in Requests :
       /\ \/ canActivate(r) \/ consumeIncr(r) \/ consumeExpire(r) \/ consumeTtl(r)
          \/ isEnabled(r) \/ overrides(r)
       /\ UNCHANGED <<route, now, row, setter>>
  \/ (setBegin \/ setWrite \/ setDrop) /\ UNCHANGED <<broker, outages, route, now, asked, key, req>>

PlatformInit ==
  /\ ProcessInit
  /\ route \in (IF service = "api" THEN {"limited", "switched"} ELSE {"none"})
  /\ now = 1 /\ asked = 0 /\ key = [n |-> 0, expires |-> 0, window |-> 0]
  /\ req = [r \in Requests |-> Idle]
  /\ row = [ver |-> 0, on |-> TRUE] /\ cache = NoCache /\ setter = NoSet

PlatformNext ==
  \/ /\ ProcessNext /\ UNCHANGED gateVars
     /\ route = "switched" => UNCHANGED broker  \* switches do not use the broker
  \/ /\ Restart
     /\ req' = [r \in Requests |-> Idle] /\ cache' = NoCache /\ setter' = NoSet
     /\ UNCHANGED <<route, now, asked, key, row>>
  \/ ((Serving /\ GateStep) \/ Second) /\ UNCHANGED <<service, failures, starts, workerVars, stop>>

platformVars == <<processVars, gateVars>>

PlatformSpec == PlatformInit /\ [][PlatformNext]_platformVars
-----------------------------------------------------------------------------
(* Properties *)

\* A refused caller who waits for as long as they were told has outlived the window they were counted
\* in, whatever was lost between the counter's creation and its expiry, and whoever set that expiry.
NoLockout ==
  \A r \in Requests : req[r].pc = "refused" /\ now >= req[r].until => key.window > req[r].window

\* A switch is seen.  An answer given from the process's copy is the row's, except between the write and
\* the dropping of the copy, when the copy was filled by a read that began before the write, or when the
\* answer to the write was lost; and no copy is used past its time to live.
SwitchIsSeen ==
  [][\A r \in Requests :
       req'[r].pc = "answered" /\ req[r].pc = "flag" /\ req'[r].from = "cache" =>
         /\ now - cache.at < FLAG_CACHE_TTL
         /\ cache.ver = row.ver \/ setter.pc = "drop" \/ cache.late]_platformVars

\* "Dropped rather than expired, so the next read is the truth".
NextReadIsTheTruth ==
  [][\A r \in Requests :
       req'[r].pc = "answered" /\ req[r].pc = "flag" /\ req'[r].from = "cache" /\ setter.pc = "idle" =>
         req'[r].on = row.on]_platformVars
============================================================================
