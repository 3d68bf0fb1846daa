--------------------------- MODULE ReleaseProofs ---------------------------
(***************************************************************************)
(* What Release guarantees for any number of releases, commands, faults    *)
(* and operators.  Three arguments.  Whatever a container may be made to   *)
(* run - what is recorded, what a command falls back to, what it has       *)
(* migrated for - is behind the schema, which only moves forward.  Where   *)
(* commands are started one at a time, what has been rolled back from or   *)
(* to is found in the history only at its first two places, and at the     *)
(* first alone once the rollback is recorded.  And where they are, a       *)
(* command finds the record it was planned from until it writes its own,   *)
(* so that each place it can end at is described by the record, or says    *)
(* that it is not.                                                         *)
(***************************************************************************)
EXTENDS Release, SequenceTheorems, TLAPS

Command ==
  [pc : {"idle", "migrate", "up", "wait", "respond", "write", "tag", "prune"},
   action : {"none", "deploy", "rollback"}, target : Nat, from : Nat, fallback : Nat, revert : BOOLEAN,
   stage : {"target", "fallback", "stranded"}, svc : Services, attempt : Nat, full : BOOLEAN,
   next : Seq(Nat)]

StateFile == [kind : {"ok", "empty", "torn"}, current : Nat, history : Seq(Nat)]

Types ==
  /\ file \in StateFile
  /\ schema \in Nat /\ running \in [Services -> Nat]
  /\ op \in [Commanders -> Command]

\* What a command may still bring up is behind a schema s.
Behind(c, s) ==
  /\ c.fallback <= s
  /\ c.pc \notin {"idle", "migrate"} => c.target <= s

NoRepeats(h) == \A i, j \in 1..Len(h) : h[i] = h[j] => i = j

\* A record names the current release first, and no release twice.
GoodRecord(f) ==
  /\ f.kind # "ok" => f.current = None /\ f.history = <<>>
  /\ NoRepeats(f.history)
  /\ Len(f.history) > 0 => f.history[1] = f.current

\* Everything a container may be made to run is behind the schema.
Migrated ==
  /\ SchemaLeadsCode
  /\ file.current <= schema
  /\ \A i \in 1..Len(file.history) : file.history[i] <= schema
  /\ \A o \in Commanders : Behind(op[o], schema)

IInv == Types /\ GoodRecord(file) /\ Migrated
-----------------------------------------------------------------------------
(* Sequences *)

\* What is left of a history is part of it, in which the tag no longer stands.
LEMMA FilteredFacts ==
  ASSUME NEW h \in Seq(Nat), NEW tag \in Nat, NoRepeats(h)
  PROVE  /\ filtered(h, tag) \in Seq(Nat)
         /\ \A i \in 1..Len(filtered(h, tag)) : \E j \in 1..Len(h) : filtered(h, tag)[i] = h[j]
         /\ \A i \in 1..Len(filtered(h, tag)) : filtered(h, tag)[i] # tag
         /\ NoRepeats(filtered(h, tag))
<1> DEFINE at == {i \in 1..Len(h) : h[i] = tag}
<1>1. CASE at = {}
  <2>1. filtered(h, tag) = h
    BY <1>1 DEF filtered
  <2> QED BY <1>1, <2>1
<1>2. CASE at # {}
  <2> DEFINE k == CHOOSE i \in at : TRUE
             u == SubSeq(h, 1, k - 1)
             v == SubSeq(h, k + 1, Len(h))
  <2>1. k \in 1..Len(h) /\ h[k] = tag
    BY <1>2
  <2>2. filtered(h, tag) = u \o v
    BY Zenon, <1>2 DEF filtered
  <2> HIDE DEF k
  <2>3. Len(h) \in Nat /\ \A i \in 1..Len(h) : h[i] \in Nat
    OBVIOUS
  <2>4. u \in Seq(Nat) /\ Len(u) = k - 1 /\ \A i \in 1..(k - 1) : u[i] = h[i]
    <3>1. k - 1 \in Int /\ \A i \in 1..(k - 1) : h[i] \in Nat
      BY <2>1, <2>3
    <3>2. /\ u \in Seq(Nat)
          /\ Len(u) = IF 1 <= k - 1 THEN (k - 1) - 1 + 1 ELSE 0
          /\ \A i \in 1..((k - 1) - 1 + 1) : u[i] = h[1 + i - 1]
      BY <3>1, SubSeqProperties
    <3> QED BY <3>2, <2>1
  <2>5. v \in Seq(Nat) /\ Len(v) = Len(h) - k /\ \A i \in 1..(Len(h) - k) : v[i] = h[k + i]
    <3>1. k + 1 \in Int /\ Len(h) \in Int /\ \A i \in (k + 1)..Len(h) : h[i] \in Nat
      BY <2>1, <2>3
    <3>2. /\ v \in Seq(Nat)
          /\ Len(v) = IF k + 1 <= Len(h) THEN Len(h) - (k + 1) + 1 ELSE 0
          /\ \A i \in 1..(Len(h) - (k + 1) + 1) : v[i] = h[(k + 1) + i - 1]
      BY <3>1, SubSeqProperties
    <3> QED BY <3>2, <2>1
  <2> HIDE DEF u, v
  <2>6. /\ u \o v \in Seq(Nat)
        /\ Len(u \o v) = Len(h) - 1
        /\ \A i \in 1..(Len(h) - 1) : (u \o v)[i] = IF i < k THEN h[i] ELSE h[i + 1]
    <3>1. /\ u \o v \in Seq(Nat)
          /\ Len(u \o v) = Len(u) + Len(v)
          /\ \A i \in 1..(Len(u) + Len(v)) : (u \o v)[i] = IF i <= Len(u) THEN u[i] ELSE v[i - Len(u)]
      BY Zenon, <2>4, <2>5, ConcatProperties
    <3>2. Len(u) + Len(v) = Len(h) - 1
      BY <2>1, <2>3, <2>4, <2>5
    <3>3. ASSUME NEW i \in 1..(Len(h) - 1)
          PROVE  (u \o v)[i] = IF i < k THEN h[i] ELSE h[i + 1]
      <4>1. CASE i < k
        BY <4>1, <3>1, <3>2, <2>1, <2>4
      <4>2. CASE ~(i < k)
        <5>0. i \in 1..(Len(u) + Len(v)) /\ ~(i <= Len(u)) /\ Len(u) = k - 1
          BY <4>2, <3>2, <2>1, <2>3, <2>4
        <5>1. (u \o v)[i] = v[i - (k - 1)]
          BY <5>0, <3>1
        <5>2. i - (k - 1) \in 1..(Len(h) - k) /\ k + (i - (k - 1)) = i + 1
          BY <4>2, <2>1, <2>3
        <5> QED BY <5>1, <5>2, <4>2, <2>5
      <4> QED BY Zenon, <4>1, <4>2
    <3> QED BY <3>1, <3>2, <3>3
  <2> DEFINE w == u \o v
             pos(i) == IF i < k THEN i ELSE i + 1
  <2>7. \A i \in 1..Len(w) : pos(i) \in 1..Len(h) /\ pos(i) # k /\ w[i] = h[pos(i)]
    <3> SUFFICES ASSUME NEW i \in 1..Len(w)
                 PROVE  pos(i) \in 1..Len(h) /\ pos(i) # k /\ w[i] = h[pos(i)]
      OBVIOUS
    <3>1. i \in 1..(Len(h) - 1) /\ i \in Int
      BY <2>6
    <3>2. w[i] = IF i < k THEN h[i] ELSE h[i + 1]
      BY Zenon, <3>1, <2>6
    <3>3. pos(i) \in 1..Len(h) /\ pos(i) # k
      BY <3>1, <2>1, <2>3
    <3> QED BY <3>2, <3>3
  <2>8. \A i, j \in 1..Len(w) : pos(i) = pos(j) => i = j
    BY <2>1, SMTT(30)
  <2>9. w \in Seq(Nat) /\ filtered(h, tag) = w
    BY <2>2, <2>6
  <2> HIDE DEF w, pos
  <2>10. \A i \in 1..Len(w) : w[i] # tag
    BY <2>1, <2>7 DEF NoRepeats
  <2>11. NoRepeats(w)
    BY <2>7, <2>8 DEF NoRepeats
  <2> QED BY <2>7, <2>9, <2>10, <2>11
<1> QED BY <1>1, <1>2

\* Recording a deploy keeps a record good, and names only the deployed release and releases it named.
LEMMA DeployRecorded ==
  ASSUME NEW f \in StateFile, GoodRecord(f), f.kind = "ok", NEW tag \in Nat
  PROVE  LET g == nextStateAfterDeploy(f, tag) IN
         /\ g \in StateFile /\ GoodRecord(g)
         /\ g.current = tag /\ g.kind = "ok"
         /\ \A i \in 1..Len(g.history) : g.history[i] = tag \/ \E j \in 1..Len(f.history) : g.history[i] = f.history[j]
<1> DEFINE h == f.history
           r == filtered(h, tag)
           w == <<tag>> \o r
           n == IF Len(w) < MAX_HISTORY THEN Len(w) ELSE MAX_HISTORY
           g == nextStateAfterDeploy(f, tag)
<1>1. CASE f.current = tag
  <2>1. g = f
    BY <1>1 DEF nextStateAfterDeploy
  <2> QED BY <2>1, <1>1
<1>2. CASE f.current # tag
  <2>1. h \in Seq(Nat) /\ NoRepeats(h)
    BY DEF StateFile, GoodRecord
  <2>2. /\ r \in Seq(Nat)
        /\ \A i \in 1..Len(r) : \E j \in 1..Len(h) : r[i] = h[j]
        /\ \A i \in 1..Len(r) : r[i] # tag
        /\ NoRepeats(r)
    BY Zenon, <2>1, FilteredFacts
  <2> HIDE DEF r
  <2>3. /\ w \in Seq(Nat) /\ Len(w) = 1 + Len(r) /\ w[1] = tag
        /\ \A i \in 2..Len(w) : w[i] = r[i - 1] /\ i - 1 \in 1..Len(r)
    <3>1. <<tag>> \in Seq(Nat) /\ Len(<<tag>>) = 1 /\ <<tag>>[1] = tag
      OBVIOUS
    <3>2. /\ w \in Seq(Nat) /\ Len(w) = 1 + Len(r)
          /\ \A i \in 1..(1 + Len(r)) : w[i] = IF i <= 1 THEN <<tag>>[i] ELSE r[i - 1]
      BY <3>1, <2>2, ConcatProperties
    <3>3. Len(r) \in Nat
      BY <2>2
    <3> QED BY <3>1, <3>2, <3>3
  <2> HIDE DEF w
  <2>4. NoRepeats(w)
    <3> SUFFICES ASSUME NEW i \in 1..Len(w), NEW j \in 1..Len(w), w[i] = w[j] PROVE i = j
      BY DEF NoRepeats
    <3>0. \A x \in 1..Len(w) : x # 1 => x \in 2..Len(w) /\ w[x] # w[1]
      <4> TAKE x \in 1..Len(w)
      <4> HAVE x # 1
      <4>1. x \in 2..Len(w)
        OBVIOUS
      <4> QED BY Zenon, <4>1, <2>2, <2>3
    <3>1. CASE i = 1
      BY <3>0, <3>1
    <3>2. CASE j = 1
      BY <3>0, <3>2
    <3>3. CASE i # 1 /\ j # 1
      <4>2. i \in 2..Len(w) /\ j \in 2..Len(w)
        BY <3>0, <3>3
      <4>3. i - 1 \in 1..Len(r) /\ j - 1 \in 1..Len(r) /\ r[i - 1] = r[j - 1]
        BY <4>2, <2>3
      <4>4. i - 1 = j - 1
        BY Zenon, <4>3, <2>2 DEF NoRepeats
      <4> QED BY <4>2, <4>4
    <3> QED BY <3>1, <3>2, <3>3
  <2>5. n \in Nat /\ n >= 1 /\ n <= Len(w)
    BY <2>3, <2>2, ReleaseAssumption
  <2> DEFINE q == SubSeq(w, 1, n)
  <2>6. q \in Seq(Nat) /\ Len(q) = n /\ \A i \in 1..n : q[i] = w[i] /\ i \in 1..Len(w)
    <3>1. \A i \in 1..n : i \in 1..Len(w) /\ w[i] \in Nat
      BY <2>3, <2>5
    <3>2. q \in Seq(Nat) /\ Len(q) = (IF 1 <= n THEN n - 1 + 1 ELSE 0) /\ \A i \in 1..(n - 1 + 1) : q[i] = w[1 + i - 1]
      BY <2>5, <3>1, SubSeqProperties
    <3> QED BY <2>5, <3>1, <3>2
  <2>7. g = [kind |-> "ok", current |-> tag, history |-> q]
    BY <1>2 DEF nextStateAfterDeploy, r, w
  <2> HIDE DEF q, n, g
  <2>8. NoRepeats(q)
    BY <2>4, <2>6 DEF NoRepeats
  <2>9. q[1] = tag
    BY <2>3, <2>5, <2>6
  <2>10. ASSUME NEW i \in 1..Len(q)
         PROVE  q[i] = tag \/ \E j \in 1..Len(h) : q[i] = h[j]
    <3>1. CASE i = 1
      BY <3>1, <2>9
    <3>2. CASE i # 1
      <4>1. i \in 2..Len(w) /\ q[i] = w[i]
        BY <3>2, <2>3, <2>5, <2>6
      <4> QED BY Zenon, <4>1, <2>2, <2>3
    <3> QED BY <3>1, <3>2
  <2>11. g \in StateFile /\ GoodRecord(g)
    BY <2>6, <2>7, <2>8, <2>9 DEF StateFile, GoodRecord
  <2>12. g.current = tag /\ g.history = q /\ g.kind = "ok"
    BY <2>7
  <2> QED BY <2>10, <2>11, <2>12 DEF g
<1> QED BY <1>1, <1>2

\* Recording a rollback keeps a record good, and leaves its first release out.
LEMMA RollbackRecorded ==
  ASSUME NEW f \in StateFile, GoodRecord(f), canRollback(f)
  PROVE  LET g == nextStateAfterRollback(f) IN
         /\ g \in StateFile /\ GoodRecord(g)
         /\ g.kind = "ok" /\ g.current = f.history[2] /\ 2 \in 1..Len(f.history)
         /\ Len(g.history) = Len(f.history) - 1
         /\ \A i \in 1..Len(g.history) : g.history[i] = f.history[i + 1] /\ i + 1 \in 1..Len(f.history)
<1> DEFINE h == f.history
           t == Tail(h)
           g == nextStateAfterRollback(f)
<1>1. h \in Seq(Nat) /\ NoRepeats(h) /\ Len(h) \in Nat /\ Len(h) > 1
  BY DEF StateFile, GoodRecord, canRollback
<1>2. h # <<>>
  BY <1>1
<1>3. t \in Seq(Nat) /\ Len(t) = Len(h) - 1 /\ \A i \in 1..Len(t) : t[i] = h[i + 1]
  BY <1>1, <1>2, HeadTailProperties
<1>4. g = [kind |-> "ok", current |-> h[2], history |-> t]
  BY DEF nextStateAfterRollback
<1> HIDE DEF t, g
<1>5. 2 \in 1..Len(h) /\ h[2] \in Nat
  BY <1>1
<1>6. \A i \in 1..Len(t) : i + 1 \in 1..Len(h)
  BY <1>1, <1>3
<1>7. NoRepeats(t)
  <2> SUFFICES ASSUME NEW i \in 1..Len(t), NEW j \in 1..Len(t), t[i] = t[j] PROVE i = j
    BY DEF NoRepeats
  <2>1. i + 1 = j + 1
    BY <1>1, <1>3, <1>6 DEF NoRepeats
  <2> QED BY <2>1
<1>8. Len(t) > 0 => t[1] = h[2]
  BY <1>1, <1>3
<1>9. g.current = h[2] /\ g.history = t /\ g.kind = "ok"
  BY <1>4
<1>10. g \in StateFile /\ GoodRecord(g)
  BY <1>3, <1>4, <1>5, <1>7, <1>8 DEF StateFile, GoodRecord
<1> QED BY <1>3, <1>5, <1>6, <1>9, <1>10 DEF g
-----------------------------------------------------------------------------
(* The schema leads the code *)

LEMMA NoCommandFacts ==
  /\ NoCommand \in Command /\ NoCommand.pc = "idle" /\ NoCommand.action = "none"
  /\ NoCommand.fallback = 0 /\ NoCommand.stage = "target"
  /\ \A s \in Nat : Behind(NoCommand, s)
<1>1. NoCommand \in Command
  BY DEF NoCommand, Command, None, Services
<1>2. NoCommand.pc = "idle" /\ NoCommand.action = "none" /\ NoCommand.fallback = 0 /\ NoCommand.stage = "target"
  BY DEF NoCommand, None
<1> QED BY <1>1, <1>2 DEF Behind

\* A step of one command which leaves it behind a schema that did not go back.
LEMMA OneCommand ==
  ASSUME Types, Migrated, NEW o \in Commanders, NEW c \in Command,
         op' = [op EXCEPT ![o] = c], schema' \in Nat, schema <= schema', Behind(c, schema')
  PROVE  op' \in [Commanders -> Command] /\ \A p \in Commanders : Behind(op'[p], schema')
<1>1. op' \in [Commanders -> Command]
  BY DEF Types
<1>2. ASSUME NEW p \in Commanders PROVE Behind(op'[p], schema')
  <2>1. CASE p = o
    BY <2>1 DEF Types
  <2>2. CASE p # o
    <3>1. op'[p] = op[p] /\ op[p] \in Command /\ Behind(op[p], schema)
      BY <2>2 DEF Types, Migrated
    <3>2. op[p].fallback \in Nat /\ op[p].target \in Nat /\ schema \in Nat
      BY <3>1 DEF Command, Types
    <3> QED BY <3>1, <3>2 DEF Behind
  <2> QED BY <2>1, <2>2
<1> QED BY <1>1, <1>2

\* What stays behind the schema when the file and the containers do not change.
LEMMA SchemaGrows ==
  ASSUME IInv, schema' \in Nat, schema <= schema', UNCHANGED <<file, running>>
  PROVE  /\ file' \in StateFile /\ running' \in [Services -> Nat] /\ GoodRecord(file')
         /\ SchemaLeadsCode' /\ file'.current <= schema'
         /\ \A i \in 1..Len(file'.history) : file'.history[i] <= schema'
<1>1. SchemaLeadsCode'
  BY DEF IInv, Types, Migrated, SchemaLeadsCode
<1>2. file.current \in Nat /\ \A i \in 1..Len(file.history) : file.history[i] \in Nat
  BY DEF IInv, Types, StateFile
<1> QED BY <1>1, <1>2 DEF IInv, Types, Migrated

-----------------------------------------------------------------------------
(* What each step does to its command *)

Same(c, d) == c.action = d.action /\ c.target = d.target /\ c.from = d.from /\ c.fallback = d.fallback

\* bringUp changes where its command stands, and no more of it.
LEMMA BringUpStep ==
  ASSUME Types, NEW o \in Commanders, bringUp(o)
  PROVE  \E c \in Command :
           op' = [op EXCEPT ![o] = c] /\ Same(c, op[o]) /\ c.pc = "wait" /\ c.stage = op[o].stage
<1>0. op[o] \in Command /\ op \in [Commanders -> Command]
  BY DEF Types
<1>1. PICK replaced \in SUBSET Services :
        op' = [op EXCEPT ![o].pc = "wait", ![o].svc = "api", ![o].attempt = 0, ![o].full = (replaced = Services)]
  BY Zenon DEF bringUp
<1> DEFINE full == replaced = Services
           c == [op[o] EXCEPT !.pc = "wait", !.svc = "api", !.attempt = 0, !.full = full]
<1>2. op' = [op EXCEPT ![o] = c]
  BY Zenon, <1>0, <1>1
<1>3. full \in BOOLEAN
  OBVIOUS
<1> HIDE DEF full
<1>4. c \in Command
  BY Zenon, <1>0, <1>3 DEF Command, Services
<1>5. Same(c, op[o]) /\ c.pc = "wait" /\ c.stage = op[o].stage
  BY <1>0 DEF Command, Same
<1> QED BY Zenon, <1>2, <1>4, <1>5

\* A probe moves its command to the next service, the next attempt, or its verdict.
LEMMA WaitStep ==
  ASSUME Types, NEW o \in Commanders, waitFor(o)
  PROVE  \E c \in Command :
           /\ op' = [op EXCEPT ![o] = c]
           /\ \/ c = NoCommand /\ op[o].stage = "fallback"
              \/ /\ Same(c, op[o]) /\ c.pc \in {"wait", "write", "respond"} /\ c.stage = op[o].stage
                 /\ c.full = op[o].full /\ (c.pc # "wait" => c.stage # "fallback")
<1> DEFINE c == op[o]
<1>0. c \in Command /\ op \in [Commanders -> Command] /\ c.svc \in Services /\ c.attempt \in Nat
  BY DEF Types, Command
<1>1. PICK d :
        /\ op' = [op EXCEPT ![o] = d]
        /\ \/ d = [c EXCEPT !.svc = "web", !.attempt = 0]
           \/ d = [c EXCEPT !.svc = "worker", !.attempt = 0]
           \/ d = Judged(c, TRUE)
           \/ d = Judged(c, FALSE)
           \/ d = [c EXCEPT !.attempt = @ + 1]
  BY Zenon, <1>0 DEF waitFor, Services
<1>2. c.pc = "wait"
  BY DEF waitFor
<1> HIDE DEF c
<1>3. CASE d = [c EXCEPT !.svc = "web", !.attempt = 0]
  <2>1. d \in Command /\ Same(d, c) /\ d.pc = "wait" /\ d.stage = c.stage /\ d.full = c.full
    BY Zenon, <1>0, <1>2, <1>3 DEF Command, Services, Same
  <2> QED BY Zenon, <1>1, <2>1 DEF c
<1>4. CASE d = [c EXCEPT !.svc = "worker", !.attempt = 0]
  <2>1. d \in Command /\ Same(d, c) /\ d.pc = "wait" /\ d.stage = c.stage /\ d.full = c.full
    BY Zenon, <1>0, <1>2, <1>4 DEF Command, Services, Same
  <2> QED BY Zenon, <1>1, <2>1 DEF c
<1>5. CASE d = [c EXCEPT !.attempt = @ + 1]
  <2> DEFINE n == c.attempt + 1
  <2>0. n \in Nat /\ d = [c EXCEPT !.attempt = n]
    BY <1>0, <1>5
  <2> HIDE DEF n
  <2>1. d \in Command /\ Same(d, c) /\ d.pc = "wait" /\ d.stage = c.stage /\ d.full = c.full
    BY Zenon, <1>0, <1>2, <2>0 DEF Command, Same
  <2> QED BY Zenon, <1>1, <2>1 DEF c
<1>6. ASSUME NEW ready \in BOOLEAN, d = Judged(c, ready)
      PROVE  /\ d \in Command
             /\ \/ d = NoCommand /\ c.stage = "fallback"
                \/ /\ Same(d, c) /\ d.pc \in {"write", "respond"} /\ d.stage = c.stage /\ d.full = c.full
                   /\ d.stage # "fallback"
  <2>1. CASE c.stage = "fallback"
    <3>1. d = NoCommand
      BY <1>6, <2>1 DEF Judged
    <3> QED BY <2>1, <3>1, NoCommandFacts
  <2>2. CASE c.stage # "fallback"
    <3> DEFINE pc == IF ready THEN "write" ELSE "respond"
    <3>1. pc \in {"write", "respond"} /\ d = [c EXCEPT !.pc = pc]
      BY <1>6, <2>2 DEF Judged
    <3> HIDE DEF pc
    <3> QED BY Zenon, <1>0, <2>2, <3>1 DEF Command, Same
  <2> QED BY <2>1, <2>2
<1>7. CASE d = Judged(c, TRUE)
  BY Zenon, <1>1, <1>6, <1>7 DEF c
<1>8. CASE d = Judged(c, FALSE)
  BY Zenon, <1>1, <1>6, <1>8 DEF c
<1> QED BY Zenon, <1>1, <1>3, <1>4, <1>5, <1>7, <1>8

\* A deploy with nothing to go back to.
Stuck(c) == c.action # "rollback" /\ c.fallback = None

\* A failed release is left, or recorded as a stranded rollback, or replaced by the previous one.
LEMMA RespondStep ==
  ASSUME Types, NEW o \in Commanders, respond(o)
  PROVE  \E c \in Command :
           /\ op' = [op EXCEPT ![o] = c]
           /\ \/ c = NoCommand /\ drift' \in {"left", "stuck"} /\ (drift' = "stuck" => Stuck(op[o]))
              \/ /\ Same(c, op[o]) /\ drift' = drift /\ c.full = op[o].full
                 /\ \/ c.action = "rollback" /\ c.pc = "write" /\ c.stage = "stranded"
                    \/ c.action # "rollback" /\ c.pc = "up" /\ c.stage = "fallback"
<1> DEFINE c == op[o]
<1>0. c \in Command /\ op \in [Commanders -> Command]
  BY DEF Types
<1>1. \/ op' = [op EXCEPT ![o] = NoCommand] /\ drift' \in {"left", "stuck"} /\ (drift' = "stuck" => Stuck(c))
      \/ c.action = "rollback" /\ op' = [op EXCEPT ![o].pc = "write", ![o].stage = "stranded"] /\ drift' = drift
      \/ c.action # "rollback" /\ op' = [op EXCEPT ![o].pc = "up", ![o].stage = "fallback"] /\ drift' = drift
  BY Zenon DEF respond, Ends, planFailureResponse, Stuck
<1>2. CASE op' = [op EXCEPT ![o] = NoCommand] /\ drift' \in {"left", "stuck"} /\ (drift' = "stuck" => Stuck(c))
  BY Zenon, <1>2, NoCommandFacts
<1>3. CASE c.action = "rollback" /\ op' = [op EXCEPT ![o].pc = "write", ![o].stage = "stranded"] /\ drift' = drift
  <2> DEFINE d == [c EXCEPT !.pc = "write", !.stage = "stranded"]
  <2>1. op' = [op EXCEPT ![o] = d]
    BY Zenon, <1>0, <1>3
  <2>2. d \in Command /\ Same(d, c) /\ d.action = "rollback" /\ d.pc = "write" /\ d.stage = "stranded"
          /\ d.full = c.full
    BY Zenon, <1>0, <1>3 DEF Command, Same
  <2> HIDE DEF d
  <2> QED BY Zenon, <1>3, <2>1, <2>2
<1>4. CASE c.action # "rollback" /\ op' = [op EXCEPT ![o].pc = "up", ![o].stage = "fallback"] /\ drift' = drift
  <2> DEFINE d == [c EXCEPT !.pc = "up", !.stage = "fallback"]
  <2>1. op' = [op EXCEPT ![o] = d]
    BY Zenon, <1>0, <1>4
  <2>2. d \in Command /\ Same(d, c) /\ d.action # "rollback" /\ d.pc = "up" /\ d.stage = "fallback"
          /\ d.full = c.full
    BY Zenon, <1>0, <1>4 DEF Command, Same
  <2> HIDE DEF d
  <2> QED BY Zenon, <1>4, <2>1, <2>2
<1> QED BY <1>1, <1>2, <1>3, <1>4
\* The state is recorded, or the command ends without it.
LEMMA WriteStep ==
  ASSUME Types, GoodRecord(file), NEW o \in Commanders, writeState(o)
  PROVE  \/ /\ op' = [op EXCEPT ![o] = NoCommand] /\ drift' = "record"
            /\ ~(readable /\ (op[o].action = "rollback" => canRollback(parseState)))
            /\ UNCHANGED <<file, tried>>
         \/ /\ \E c \in Command : op' = [op EXCEPT ![o] = c] /\ Same(c, op[o]) /\ c.pc = "tag" /\ c.stage = op[o].stage
                               /\ c.full = op[o].full /\ c.next = file'.history
            /\ drift' = drift /\ file'.kind = "ok"
            /\ file' \in StateFile /\ GoodRecord(file')
            /\ \/ /\ op[o].action # "rollback" /\ tried' = {}
                  /\ file'.current = op[o].target
                  /\ \A i \in 1..Len(file'.history) :
                       \/ file'.history[i] = op[o].target
                       \/ \E j \in 1..Len(file.history) : file'.history[i] = file.history[j]
               \/ /\ op[o].action = "rollback" /\ tried' = tried
                  /\ 2 \in 1..Len(file.history) /\ file'.current = file.history[2]
                  /\ \A i \in 1..Len(file'.history) :
                       file'.history[i] = file.history[i + 1] /\ i + 1 \in 1..Len(file.history)
<1> DEFINE c == op[o]
<1>0. c \in Command /\ op \in [Commanders -> Command] /\ c.target \in Nat /\ file \in StateFile
  BY DEF Types, Command
<1>1. /\ parseState \in StateFile /\ GoodRecord(parseState)
      /\ parseState.history = file.history /\ parseState.current = file.current
  BY <1>0 DEF parseState, emptyState, StateFile, GoodRecord, NoRepeats, None
<1>2. CASE ~(readable /\ (c.action = "rollback" => canRollback(parseState)))
  BY <1>2 DEF writeState, Ends
<1>3. CASE readable /\ (c.action = "rollback" => canRollback(parseState))
  <2>1. /\ file' = IF c.action = "rollback" THEN nextStateAfterRollback(parseState)
                   ELSE nextStateAfterDeploy(parseState, c.target)
        /\ tried' = IF c.action = "rollback" THEN tried ELSE {}
        /\ op' = [op EXCEPT ![o].pc = "tag", ![o].next = file'.history] /\ drift' = drift
    BY <1>3 DEF writeState
  <2>2. parseState.kind = "ok"
    BY <1>0, <1>3 DEF readable, parseState, emptyState, StateFile
  <2> DEFINE Recorded ==
        /\ file' \in StateFile /\ GoodRecord(file') /\ file'.kind = "ok"
        /\ \/ /\ c.action # "rollback" /\ tried' = {}
              /\ file'.current = c.target
              /\ \A i \in 1..Len(file'.history) :
                   \/ file'.history[i] = c.target
                   \/ \E j \in 1..Len(file.history) : file'.history[i] = file.history[j]
           \/ /\ c.action = "rollback" /\ tried' = tried
              /\ 2 \in 1..Len(file.history) /\ file'.current = file.history[2]
              /\ \A i \in 1..Len(file'.history) :
                   file'.history[i] = file.history[i + 1] /\ i + 1 \in 1..Len(file.history)
  <2>3. ASSUME c.action = "rollback" PROVE Recorded
    <3>1. canRollback(parseState) /\ file' = nextStateAfterRollback(parseState) /\ tried' = tried
      BY <1>3, <2>1, <2>3
    <3>2. /\ file' \in StateFile /\ GoodRecord(file') /\ file'.kind = "ok"
          /\ file'.current = file.history[2] /\ 2 \in 1..Len(file.history)
          /\ \A i \in 1..Len(file'.history) : file'.history[i] = file.history[i + 1] /\ i + 1 \in 1..Len(file.history)
      BY <1>1, <3>1, RollbackRecorded
    <3> QED BY <2>3, <3>1, <3>2
  <2>4. ASSUME c.action # "rollback" PROVE Recorded
    <3>1. file' = nextStateAfterDeploy(parseState, c.target) /\ tried' = {}
      BY <2>1, <2>4
    <3>2. /\ file' \in StateFile /\ GoodRecord(file') /\ file'.kind = "ok"
          /\ file'.current = c.target
          /\ \A i \in 1..Len(file'.history) :
               file'.history[i] = c.target \/ \E j \in 1..Len(file.history) : file'.history[i] = file.history[j]
      BY <1>0, <1>1, <2>2, <3>1, DeployRecorded
    <3> QED BY <2>4, <3>1, <3>2
  <2>5. file' \in StateFile
    BY <2>3, <2>4
  <2> DEFINE h == file'.history
             d == [c EXCEPT !.pc = "tag", !.next = h]
  <2>6. op' = [op EXCEPT ![o] = d]
    BY Zenon, <1>0, <2>1
  <2>7. h \in Seq(Nat)
    BY <2>5 DEF StateFile
  <2> HIDE DEF h
  <2>8. d \in Command /\ Same(d, c) /\ d.pc = "tag" /\ d.stage = c.stage
        /\ d.full = c.full /\ d.next = h
    BY Zenon, <1>0, <2>7 DEF Command, Same
  <2> HIDE DEF d
  <2>9. \E x \in Command : /\ op' = [op EXCEPT ![o] = x] /\ Same(x, c) /\ x.pc = "tag" /\ x.stage = c.stage
                           /\ x.full = c.full /\ x.next = file'.history
    BY Zenon, <2>6, <2>8 DEF h
  <2> QED BY Zenon, <2>1, <2>3, <2>4, <2>9
<1> QED BY <1>2, <1>3
-----------------------------------------------------------------------------
(* The schema stays ahead, action by action *)

LEMMA StartKeeps ==
  ASSUME IInv, NEW o \in Commanders, main(o)
  PROVE  IInv'
<1>0. /\ file \in StateFile /\ schema \in Nat
      /\ parseState \in StateFile /\ parseState.history = file.history /\ parseState.current = file.current
  BY DEF IInv, Types, parseState, emptyState, StateFile, GoodRecord, None
<1>1. PICK a \in Invocations :
        \/ isImmutableTag(a) /\ op' = [op EXCEPT ![o] = planDeploy(parseState, a.tag, a)]
        \/ canRollback(parseState) /\ op' = [op EXCEPT ![o] = planRollback(parseState, a)]
  BY DEF main
<1>2. UNCHANGED <<file, running, schema>>
  BY DEF main
<1>3. a.tag \in Nat /\ a.revert \in BOOLEAN
  BY ReleaseAssumption
<1>4. CASE op' = [op EXCEPT ![o] = planDeploy(parseState, a.tag, a)]
  <2> DEFINE c == planDeploy(parseState, a.tag, a)
  <2>1. c \in Command /\ c.fallback = file.current /\ c.pc = "migrate"
    <3>1. parseState.current \in Nat
      BY <1>0 DEF StateFile
    <3> QED BY Zenon, <1>0, <1>3, <3>1, NoCommandFacts DEF planDeploy, Command
  <2>2. Behind(c, schema')
    BY <1>2, <2>1 DEF Behind, IInv, Migrated
  <2> HIDE DEF c
  <2> QED BY <1>0, <1>2, <1>4, <2>1, <2>2, OneCommand, SchemaGrows DEF IInv, Types, Migrated, c
<1>5. CASE canRollback(parseState) /\ op' = [op EXCEPT ![o] = planRollback(parseState, a)]
  <2> DEFINE c == planRollback(parseState, a)
  <2>0. parseState.history[2] \in Nat /\ parseState.current \in Nat
    BY <1>0, <1>5 DEF StateFile, canRollback
  <2>1. c \in Command /\ c.fallback = 0 /\ c.pc = "migrate"
    BY Zenon, <1>3, <2>0, NoCommandFacts DEF planRollback, Command
  <2>2. Behind(c, schema')
    BY <1>0, <1>2, <2>1 DEF Behind
  <2> HIDE DEF c
  <2> QED BY <1>0, <1>2, <1>5, <2>1, <2>2, OneCommand, SchemaGrows DEF IInv, Types, Migrated, c
<1> QED BY <1>1, <1>4, <1>5

LEMMA MigrateKeeps ==
  ASSUME IInv, NEW o \in Commanders, runMigrations(o)
  PROVE  IInv'
<1>0. op[o] \in Command /\ schema \in Nat /\ Behind(op[o], schema) /\ op \in [Commanders -> Command]
  BY DEF IInv, Types, Migrated
<1>1. UNCHANGED <<file, running>>
  BY DEF runMigrations
<1>2. CASE schema' = (IF op[o].target > schema THEN op[o].target ELSE schema) /\ Moves(o, "up")
  <2> DEFINE c == [op[o] EXCEPT !.pc = "up"]
  <2>1. op' = [op EXCEPT ![o] = c]
    BY <1>0, <1>2 DEF Moves
  <2>2. c \in Command /\ c.target = op[o].target /\ c.fallback = op[o].fallback
    BY Zenon, <1>0 DEF Command
  <2>3. schema' \in Nat /\ schema <= schema' /\ op[o].target <= schema'
    BY <1>0, <1>2 DEF Command
  <2>4. Behind(c, schema')
    BY <1>0, <2>2, <2>3 DEF Behind, Command
  <2> HIDE DEF c
  <2> QED BY Zenon, <1>1, <2>1, <2>2, <2>3, <2>4, OneCommand, SchemaGrows DEF IInv, Types, Migrated
<1>3. CASE (\E s \in schema..LastTag : schema' = s) /\ op' = [op EXCEPT ![o] = NoCommand]
  <2>1. schema' \in Nat /\ schema <= schema'
    BY <1>0, <1>3, ReleaseAssumption
  <2> QED BY Zenon, <1>1, <1>3, <2>1, NoCommandFacts, OneCommand, SchemaGrows DEF IInv, Types, Migrated
<1> QED BY <1>2, <1>3 DEF runMigrations, Ends

\* A command that goes on is as far behind the schema as it was.
LEMMA SameBehind ==
  ASSUME IInv, NEW o \in Commanders, op[o].pc \notin {"idle", "migrate"}, NEW c \in Command, Same(c, op[o])
  PROVE  Behind(c, schema)
BY DEF IInv, Migrated, Behind, Same

\* A step that only moves a command on, or ends it.
LEMMA MovesOnKeeps ==
  ASSUME IInv, NEW o \in Commanders, op[o].pc \notin {"idle", "migrate"},
         UNCHANGED <<file, running, schema>>,
         NEW c \in Command, op' = [op EXCEPT ![o] = c], c = NoCommand \/ Same(c, op[o])
  PROVE  IInv'
<1>1. schema \in Nat
  BY DEF IInv, Types
<1>2. Behind(c, schema')
  BY <1>1, SameBehind, NoCommandFacts
<1> QED BY <1>1, <1>2, OneCommand, SchemaGrows DEF IInv, Types, Migrated

LEMMA BringUpKeeps ==
  ASSUME IInv, NEW o \in Commanders, bringUp(o)
  PROVE  IInv'
<1> DEFINE tag == Wanted(op[o])
<1>0. op[o] \in Command /\ schema \in Nat /\ Behind(op[o], schema) /\ running \in [Services -> Nat]
  BY DEF IInv, Types, Migrated
<1>1. op[o].pc = "up" /\ UNCHANGED <<file, schema>>
  BY DEF bringUp
<1>2. tag \in Nat /\ tag <= schema
  BY <1>0, <1>1 DEF Wanted, Behind, Command
<1>3. PICK replaced \in SUBSET Services :
        running' = [s \in Services |-> IF s \in replaced THEN tag ELSE running[s]]
  BY DEF bringUp
<1> HIDE DEF tag
<1>4. running' \in [Services -> Nat] /\ \A s \in Services : running'[s] \in {tag, running[s]}
  BY <1>0, <1>2, <1>3
<1>5. SchemaLeadsCode'
  BY <1>1, <1>2, <1>4 DEF IInv, Migrated, SchemaLeadsCode
<1>6. PICK c \in Command : op' = [op EXCEPT ![o] = c] /\ Same(c, op[o])
  BY BringUpStep DEF IInv
<1>7. Behind(c, schema')
  BY <1>1, <1>6, SameBehind
<1> QED BY <1>0, <1>1, <1>4, <1>5, <1>6, <1>7, OneCommand DEF IInv, Types, Migrated

LEMMA WriteKeeps ==
  ASSUME IInv, NEW o \in Commanders, writeState(o)
  PROVE  IInv'
<1>0. /\ op[o] \in Command /\ schema \in Nat /\ op[o].target <= schema /\ file.current <= schema
      /\ \A i \in 1..Len(file.history) : file.history[i] <= schema
      /\ op[o].pc = "write" /\ UNCHANGED <<running, schema>>
  BY DEF IInv, Types, Migrated, Behind, writeState
<1>1. CASE op' = [op EXCEPT ![o] = NoCommand] /\ UNCHANGED file
  BY Zenon, <1>0, <1>1, NoCommandFacts, MovesOnKeeps
<1>2. CASE /\ \E c \in Command : op' = [op EXCEPT ![o] = c] /\ Same(c, op[o])
           /\ file' \in StateFile /\ GoodRecord(file')
           /\ file'.current <= schema
           /\ \A i \in 1..Len(file'.history) : file'.history[i] <= schema
  <2>1. PICK c \in Command : op' = [op EXCEPT ![o] = c] /\ Same(c, op[o])
    BY Zenon, <1>2
  <2>2. Behind(c, schema')
    BY <1>0, <2>1, SameBehind
  <2>3. SchemaLeadsCode'
    BY <1>0 DEF IInv, Migrated, SchemaLeadsCode
  <2> QED BY <1>0, <1>2, <2>1, <2>2, <2>3, OneCommand DEF IInv, Types, Migrated
<1> QED BY <1>0, <1>1, <1>2, WriteStep DEF IInv

LEMMA TagKeeps ==
  ASSUME IInv, NEW o \in Commanders, recordTagInEnvFile(o)
  PROVE  IInv'
<1>0. op[o] \in Command /\ op[o].pc = "tag" /\ UNCHANGED <<file, running, schema>>
  BY DEF IInv, Types, recordTagInEnvFile
<1> DEFINE d == [op[o] EXCEPT !.pc = "prune"]
<1>1. op' = [op EXCEPT ![o] = NoCommand] \/ op' = [op EXCEPT ![o] = d]
  BY Zenon DEF recordTagInEnvFile
<1>2. d \in Command /\ Same(d, op[o])
  BY Zenon, <1>0 DEF Command, Same
<1> HIDE DEF d
<1> QED BY <1>0, <1>1, <1>2, NoCommandFacts, MovesOnKeeps

LEMMA CrashKeeps ==
  ASSUME IInv, NEW o \in Commanders, Crash(o)
  PROVE  IInv'
<1>0. /\ op[o].pc \notin {"idle", "migrate"} /\ op' = [op EXCEPT ![o] = NoCommand]
      /\ schema \in Nat /\ UNCHANGED <<running, schema>>
  BY DEF IInv, Types, Crash, Ends
<1>1. CASE file' = file
  BY Zenon, <1>0, <1>1, NoCommandFacts, MovesOnKeeps
<1>2. CASE \E kind \in {"empty", "torn"} : file' = [kind |-> kind, current |-> None, history |-> <<>>]
  <2>1. file' \in StateFile /\ GoodRecord(file') /\ file'.current = 0 /\ file'.history = <<>>
    BY <1>2 DEF StateFile, GoodRecord, NoRepeats, None
  <2>2. SchemaLeadsCode'
    BY <1>0 DEF IInv, Migrated, SchemaLeadsCode
  <2> QED BY <1>0, <2>1, <2>2, NoCommandFacts, OneCommand DEF IInv, Types, Migrated
<1> QED BY <1>1, <1>2 DEF Crash

LEMMA NextKeeps ==
  ASSUME IInv, [ReleaseNext]_releaseVars
  PROVE  IInv'
<1>1. CASE UNCHANGED releaseVars
  BY <1>1 DEF releaseVars, IInv, Types, Migrated, SchemaLeadsCode
<1>2. ASSUME NEW o \in Commanders, Step(o)
      PROVE  IInv'
  <2>1. CASE Report(o)
    BY <2>1 DEF Report, IInv, Types, Migrated, SchemaLeadsCode
  <2>2. CASE waitFor(o)
    <3>1. op[o].pc = "wait" /\ UNCHANGED <<file, running, schema>>
      BY <2>2 DEF waitFor
    <3>2. PICK c \in Command : op' = [op EXCEPT ![o] = c] /\ (c = NoCommand \/ Same(c, op[o]))
      BY <2>2, WaitStep DEF IInv
    <3> QED BY Zenon, <3>1, <3>2, MovesOnKeeps
  <2>3. CASE respond(o)
    <3>1. op[o].pc = "respond" /\ UNCHANGED <<file, running, schema>>
      BY <2>3 DEF respond
    <3>2. PICK c \in Command : op' = [op EXCEPT ![o] = c] /\ (c = NoCommand \/ Same(c, op[o]))
      BY <2>3, RespondStep DEF IInv
    <3> QED BY Zenon, <3>1, <3>2, MovesOnKeeps
  <2>4. CASE pruneReleaseImages(o)
    <3>1. op[o].pc = "prune" /\ op' = [op EXCEPT ![o] = NoCommand] /\ UNCHANGED <<file, running, schema>>
      BY <2>4 DEF pruneReleaseImages
    <3> QED BY Zenon, <3>1, NoCommandFacts, MovesOnKeeps
  <2> QED BY <1>2, <2>1, <2>2, <2>3, <2>4, StartKeeps, MigrateKeeps, BringUpKeeps, WriteKeeps, TagKeeps,
            CrashKeeps DEF Step
<1> QED BY <1>1, <1>2 DEF ReleaseNext

LEMMA InitHolds ==
  ASSUME ReleaseInit
  PROVE  IInv
<1>1. PICK k \in 0..(LastTag - 1) : Deployed(k)
  BY DEF ReleaseInit
<1> DEFINE n == IF k < MAX_HISTORY THEN k ELSE MAX_HISTORY
           h == [i \in 1..n |-> k + 1 - i]
<1>2. k \in Nat /\ n \in Nat /\ n <= k
  BY ReleaseAssumption
<1>3. h \in Seq(Nat) /\ Len(h) = n /\ \A i \in 1..n : h[i] = k + 1 - i
  <2>1. \A i \in 1..n : k + 1 - i \in Nat
    BY <1>2
  <2> QED BY <1>2, <2>1, IsASeq
<1>4. file = [kind |-> IF k = 0 THEN "empty" ELSE "ok", current |-> k, history |-> h]
      /\ running = [s \in Services |-> k] /\ schema = k
  BY <1>1 DEF Deployed, None
<1>5. k = 0 => h = <<>>
  BY <1>2, <1>3
<1> HIDE DEF h, n
<1>6. file \in StateFile
  BY <1>2, <1>3, <1>4 DEF StateFile
<1>7. GoodRecord(file)
  <2>1. NoRepeats(h)
    BY <1>2, <1>3 DEF NoRepeats
  <2>2. Len(h) > 0 => h[1] = k
    BY <1>2, <1>3
  <2> QED BY <1>4, <1>5, <2>1, <2>2 DEF GoodRecord, None
<1>8. op = [o \in Commanders |-> NoCommand]
  BY DEF ReleaseInit
<1>9. \A i \in 1..Len(file.history) : file.history[i] <= schema
  BY <1>2, <1>3, <1>4
<1> QED BY <1>2, <1>4, <1>6, <1>7, <1>8, <1>9, NoCommandFacts DEF IInv, Types, Migrated, SchemaLeadsCode

\* No container ever runs a release whose migrations the database does not have, for any number of
\* releases and commands, started together or one at a time, and any number of crashes and of swaps
\* compose did not finish (runMigrations, bringUp, respond).
THEOREM SchemaLeadsCodeHolds == ReleaseSpec => []SchemaLeadsCode
<1>1. ReleaseInit => IInv
  BY InitHolds
<1>2. IInv /\ [ReleaseNext]_releaseVars => IInv'
  BY NextKeeps
<1>3. IInv => SchemaLeadsCode
  BY DEF IInv, Migrated
<1> QED BY <1>1, <1>2, <1>3, PTL DEF ReleaseSpec
\* The record names the current release first and no release twice, after any deploys, rollbacks and
\* crashes, of one command or of several at once (nextStateAfterDeploy, nextStateAfterRollback).
THEOREM RecordIsGood == ReleaseSpec => []GoodRecord(file)
<1>1. ReleaseInit => IInv
  BY InitHolds
<1>2. IInv /\ [ReleaseNext]_releaseVars => IInv'
  BY NextKeeps
<1>3. IInv => GoodRecord(file)
  BY DEF IInv
<1>4. QED
  BY <1>1, <1>2, <1>3, PTL DEF ReleaseSpec
-----------------------------------------------------------------------------
(* Rollbacks walk back *)

Rolling(c) == c.action = "rollback" /\ c.pc \in {"migrate", "up", "wait", "respond", "write"}

\* A rollback never waits for its fallback, and brings up its target.
Staged(c) == c.action = "rollback" => c.stage # "fallback" /\ (c.pc \in {"migrate", "up"} => c.stage = "target")

\* A rollback that has brought its target up and has not recorded it.
Unrecorded(c) == c.action = "rollback" /\ c.pc \in {"wait", "respond", "write"}

TriedBefore(n) == \A i \in n..Len(file.history) : file.history[i] \notin tried

Alone == \A o, p \in Commanders : op[o].pc # "idle" /\ op[p].pc # "idle" => o = p

RollsFromTheRecord ==
  \A o \in Commanders : Rolling(op[o]) =>
    /\ 2 \in 1..Len(file.history)
    /\ op[o].from = file.history[1] /\ op[o].target = file.history[2]

\* What a rollback has touched stands at the first two places of the history, and at the first alone
\* once it is recorded.
Walked ==
  /\ TriedBefore(3)
  /\ (\E o \in Commanders : op[o].pc = "tag") => TriedBefore(2)
  /\ drift = "none" /\ (\A o \in Commanders : ~Unrecorded(op[o])) => TriedBefore(2)

WInv ==
  /\ IInv
  /\ \A o \in Commanders : Staged(op[o])
  /\ serial => Alone /\ RollsFromTheRecord /\ Walked

\* While one command runs, the others are idle, before and after its step.
LEMMA OthersIdle ==
  ASSUME Types, Alone, NEW o \in Commanders, NEW c \in Command, op' = [op EXCEPT ![o] = c],
         op[o].pc # "idle" \/ AllIdle
  PROVE  /\ op'[o] = c /\ Alone'
         /\ \A p \in Commanders : p # o => op[p].pc = "idle" /\ op'[p] = op[p]
BY DEF Types, Alone, AllIdle

\* What is left to show of a step of command o.
LEMMA WalkStep ==
  ASSUME WInv, IInv', serial', serial, NEW o \in Commanders, NEW c \in Command, op' = [op EXCEPT ![o] = c],
         op[o].pc # "idle" \/ AllIdle, Staged(c),
         Rolling(c) => /\ 2 \in 1..Len(file'.history)
                       /\ c.from = file'.history[1] /\ c.target = file'.history[2],
         TriedBefore(3)', c.pc = "tag" => TriedBefore(2)',
         drift' = "none" /\ ~Unrecorded(c) => TriedBefore(2)'
  PROVE  WInv'
<1>1. /\ op'[o] = c /\ Alone'
      /\ \A p \in Commanders : p # o => op[p].pc = "idle" /\ op'[p] = op[p]
  BY Zenon, OthersIdle DEF WInv, IInv
<1>2. \A p \in Commanders : Staged(op'[p])
  BY <1>1 DEF WInv
<1>3. RollsFromTheRecord'
  BY <1>1 DEF RollsFromTheRecord, Rolling
<1>4. Walked'
  BY <1>1 DEF Walked, Unrecorded
<1> QED BY <1>1, <1>2, <1>3, <1>4 DEF WInv

\* A step of a behaviour whose commands may overlap keeps only the stages.
LEMMA FreeStep ==
  ASSUME WInv, IInv', ~serial, UNCHANGED serial, NEW o \in Commanders, NEW c \in Command,
         op' = [op EXCEPT ![o] = c], Staged(c)
  PROVE  WInv'
<1>1. \A p \in Commanders : op'[p] = c \/ op'[p] = op[p]
  BY DEF WInv, IInv, Types
<1> QED BY <1>1 DEF WInv

\* The first two places of the history are not further down it.
LEMMA TriedGrows ==
  ASSUME GoodRecord(file), file \in StateFile, TriedBefore(3), 2 \in 1..Len(file.history),
         tried' \subseteq tried \cup {file.history[1], file.history[2]}, UNCHANGED file
  PROVE  TriedBefore(3)'
<1> SUFFICES ASSUME NEW i \in 3..Len(file.history) PROVE file.history[i] \notin tried'
  BY DEF TriedBefore
<1>1. Len(file.history) \in Nat
  BY DEF StateFile
<1>2. i \in 1..Len(file.history) /\ 1 \in 1..Len(file.history) /\ i # 1 /\ i # 2
  BY <1>1
<1>3. file.history[i] # file.history[1] /\ file.history[i] # file.history[2]
  BY <1>2 DEF GoodRecord, NoRepeats
<1> QED BY <1>3 DEF TriedBefore

\* A step of a running command that leaves the record and what was tried alone.
LEMMA QuietStep ==
  ASSUME WInv, IInv', NEW o \in Commanders, NEW c \in Command, op' = [op EXCEPT ![o] = c],
         op[o].pc # "idle", UNCHANGED <<file, serial, tried>>, Staged(c),
         Rolling(c) => Rolling(op[o]) /\ Same(c, op[o]),
         c.pc # "tag",
         drift' = "none" /\ ~Unrecorded(c) =>
           op[o].pc = "tag" \/ (drift = "none" /\ ~Unrecorded(op[o]))
  PROVE  WInv'
<1>1. CASE ~serial
  BY Zenon, <1>1, FreeStep
<1>2. CASE serial
  <2>1. /\ op'[o] = c
        /\ \A p \in Commanders : p # o => op[p].pc = "idle" /\ op'[p] = op[p]
    BY Zenon, <1>2, OthersIdle DEF WInv, IInv
  <2>2. Rolling(c) => /\ 2 \in 1..Len(file'.history)
                      /\ c.from = file'.history[1] /\ c.target = file'.history[2]
    BY <1>2 DEF WInv, RollsFromTheRecord, Same
  <2>3. TriedBefore(3)'
    BY <1>2 DEF WInv, Walked, TriedBefore
  <2>4. drift' = "none" /\ ~Unrecorded(c) => TriedBefore(2)'
    <3> SUFFICES ASSUME drift' = "none", ~Unrecorded(c) PROVE TriedBefore(2)
      BY DEF TriedBefore
    <3>1. \A p \in Commanders : p # o => ~Unrecorded(op[p])
      BY <2>1 DEF Unrecorded
    <3> QED BY <1>2, <3>1 DEF WInv, Walked
  <2> QED BY Zenon, <1>2, <2>2, <2>3, <2>4, WalkStep
<1> QED BY <1>1, <1>2

\* A rollback is planned from the record, from its second place.
LEMMA StartWalks ==
  ASSUME WInv, NEW o \in Commanders, main(o)
  PROVE  /\ WInv'
         /\ serial /\ op'[o].action = "rollback" => AllIdle /\ op'[o].target = file.history[2] /\ 2 \in 1..Len(file.history)
<1>0. /\ file \in StateFile /\ GoodRecord(file) /\ op \in [Commanders -> Command]
      /\ parseState \in StateFile /\ parseState.history = file.history /\ parseState.current = file.current
  BY DEF WInv, IInv, Types, parseState, emptyState, StateFile, GoodRecord, None
<1>1. PICK a \in Invocations :
        \/ isImmutableTag(a) /\ op' = [op EXCEPT ![o] = planDeploy(parseState, a.tag, a)]
        \/ canRollback(parseState) /\ op' = [op EXCEPT ![o] = planRollback(parseState, a)]
  BY DEF main
<1>2. UNCHANGED <<file, serial, drift, tried>> /\ (serial => AllIdle) /\ op[o].pc = "idle"
  BY DEF main, AllIdle
<1>3. a.tag \in Nat /\ a.revert \in BOOLEAN
  BY ReleaseAssumption
<1>4. PICK c \in Command :
        /\ op' = [op EXCEPT ![o] = c] /\ c.pc = "migrate" /\ c.stage = "target"
        /\ c.action = "rollback" => /\ 2 \in 1..Len(file.history)
                                    /\ c.from = file.history[1] /\ c.target = file.history[2]
  <2>1. CASE op' = [op EXCEPT ![o] = planDeploy(parseState, a.tag, a)]
    <3> DEFINE c == planDeploy(parseState, a.tag, a)
    <3>1. parseState.current \in Nat
      BY <1>0 DEF StateFile
    <3>2. c \in Command /\ c.pc = "migrate" /\ c.stage = "target" /\ c.action = "deploy"
      BY Zenon, <1>3, <3>1, NoCommandFacts DEF planDeploy, Command
    <3> QED BY Zenon, <2>1, <3>2
  <2>2. CASE canRollback(parseState) /\ op' = [op EXCEPT ![o] = planRollback(parseState, a)]
    <3> DEFINE c == planRollback(parseState, a)
    <3>1. file.history \in Seq(Nat) /\ Len(file.history) \in Nat /\ Len(file.history) > 1
      BY <1>0, <2>2 DEF StateFile, canRollback
    <3>2. parseState.history[2] \in Nat /\ parseState.current \in Nat /\ 2 \in 1..Len(file.history)
      BY <1>0, <3>1 DEF StateFile
    <3>3. c \in Command /\ c.pc = "migrate" /\ c.stage = "target"
          /\ c.from = parseState.current /\ c.target = parseState.history[2]
      BY Zenon, <1>3, <3>2, NoCommandFacts DEF planRollback, Command
    <3>4. file.history[1] = file.current
      BY <1>0, <3>1 DEF GoodRecord
    <3> HIDE DEF c
    <3> QED BY Zenon, <1>0, <2>2, <3>2, <3>3, <3>4 DEF c
  <2> QED BY <1>1, <2>1, <2>2
<1>5. op'[o] = c
  BY <1>0, <1>4
<1>6. IInv'
  BY StartKeeps DEF WInv
<1>7. Staged(c) /\ ~Unrecorded(c)
  BY <1>4 DEF Staged, Unrecorded
<1>8. CASE ~serial
  BY Zenon, <1>2, <1>4, <1>6, <1>7, <1>8, FreeStep
<1>9. CASE serial
  <2>1. TriedBefore(3)' /\ (drift' = "none" => TriedBefore(2)')
    <3>1. \A p \in Commanders : ~Unrecorded(op[p])
      BY <1>2, <1>9 DEF AllIdle, Unrecorded
    <3> QED BY <1>2, <1>9, <3>1 DEF WInv, Walked, TriedBefore
  <2>2. Rolling(c) => /\ 2 \in 1..Len(file'.history)
                      /\ c.from = file'.history[1] /\ c.target = file'.history[2]
    BY <1>2, <1>4 DEF Rolling
  <2>3. WInv'
    BY Zenon, <1>2, <1>4, <1>6, <1>7, <1>9, <2>1, <2>2, WalkStep
  <2> QED BY <1>2, <1>4, <1>5, <1>9, <2>3
<1> QED BY <1>8, <1>9

\* Bringing a rollback up touches the first two places of the history.
LEMMA BringUpWalks ==
  ASSUME WInv, NEW o \in Commanders, bringUp(o)
  PROVE  WInv'
<1>0. /\ op[o].pc = "up" /\ UNCHANGED <<file, serial, drift>>
      /\ tried' = IF op[o].action = "rollback" THEN tried \cup {op[o].from, Wanted(op[o])} ELSE tried
  BY DEF bringUp
<1>1. PICK c \in Command : /\ op' = [op EXCEPT ![o] = c] /\ Same(c, op[o]) /\ c.pc = "wait"
                           /\ c.stage = op[o].stage
  BY BringUpStep DEF WInv, IInv
<1>2. Staged(op[o]) /\ Staged(c)
  BY <1>1 DEF WInv, Staged, Same
<1>3. IInv'
  BY BringUpKeeps DEF WInv
<1>4. CASE op[o].action # "rollback"
  <2>1. ~Rolling(c) /\ ~Unrecorded(op[o]) /\ tried' = tried
    BY <1>0, <1>1, <1>4 DEF Rolling, Unrecorded, Same
  <2> QED BY Zenon, <1>0, <1>1, <1>2, <1>3, <2>1, QuietStep
<1>5. CASE ~serial
  BY Zenon, <1>0, <1>1, <1>2, <1>3, <1>5, FreeStep
<1>6. CASE op[o].action = "rollback" /\ serial
  <2>1. Rolling(op[o]) /\ Unrecorded(c) /\ Wanted(op[o]) = op[o].target
    BY <1>0, <1>1, <1>2, <1>6 DEF Rolling, Unrecorded, Same, Staged, Wanted
  <2>2. /\ 2 \in 1..Len(file.history)
        /\ op[o].from = file.history[1] /\ op[o].target = file.history[2]
    BY SMTT(30), <1>6, <2>1 DEF WInv, RollsFromTheRecord
  <2>3. TriedBefore(3)'
    BY <1>0, <1>6, <2>1, <2>2, TriedGrows DEF WInv, IInv, Types, Walked
  <2>4. Rolling(c) => /\ 2 \in 1..Len(file'.history)
                      /\ c.from = file'.history[1] /\ c.target = file'.history[2]
    BY <1>0, <1>1, <2>2 DEF Same
  <2> QED BY Zenon, <1>0, <1>1, <1>2, <1>3, <1>6, <2>1, <2>3, <2>4, WalkStep
<1> QED BY <1>4, <1>5, <1>6

\* Recording a rollback moves everything tried to the first place, or out of the history.
LEMMA WriteWalks ==
  ASSUME WInv, NEW o \in Commanders, writeState(o)
  PROVE  WInv'
<1>0. op[o].pc = "write" /\ UNCHANGED serial
  BY DEF writeState
<1>1. IInv'
  BY WriteKeeps DEF WInv
<1>2. CASE op' = [op EXCEPT ![o] = NoCommand] /\ drift' = "record" /\ UNCHANGED <<file, tried>>
  <2>1. Staged(NoCommand) /\ ~Rolling(NoCommand)
    BY NoCommandFacts DEF Staged, Rolling
  <2> QED BY Zenon, <1>0, <1>1, <1>2, <2>1, NoCommandFacts, QuietStep
<1>3. ASSUME NEW c \in Command, op' = [op EXCEPT ![o] = c], Same(c, op[o]), c.pc = "tag", c.stage = op[o].stage,
             \/ tried' = {}
             \/ /\ tried' = tried
                /\ \A i \in 1..Len(file'.history) :
                     file'.history[i] = file.history[i + 1] /\ i + 1 \in 1..Len(file.history)
      PROVE  WInv'
  <2>1. Staged(c) /\ ~Rolling(c) /\ ~Unrecorded(c)
    BY <1>3 DEF WInv, Staged, Same, Rolling, Unrecorded
  <2>2. CASE ~serial
    BY Zenon, <1>0, <1>1, <1>3, <2>1, <2>2, FreeStep
  <2>3. CASE serial
    <3>0. Len(file'.history) \in Nat /\ Len(file.history) \in Nat
      BY <1>1 DEF WInv, IInv, Types, StateFile
    <3>1. TriedBefore(3)
      BY <2>3 DEF WInv, Walked
    <3>2. ASSUME NEW i \in 2..Len(file'.history) PROVE file'.history[i] \notin tried'
      <4>1. CASE tried' = {}
        BY <4>1
      <4>2. CASE /\ tried' = tried
                 /\ \A j \in 1..Len(file'.history) :
                      file'.history[j] = file.history[j + 1] /\ j + 1 \in 1..Len(file.history)
        <5>1. i \in 1..Len(file'.history)
          BY <3>0
        <5>2. i + 1 \in 3..Len(file.history) /\ file'.history[i] = file.history[i + 1]
          BY <3>0, <4>2, <5>1
        <5> QED BY <3>1, <4>2, <5>2 DEF TriedBefore
      <4> QED BY <1>3, <4>1, <4>2
    <3>3. TriedBefore(2)' /\ TriedBefore(3)'
      BY <3>0, <3>2 DEF TriedBefore
    <3> QED BY Zenon, <1>0, <1>1, <1>3, <2>1, <2>3, <3>3, WalkStep
  <2> QED BY <2>2, <2>3
<1>4. \/ op' = [op EXCEPT ![o] = NoCommand] /\ drift' = "record" /\ UNCHANGED <<file, tried>>
      \/ \E c \in Command : /\ op' = [op EXCEPT ![o] = c] /\ Same(c, op[o]) /\ c.pc = "tag" /\ c.stage = op[o].stage
                            /\ \/ tried' = {}
                               \/ /\ tried' = tried
                                  /\ \A i \in 1..Len(file'.history) :
                                       file'.history[i] = file.history[i + 1] /\ i + 1 \in 1..Len(file.history)
  BY WriteStep DEF WInv, IInv
<1> QED BY <1>2, <1>3, <1>4

LEMMA CrashWalks ==
  ASSUME WInv, NEW o \in Commanders, Crash(o)
  PROVE  WInv'
<1>0. op[o].pc # "idle" /\ op' = [op EXCEPT ![o] = NoCommand] /\ drift' = "crash" /\ UNCHANGED <<serial, tried>>
  BY DEF Crash, Ends
<1>1. IInv'
  BY CrashKeeps DEF WInv
<1>2. Staged(NoCommand) /\ ~Rolling(NoCommand)
  BY NoCommandFacts DEF Staged, Rolling
<1>3. CASE file' = file
  BY Zenon, <1>0, <1>1, <1>2, <1>3, NoCommandFacts, QuietStep
<1>4. CASE file'.history = <<>>
  <2>1. CASE ~serial
    BY Zenon, <1>0, <1>1, <1>2, <2>1, NoCommandFacts, FreeStep
  <2>2. CASE serial
    <3>1. TriedBefore(3)'
      BY <1>4 DEF TriedBefore
    <3> QED BY Zenon, <1>0, <1>1, <1>2, <2>2, <3>1, NoCommandFacts, WalkStep
  <2> QED BY <2>1, <2>2
<1> QED BY <1>3, <1>4 DEF Crash

\* The steps that touch neither the record nor what was tried.
LEMMA QuietWalks ==
  ASSUME WInv, IInv', NEW o \in Commanders,
         runMigrations(o) \/ waitFor(o) \/ recordTagInEnvFile(o) \/ pruneReleaseImages(o) \/ respond(o)
  PROVE  WInv'
<1>0. op[o] \in Command /\ op \in [Commanders -> Command] /\ Types /\ Staged(op[o])
  BY DEF WInv, IInv, Types
<1>1. Staged(NoCommand) /\ ~Rolling(NoCommand) /\ NoCommand.pc # "tag" /\ NoCommand \in Command
  BY NoCommandFacts DEF Staged, Rolling
<1>2. CASE runMigrations(o)
  <2>1. op[o].pc = "migrate" /\ UNCHANGED <<file, serial, tried, drift>>
    BY <1>2 DEF runMigrations, Ends
  <2>2. ~Unrecorded(op[o])
    BY <2>1 DEF Unrecorded
  <2>3. CASE Moves(o, "up")
    <3> DEFINE c == [op[o] EXCEPT !.pc = "up"]
    <3>1. op' = [op EXCEPT ![o] = c]
      BY <1>0, <2>3 DEF Moves
    <3>2. c \in Command /\ Same(c, op[o]) /\ c.pc = "up" /\ c.stage = op[o].stage
      BY Zenon, <1>0 DEF Command, Same
    <3> HIDE DEF c
    <3>3. Staged(c) /\ (Rolling(c) => Rolling(op[o]))
      BY <1>0, <2>1, <3>2 DEF Staged, Rolling, Same
    <3> QED BY Zenon, <2>1, <2>2, <3>1, <3>2, <3>3, QuietStep
  <2>4. CASE op' = [op EXCEPT ![o] = NoCommand]
    BY Zenon, <1>1, <2>1, <2>2, <2>4, QuietStep
  <2> QED BY <1>2, <2>3, <2>4 DEF runMigrations, Ends
<1>3. CASE waitFor(o)
  <2>1. op[o].pc = "wait" /\ UNCHANGED <<file, serial, tried>> /\ (drift' = "none" => drift = "none")
    BY Zenon, <1>3 DEF waitFor
  <2>2. PICK c \in Command :
          /\ op' = [op EXCEPT ![o] = c]
          /\ \/ c = NoCommand /\ op[o].stage = "fallback"
             \/ Same(c, op[o]) /\ c.pc \in {"wait", "write", "respond"} /\ c.stage = op[o].stage
    BY <1>0, <1>3, WaitStep
  <2>3. CASE c = NoCommand /\ op[o].stage = "fallback"
    <3>1. ~Unrecorded(op[o])
      BY <1>0, <2>3 DEF Staged, Unrecorded
    <3> QED BY Zenon, <1>1, <2>1, <2>2, <2>3, <3>1, QuietStep
  <2>4. CASE Same(c, op[o]) /\ c.pc \in {"wait", "write", "respond"} /\ c.stage = op[o].stage
    <3>1. Staged(c) /\ (Rolling(c) => Rolling(op[o])) /\ (Unrecorded(op[o]) => Unrecorded(c))
      BY <1>0, <2>1, <2>4 DEF Staged, Rolling, Unrecorded, Same
    <3> QED BY Zenon, <2>1, <2>2, <2>4, <3>1, QuietStep
  <2> QED BY <2>2, <2>3, <2>4
<1>4. CASE recordTagInEnvFile(o)
  <2>1. op[o].pc = "tag" /\ UNCHANGED <<file, serial, tried>>
    BY <1>4 DEF recordTagInEnvFile
  <2> DEFINE d == [op[o] EXCEPT !.pc = "prune"]
  <2>2. op' = [op EXCEPT ![o] = NoCommand] \/ op' = [op EXCEPT ![o] = d]
    BY Zenon, <1>4 DEF recordTagInEnvFile
  <2>3. d \in Command /\ Same(d, op[o]) /\ d.pc = "prune" /\ d.stage = op[o].stage
    BY Zenon, <1>0 DEF Command, Same
  <2> HIDE DEF d
  <2>4. Staged(d) /\ ~Rolling(d)
    BY <1>0, <2>3 DEF Staged, Rolling, Same
  <2> QED BY <1>1, <2>1, <2>2, <2>3, <2>4, QuietStep
<1>5. CASE pruneReleaseImages(o)
  <2>1. op[o].pc = "prune" /\ op' = [op EXCEPT ![o] = NoCommand] /\ UNCHANGED <<file, serial, tried, drift>>
    BY <1>5 DEF pruneReleaseImages
  <2>2. ~Unrecorded(op[o])
    BY <2>1 DEF Unrecorded
  <2> QED BY Zenon, <1>1, <2>1, <2>2, QuietStep
<1>6. CASE respond(o)
  <2>1. op[o].pc = "respond" /\ UNCHANGED <<file, serial, tried>>
    BY <1>6 DEF respond
  <2>2. PICK c \in Command :
          /\ op' = [op EXCEPT ![o] = c]
          /\ \/ c = NoCommand /\ drift' \in {"left", "stuck"}
             \/ /\ Same(c, op[o]) /\ drift' = drift
                /\ \/ c.action = "rollback" /\ c.pc = "write" /\ c.stage = "stranded"
                   \/ c.action # "rollback" /\ c.pc = "up" /\ c.stage = "fallback"
    BY <1>0, <1>6, RespondStep
  <2>3. CASE c = NoCommand /\ drift' \in {"left", "stuck"}
    BY Zenon, <1>1, <2>1, <2>2, <2>3, QuietStep
  <2>4. CASE /\ Same(c, op[o]) /\ drift' = drift
             /\ \/ c.action = "rollback" /\ c.pc = "write" /\ c.stage = "stranded"
                \/ c.action # "rollback" /\ c.pc = "up" /\ c.stage = "fallback"
    <3>1. Staged(c) /\ (Rolling(c) => Rolling(op[o])) /\ (Unrecorded(op[o]) => Unrecorded(c)) /\ c.pc # "tag"
      BY <2>1, <2>4 DEF Staged, Rolling, Unrecorded, Same
    <3> QED BY Zenon, <2>1, <2>2, <2>4, <3>1, QuietStep
  <2> QED BY <2>2, <2>3, <2>4
<1> QED BY <1>2, <1>3, <1>4, <1>5, <1>6

LEMMA NextWalks ==
  ASSUME WInv, [ReleaseNext]_releaseVars
  PROVE  WInv'
<1>1. IInv'
  BY SMTT(30), NextKeeps DEF WInv
<1>2. CASE UNCHANGED <<file, op, serial, drift, tried>>
  BY <1>1, <1>2 DEF WInv, Alone, RollsFromTheRecord, Walked, TriedBefore
<1>3. ASSUME NEW o \in Commanders, Step(o)
      PROVE  WInv'
  <2>1. CASE Report(o)
    BY <1>2, <2>1 DEF Report
  <2> QED BY Zenon, <1>1, <1>3, <2>1, StartWalks, BringUpWalks, WriteWalks, CrashWalks, QuietWalks DEF Step
<1> QED BY <1>2, <1>3 DEF ReleaseNext, releaseVars

LEMMA WalkInitially ==
  ASSUME ReleaseInit
  PROVE  WInv
<1>1. \A o \in Commanders : op[o] = NoCommand
  BY DEF ReleaseInit
<1>2. tried = {}
  BY DEF ReleaseInit
<1>3. Staged(NoCommand) /\ ~Rolling(NoCommand) /\ NoCommand.pc = "idle"
  BY NoCommandFacts DEF Staged, Rolling
<1>4. Walked
  BY <1>2 DEF Walked, TriedBefore
<1> QED BY <1>1, <1>3, <1>4, InitHolds DEF WInv, Alone, RollsFromTheRecord

\* Repeated rollbacks walk back through the history, however many releases it holds and whatever
\* failed before: none returns to a release rolled back from, or to and found wanting, since the last
\* deploy (planRollback, nextStateAfterRollback, planFailureResponse).
THEOREM RollbackWalksBackHolds == ReleaseSpec => RollbackWalksBack
<1> DEFINE Fresh == \A o \in Commanders :
             /\ serial /\ drift = "none"
             /\ op[o].pc = "idle" /\ op'[o].pc = "migrate" /\ op'[o].action = "rollback"
             => op'[o].target \notin tried
<1>1. ReleaseInit => WInv
  BY WalkInitially
<1>2. WInv /\ [ReleaseNext]_releaseVars => WInv'
  BY NextWalks
<1>3. WInv /\ [ReleaseNext]_releaseVars => [Fresh]_releaseVars
  <2> SUFFICES ASSUME WInv, ReleaseNext, NEW o \in Commanders,
                      serial, drift = "none",
                      op[o].pc = "idle", op'[o].pc = "migrate", op'[o].action = "rollback"
               PROVE  op'[o].target \notin tried
    OBVIOUS
  <2>1. PICK p \in Commanders : Step(p)
    BY DEF ReleaseNext
  <2>2. op \in [Commanders -> Command] /\ Types
    BY DEF WInv, IInv, Types
  <2>3. CASE main(p)
    <3>1. p = o
      <4>1. PICK c : op' = [op EXCEPT ![p] = c]
        BY <2>3 DEF main
      <4> QED BY <2>2, <4>1
    <3>2. AllIdle /\ op'[o].target = file.history[2] /\ 2 \in 1..Len(file.history)
      BY <2>3, <3>1, StartWalks
    <3>3. TriedBefore(2)
      BY <3>2 DEF WInv, Walked, AllIdle, Unrecorded
    <3>4. 2 \in 2..Len(file.history)
      BY <3>2
    <3> QED BY <3>2, <3>3, <3>4 DEF TriedBefore
  <2>4. CASE ~main(p)
    <3>1. op[p].pc # "idle" \/ op' = op
      BY Zenon, <2>1, <2>4 DEF Step, Report, runMigrations, bringUp, waitFor, writeState, recordTagInEnvFile,
                        pruneReleaseImages, respond, Crash
    <3>2. op' = op \/ \E c : op' = [op EXCEPT ![p] = c]
      <4>1. CASE bringUp(p)
        BY <2>2, <4>1, BringUpStep
      <4>2. CASE waitFor(p)
        BY <2>2, <4>2, WaitStep
      <4>3. CASE respond(p)
        BY <2>2, <4>3, RespondStep
      <4>4. CASE writeState(p)
        BY <2>2, <4>4, WriteStep DEF WInv, IInv
      <4>5. CASE runMigrations(p)
        BY <2>2, <4>5 DEF runMigrations, Moves, Ends
      <4>6. CASE Report(p) \/ recordTagInEnvFile(p) \/ pruneReleaseImages(p) \/ Crash(p)
        BY Zenon, <2>2, <4>6 DEF Report, recordTagInEnvFile, pruneReleaseImages, Crash, Ends
      <4> QED BY <2>1, <2>4, <4>1, <4>2, <4>3, <4>4, <4>5, <4>6 DEF Step
    <3> QED BY <2>2, <3>1, <3>2
  <2> QED BY <2>3, <2>4
<1>4. QED
  BY <1>1, <1>2, <1>3, PTL DEF ReleaseSpec, RollbackWalksBack
-----------------------------------------------------------------------------
(* The record describes the box *)

Runs(t) == \A s \in Services : running[s] = t

\* What the containers were last replaced by.
Brought(c) == IF c.stage = "fallback" THEN c.fallback ELSE c.target

\* The images of every release of the history are on the box.
Kept == \A i \in 1..Len(file.history) : file.history[i] \in images

Described ==
  /\ drift = "none" => readable /\ Runs(file.current) /\ envTag = file.current
  /\ drift = "stuck" => file.current = None

\* Until it records its target, a command finds the record and the env file as when it was planned.
Planned(c) ==
  /\ c.action = "rollback" => canRollback(file) /\ c.target = file.history[2]
  /\ c.action # "rollback" => c.fallback = file.current
  /\ drift = "none" => envTag = file.current
  /\ drift = "stuck" => file.current = None

\* Where a command stands, and what it has made of the box so far.
InStep(c) ==
  /\ readable
  /\ c.pc \in {"migrate", "up", "wait", "respond", "write"} => Planned(c)
  /\ c.pc = "migrate" => c.stage = "target"
  /\ c.pc = "up" => c.stage # "stranded"
  /\ c.pc \in {"respond", "write", "tag", "prune"} => c.stage # "fallback"
  /\ c.pc \in {"migrate", "up"} /\ c.stage = "target" /\ drift = "none" => Runs(file.current)
  /\ c.pc \in {"wait", "respond", "write", "tag", "prune"} /\ c.full = TRUE => Runs(Brought(c))
  /\ c.pc \in {"wait", "respond", "write"} /\ c.stage # "fallback" /\ faults = 0 => c.target \in images
  /\ c.pc \in {"tag", "prune"} => file.current = c.target /\ c.next = file.history
  /\ c.pc = "prune" => envTag = c.target /\ drift \in {"none", "compose"} /\ (drift = "none" => c.full = TRUE)

Boxed ==
  /\ faults \in Nat /\ (faults = 0 => Kept)
  /\ AllIdle => Described
  /\ \A o \in Commanders : op[o].pc # "idle" => InStep(op[o])

BInv == WInv /\ (serial => Boxed)

\* What is left to show of a step of command o.
LEMMA BoxStep ==
  ASSUME WInv, serial, NEW o \in Commanders, NEW c \in Command, op' = [op EXCEPT ![o] = c],
         op[o].pc # "idle" \/ AllIdle,
         faults' \in Nat, faults' = 0 => Kept',
         c.pc = "idle" => Described', c.pc # "idle" => InStep(c)'
  PROVE  Boxed'
<1>1. /\ op'[o] = c
      /\ \A p \in Commanders : p # o => op[p].pc = "idle" /\ op'[p] = op[p]
  BY Zenon, OthersIdle DEF WInv, IInv
<1>2. AllIdle' => Described'
  BY SMTT(30), <1>1 DEF AllIdle
<1>3. ASSUME NEW p \in Commanders, op'[p].pc # "idle" PROVE InStep(op[p])'
  <2>1. p = o /\ op'[p] = c /\ InStep(c)'
    BY Zenon, <1>1, <1>3
  <2> QED BY <2>1 DEF InStep, Planned, Brought
<1> QED BY <1>2, <1>3 DEF Boxed

LEMMA CommandTypes ==
  ASSUME WInv, NEW o \in Commanders
  PROVE  op[o] \in Command /\ op \in [Commanders -> Command] /\ op[o].full \in BOOLEAN /\ Types /\ Staged(op[o])
BY DEF WInv, IInv, Types, Command

\* What holds of a command that has not recorded its target yet.
LEMMA PlannedStill ==
  ASSUME NEW o \in Commanders, InStep(op[o]), op[o].pc \in {"migrate", "up", "wait", "respond", "write"}
  PROVE  Planned(op[o]) /\ readable
BY Zenon DEF InStep

\* A missing file is a record of nothing.
LEMMA ReadState ==
  ASSUME IInv
  PROVE  /\ file \in StateFile /\ parseState \in StateFile /\ GoodRecord(parseState)
         /\ parseState.history = file.history /\ parseState.current = file.current
         /\ canRollback(parseState) <=> canRollback(file)
BY DEF IInv, Types, parseState, emptyState, StateFile, GoodRecord, NoRepeats, canRollback, None

LEMMA StartBoxes ==
  ASSUME WInv, serial, Boxed, NEW o \in Commanders, main(o)
  PROVE  Boxed'
<1>0. /\ file \in StateFile /\ parseState \in StateFile
      /\ parseState.history = file.history /\ parseState.current = file.current
      /\ canRollback(parseState) <=> canRollback(file)
  BY ReadState DEF WInv
<1>1. PICK a \in Invocations :
        \/ isImmutableTag(a) /\ op' = [op EXCEPT ![o] = planDeploy(parseState, a.tag, a)]
        \/ canRollback(parseState) /\ op' = [op EXCEPT ![o] = planRollback(parseState, a)]
  BY DEF main
<1>2. UNCHANGED <<file, envTag, running, images, faults, drift>> /\ AllIdle /\ readable
  BY DEF main, AllIdle
<1>3. a.tag \in Nat /\ a.revert \in BOOLEAN
  BY SMTT(30), ReleaseAssumption
<1>4. PICK c \in Command :
        /\ op' = [op EXCEPT ![o] = c] /\ c.pc = "migrate" /\ c.stage = "target"
        /\ c.action = "rollback" => canRollback(file) /\ c.target = file.history[2]
        /\ c.action # "rollback" => c.fallback = file.current
  <2>1. CASE op' = [op EXCEPT ![o] = planDeploy(parseState, a.tag, a)]
    <3> DEFINE c == planDeploy(parseState, a.tag, a)
    <3>1. parseState.current \in Nat
      BY <1>0 DEF StateFile
    <3>2. c \in Command /\ c.pc = "migrate" /\ c.stage = "target" /\ c.action = "deploy"
          /\ c.fallback = parseState.current
      BY Zenon, <1>3, <3>1, NoCommandFacts DEF planDeploy, Command
    <3> HIDE DEF c
    <3> QED BY Zenon, <1>0, <2>1, <3>2 DEF c
  <2>2. CASE canRollback(parseState) /\ op' = [op EXCEPT ![o] = planRollback(parseState, a)]
    <3> DEFINE c == planRollback(parseState, a)
    <3>2. parseState.history[2] \in Nat /\ parseState.current \in Nat
      BY <1>0, <2>2 DEF StateFile, canRollback
    <3>3. c \in Command /\ c.pc = "migrate" /\ c.stage = "target" /\ c.action = "rollback"
          /\ c.target = parseState.history[2]
      BY Zenon, <1>3, <3>2, NoCommandFacts DEF planRollback, Command
    <3> HIDE DEF c
    <3> QED BY Zenon, <1>0, <2>2, <3>3 DEF c
  <2> QED BY <1>1, <2>1, <2>2
<1>5. Described
  BY <1>2 DEF Boxed
<1>6. InStep(c)'
  BY <1>2, <1>4, <1>5 DEF InStep, Planned, Described, Runs, readable, canRollback
<1>7. faults' \in Nat /\ (faults' = 0 => Kept')
  BY <1>2 DEF Boxed, Kept
<1> QED BY Zenon, <1>2, <1>4, <1>6, <1>7, BoxStep

\* The migrations touch nothing the record is about.
LEMMA MigrateBoxes ==
  ASSUME WInv, serial, Boxed, NEW o \in Commanders, runMigrations(o)
  PROVE  Boxed'
<1>0. /\ op[o].pc = "migrate" /\ UNCHANGED <<file, envTag, running, images, faults, drift>>
      /\ op[o] \in Command /\ op \in [Commanders -> Command]
  BY Zenon, CommandTypes DEF runMigrations, Ends
<1>1. InStep(op[o]) /\ faults' \in Nat /\ (faults' = 0 => Kept')
  BY <1>0 DEF Boxed, Kept
<1>2. CASE Moves(o, "up")
  <2> DEFINE c == [op[o] EXCEPT !.pc = "up"]
  <2>1. op' = [op EXCEPT ![o] = c]
    BY <1>0, <1>2 DEF Moves
  <2>2. c \in Command /\ Same(c, op[o]) /\ c.pc = "up" /\ c.stage = op[o].stage
    BY Zenon, <1>0 DEF Command, Same
  <2> HIDE DEF c
  <2>3. PICK d \in Command : op' = [op EXCEPT ![o] = d] /\ Same(d, op[o]) /\ d.pc = "up" /\ d.stage = op[o].stage
    BY Zenon, <2>1, <2>2
  <2>4. InStep(d)'
    BY SMTT(30), <1>0, <1>1, <2>3 DEF InStep, Planned, Runs, readable, canRollback, Same
  <2> QED BY Zenon, <1>0, <1>1, <2>3, <2>4, BoxStep
<1>3. CASE op' = [op EXCEPT ![o] = NoCommand]
  <2>1. Described'
    BY <1>0, <1>1 DEF InStep, Planned, Described, Runs, readable
  <2> QED BY Zenon, <1>0, <1>1, <1>3, <2>1, NoCommandFacts, BoxStep
<1> QED BY <1>2, <1>3 DEF runMigrations, Ends

LEMMA BringUpBoxes ==
  ASSUME WInv, serial, Boxed, NEW o \in Commanders, bringUp(o)
  PROVE  Boxed'
<1>0. op[o].pc = "up" /\ op[o] \in Command /\ op \in [Commanders -> Command] /\ UNCHANGED <<file, envTag, drift>>
  BY Zenon, CommandTypes DEF bringUp
<1>1. InStep(op[o]) /\ faults \in Nat /\ (faults = 0 => Kept)
  BY <1>0 DEF Boxed
<1> DEFINE tag == Wanted(op[o])
<1>2. PICK replaced \in SUBSET Services :
        /\ faults' = IF replaced = Services THEN faults ELSE faults + 1
        /\ running' = [s \in Services |-> IF s \in replaced THEN tag ELSE running[s]]
        /\ images' = IF replaced = {} THEN images ELSE images \cup {tag}
        /\ op' = [op EXCEPT ![o].pc = "wait", ![o].svc = "api", ![o].attempt = 0, ![o].full = (replaced = Services)]
  BY Zenon DEF bringUp
<1> DEFINE full == replaced = Services
           c == [op[o] EXCEPT !.pc = "wait", !.svc = "api", !.attempt = 0, !.full = full]
<1>3. op' = [op EXCEPT ![o] = c]
  BY Zenon, <1>0, <1>2
<1>4. full \in BOOLEAN /\ (full = TRUE <=> replaced = Services)
  OBVIOUS
<1> HIDE DEF full
<1>5. c \in Command /\ Same(c, op[o]) /\ c.pc = "wait" /\ c.stage = op[o].stage /\ c.full = full
  BY Zenon, <1>0, <1>4 DEF Command, Services, Same
<1> HIDE DEF c
<1>6. PICK d \in Command : /\ op' = [op EXCEPT ![o] = d] /\ Same(d, op[o]) /\ d.pc = "wait"
                           /\ d.stage = op[o].stage /\ (d.full = TRUE <=> replaced = Services)
  BY Zenon, <1>3, <1>4, <1>5
<1>7. tag = Brought(d)
  BY <1>0, <1>1, <1>6 DEF InStep, Wanted, Brought, Same, Command
<1>8. tag = Brought(d) /\ (d.stage # "fallback" => tag = d.target)
  BY <1>7 DEF Brought
<1> HIDE DEF tag
<1>9. d.full = TRUE => Runs(Brought(d))'
  BY <1>2, <1>6, <1>8 DEF Runs, Brought
<1>10. faults' \in Nat /\ (faults' = 0 => faults = 0 /\ replaced = Services)
  BY <1>1, <1>2
<1>11. faults' = 0 => tag \in images' /\ Kept'
  <2> SUFFICES ASSUME faults' = 0 PROVE tag \in images' /\ Kept'
    OBVIOUS
  <2>1. images' = images \cup {tag}
    BY SMTT(30), <1>2, <1>10 DEF Services
  <2> QED BY <1>0, <1>1, <1>10, <2>1 DEF Kept
<1>12. Planned(d)'
  <2>1. Planned(op[o])
    BY Zenon, <1>0, <1>1, PlannedStill
  <2> QED BY <1>0, <1>6, <2>1 DEF Planned, canRollback, Same
<1>13. readable'
  BY Zenon, <1>0, <1>1 DEF InStep, readable
<1>14. InStep(d)'
  BY Zenon, <1>6, <1>8, <1>9, <1>11, <1>12, <1>13 DEF InStep
<1> QED BY Zenon, <1>0, <1>6, <1>10, <1>11, <1>14, BoxStep

LEMMA WaitBoxes ==
  ASSUME WInv, serial, Boxed, NEW o \in Commanders, waitFor(o)
  PROVE  Boxed'
<1>0. /\ op[o].pc = "wait" /\ op[o] \in Command /\ op \in [Commanders -> Command]
      /\ UNCHANGED <<file, envTag, running, images, faults>>
      /\ drift' = IF op'[o] = NoCommand /\ ~op[o].full THEN "compose" ELSE drift
      /\ Types /\ Staged(op[o])
  BY Zenon, CommandTypes DEF waitFor
<1>1. InStep(op[o]) /\ faults' \in Nat /\ (faults' = 0 => Kept')
  BY <1>0 DEF Boxed, Kept
<1>2. PICK c \in Command :
        /\ op' = [op EXCEPT ![o] = c]
        /\ \/ c = NoCommand /\ op[o].stage = "fallback"
           \/ /\ Same(c, op[o]) /\ c.pc \in {"wait", "write", "respond"} /\ c.stage = op[o].stage
              /\ c.full = op[o].full /\ (c.pc # "wait" => c.stage # "fallback")
  BY <1>0, WaitStep
<1>3. op'[o] = c
  BY <1>0, <1>2
<1>4. CASE c = NoCommand /\ op[o].stage = "fallback"
  <2>1. op[o].full \in BOOLEAN /\ op[o].action # "rollback"
    BY <1>0, <1>4 DEF Command, Staged
  <2>2. op[o].full = TRUE => drift' = drift
    BY <1>0, <2>1
  <2>3. op[o].full # TRUE => drift' = "compose"
    BY Zenon, <1>0, <1>3, <1>4, <2>1
  <2>4. Described'
    BY Zenon, <1>0, <1>1, <1>4, <2>1, <2>2, <2>3 DEF InStep, Planned, Described, Runs, Brought, readable
  <2> QED BY Zenon, <1>0, <1>1, <1>2, <1>4, <2>4, NoCommandFacts, BoxStep
<1>5. CASE /\ Same(c, op[o]) /\ c.pc \in {"wait", "write", "respond"} /\ c.stage = op[o].stage
           /\ c.full = op[o].full /\ (c.pc # "wait" => c.stage # "fallback")
  <2>1. drift' = drift
    BY Zenon, <1>0, <1>3, <1>5, NoCommandFacts
  <2>2. Planned(c)' /\ readable'
    BY Zenon, <1>0, <1>1, <1>5, <2>1 DEF InStep, Planned, readable, canRollback, Same
  <2>3. c.full = TRUE => Runs(Brought(c))'
    BY <1>0, <1>1, <1>5 DEF InStep, Runs, Brought, Same
  <2>4. InStep(c)'
    BY Zenon, <1>0, <1>1, <1>5, <2>2, <2>3 DEF InStep, Same
  <2>5. c.pc # "idle"
    BY <1>5
  <2> QED BY Zenon, <1>0, <1>1, <1>2, <2>4, <2>5, BoxStep
<1> QED BY <1>2, <1>4, <1>5

LEMMA RespondBoxes ==
  ASSUME WInv, serial, Boxed, NEW o \in Commanders, respond(o)
  PROVE  Boxed'
<1>0. /\ op[o].pc = "respond" /\ op[o] \in Command /\ op \in [Commanders -> Command]
      /\ UNCHANGED <<file, envTag, running, images, faults>> /\ Types
  BY Zenon, CommandTypes DEF respond
<1>1. InStep(op[o]) /\ faults' \in Nat /\ (faults' = 0 => Kept')
  BY <1>0 DEF Boxed, Kept
<1>2. PICK c \in Command :
        /\ op' = [op EXCEPT ![o] = c]
        /\ \/ c = NoCommand /\ drift' \in {"left", "stuck"} /\ (drift' = "stuck" => Stuck(op[o]))
           \/ /\ Same(c, op[o]) /\ drift' = drift /\ c.full = op[o].full
              /\ \/ c.action = "rollback" /\ c.pc = "write" /\ c.stage = "stranded"
                 \/ c.action # "rollback" /\ c.pc = "up" /\ c.stage = "fallback"
  BY <1>0, RespondStep
<1>3. CASE c = NoCommand /\ drift' \in {"left", "stuck"} /\ (drift' = "stuck" => Stuck(op[o]))
  <2>1. Described'
    BY <1>0, <1>1, <1>3 DEF InStep, Planned, Described, Stuck
  <2> QED BY Zenon, <1>0, <1>1, <1>2, <1>3, <2>1, NoCommandFacts, BoxStep
<1>4. CASE /\ Same(c, op[o]) /\ drift' = drift /\ c.full = op[o].full
           /\ \/ c.action = "rollback" /\ c.pc = "write" /\ c.stage = "stranded"
              \/ c.action # "rollback" /\ c.pc = "up" /\ c.stage = "fallback"
  <2>1. Planned(c)' /\ readable'
    <3>1. Planned(op[o]) /\ readable
      BY Zenon, <1>0, <1>1, PlannedStill
    <3> QED BY <1>0, <1>4, <3>1 DEF Planned, readable, canRollback, Same
  <2>2. InStep(c)'
    BY <1>0, <1>1, <1>4, <2>1 DEF InStep, Runs, Brought, Same
  <2>3. c.pc # "idle"
    BY <1>4
  <2> QED BY Zenon, <1>0, <1>1, <1>2, <2>2, <2>3, BoxStep
<1> QED BY <1>2, <1>3, <1>4

\* One command at a time finds the record it was planned from, so that it can always be recorded.
LEMMA WriteBoxes ==
  ASSUME WInv, serial, Boxed, NEW o \in Commanders, writeState(o)
  PROVE  Boxed'
<1>0. /\ op[o].pc = "write" /\ op[o] \in Command /\ op \in [Commanders -> Command]
      /\ UNCHANGED <<envTag, running, images, faults>> /\ Types /\ IInv
  BY Zenon, CommandTypes DEF writeState, WInv
<1>1. InStep(op[o]) /\ faults' \in Nat /\ (faults = 0 => Kept)
  BY SMTT(30), <1>0 DEF Boxed
<1>2. readable /\ (op[o].action = "rollback" => canRollback(parseState))
  BY Zenon, <1>0, <1>1, PlannedStill, ReadState DEF Planned
<1>3. /\ \E c \in Command : /\ op' = [op EXCEPT ![o] = c] /\ Same(c, op[o]) /\ c.pc = "tag" /\ c.stage = op[o].stage
                            /\ c.full = op[o].full /\ c.next = file'.history
      /\ file'.kind = "ok" /\ file' \in StateFile
      /\ \/ /\ op[o].action # "rollback" /\ file'.current = op[o].target
            /\ \A i \in 1..Len(file'.history) :
                 \/ file'.history[i] = op[o].target
                 \/ \E j \in 1..Len(file.history) : file'.history[i] = file.history[j]
         \/ /\ op[o].action = "rollback" /\ file'.current = file.history[2]
            /\ \A i \in 1..Len(file'.history) :
                 file'.history[i] = file.history[i + 1] /\ i + 1 \in 1..Len(file.history)
  BY Zenon, <1>0, <1>2, WriteStep DEF IInv
<1>4. PICK c \in Command : /\ op' = [op EXCEPT ![o] = c] /\ Same(c, op[o]) /\ c.pc = "tag" /\ c.stage = op[o].stage
                           /\ c.full = op[o].full /\ c.next = file'.history
  BY Zenon, <1>3
<1>5. file'.current = c.target
  BY Zenon, <1>0, <1>1, <1>3, <1>4 DEF InStep, Planned, Same
<1>6. readable'
  BY Zenon, <1>3 DEF readable
<1>7. InStep(c)'
  BY Zenon, <1>0, <1>1, <1>4, <1>5, <1>6 DEF InStep, Runs, Brought, Same
<1>8. faults' = 0 => Kept'
  <2> SUFFICES ASSUME faults = 0, NEW i \in 1..Len(file'.history) PROVE file'.history[i] \in images
    BY SMTT(30), <1>0 DEF Kept
  <2>1. op[o].target \in images /\ \A j \in 1..Len(file.history) : file.history[j] \in images
    BY <1>0, <1>1 DEF InStep, Kept
  <2> QED BY <1>3, <2>1
<1> QED BY Zenon, <1>0, <1>1, <1>4, <1>7, <1>8, BoxStep

LEMMA TagBoxes ==
  ASSUME WInv, serial, Boxed, NEW o \in Commanders, recordTagInEnvFile(o)
  PROVE  Boxed'
<1>0. /\ op[o].pc = "tag" /\ op[o] \in Command /\ op \in [Commanders -> Command] /\ op[o].full \in BOOLEAN
      /\ UNCHANGED <<file, running, images, faults>> /\ envTag' = op[o].target
  BY Zenon, CommandTypes DEF recordTagInEnvFile
<1>1. InStep(op[o]) /\ faults' \in Nat /\ (faults' = 0 => Kept')
  BY <1>0 DEF Boxed, Kept
<1>2. drift' = IF op[o].full THEN "none" ELSE "compose"
  BY DEF recordTagInEnvFile
<1>3. drift' \in {"none", "compose"} /\ (drift' = "none" => op[o].full = TRUE)
  BY <1>0, <1>2
<1> DEFINE d == [op[o] EXCEPT !.pc = "prune"]
<1>4. op' = [op EXCEPT ![o] = NoCommand] \/ op' = [op EXCEPT ![o] = d]
  BY Zenon DEF recordTagInEnvFile
<1>5. /\ d \in Command /\ Same(d, op[o]) /\ d.pc = "prune" /\ d.stage = op[o].stage /\ d.full = op[o].full
      /\ d.next = op[o].next
  BY Zenon, <1>0 DEF Command, Same
<1> HIDE DEF d
<1>6. CASE op' = [op EXCEPT ![o] = NoCommand]
  <2>1. Described'
    BY <1>0, <1>1, <1>3 DEF InStep, Described, Runs, Brought, readable
  <2> QED BY Zenon, <1>0, <1>1, <1>6, <2>1, NoCommandFacts, BoxStep
<1>7. CASE op' = [op EXCEPT ![o] = d]
  <2>1. PICK c \in Command : /\ op' = [op EXCEPT ![o] = c] /\ Same(c, op[o]) /\ c.pc = "prune"
                             /\ c.stage = op[o].stage /\ c.full = op[o].full /\ c.next = op[o].next
    BY Zenon, <1>5, <1>7
  <2>2. InStep(c)'
    BY Zenon, <1>0, <1>1, <1>3, <2>1 DEF InStep, Runs, Brought, readable, Same
  <2>3. c.pc # "idle"
    BY <2>1
  <2> QED BY Zenon, <1>0, <1>1, <2>1, <2>2, <2>3, BoxStep
<1> QED BY <1>4, <1>6, <1>7

\* What is removed is neither the target nor in the history that was recorded.
LEMMA PruneBoxes ==
  ASSUME WInv, serial, Boxed, NEW o \in Commanders, pruneReleaseImages(o)
  PROVE  Boxed'
<1>0. /\ op[o].pc = "prune" /\ op[o] \in Command /\ op' = [op EXCEPT ![o] = NoCommand]
      /\ UNCHANGED <<file, envTag, running, faults, drift>>
  BY Zenon, CommandTypes DEF pruneReleaseImages
<1>1. InStep(op[o]) /\ faults' \in Nat /\ (faults = 0 => Kept)
  BY SMTT(30), <1>0 DEF Boxed
<1>2. Described'
  BY SMTT(30), <1>0, <1>1 DEF InStep, Described, Runs, Brought, readable
<1>3. op[o].next = file.history /\ file.history \in Seq(Nat)
  <2>1. file \in StateFile
    BY CommandTypes DEF Types
  <2>2. op[o].next = file.history
    BY Zenon, <1>0, <1>1 DEF InStep
  <2> QED BY <2>1, <2>2 DEF StateFile
<1>4. \A i \in 1..Len(file.history) : file.history[i] \in Range(op[o].next)
  BY <1>3 DEF Range
<1>5. \A x \in images : x \in Range(op[o].next) => x \in images'
  BY Zenon DEF pruneReleaseImages, releaseImagesToRemove
<1>6. faults' = 0 => Kept'
  BY <1>0, <1>1, <1>4, <1>5 DEF Kept
<1> QED BY Zenon, <1>0, <1>1, <1>2, <1>6, NoCommandFacts, BoxStep

LEMMA CrashBoxes ==
  ASSUME WInv, serial, Boxed, NEW o \in Commanders, Crash(o)
  PROVE  Boxed'
<1>0. /\ op[o].pc # "idle" /\ op' = [op EXCEPT ![o] = NoCommand] /\ drift' = "crash"
      /\ faults' = faults + 1 /\ faults \in Nat
  BY DEF Crash, Ends, Boxed
<1>1. Described' /\ faults' \in Nat /\ faults' # 0
  BY <1>0 DEF Described
<1> QED BY Zenon, <1>0, <1>1, NoCommandFacts, BoxStep

LEMMA NextBoxes ==
  ASSUME BInv, [ReleaseNext]_releaseVars
  PROVE  BInv'
<1>1. WInv'
  BY Zenon, NextWalks DEF BInv
<1>2. CASE UNCHANGED <<file, envTag, running, images, op, faults, serial, drift>>
  BY <1>1, <1>2 DEF BInv, Boxed, Kept, AllIdle, Described, InStep, Planned, Runs, readable
<1>3. ASSUME NEW o \in Commanders, Step(o)
      PROVE  BInv'
  <2>1. CASE Report(o)
    BY Zenon, <1>2, <2>1 DEF Report
  <2>2. serial' = serial
    BY Zenon, <1>3 DEF Step, Report, main, runMigrations, bringUp, waitFor, writeState, recordTagInEnvFile,
                       pruneReleaseImages, respond, Crash
  <2>3. CASE serial /\ ~Report(o)
    BY Zenon, <1>1, <1>3, <2>2, <2>3, StartBoxes, MigrateBoxes, BringUpBoxes, WaitBoxes, WriteBoxes, TagBoxes,
       PruneBoxes, RespondBoxes, CrashBoxes DEF Step, BInv
  <2> QED BY <1>1, <2>1, <2>2, <2>3 DEF BInv
<1> QED BY <1>2, <1>3 DEF ReleaseNext, releaseVars

LEMMA BoxInitially ==
  ASSUME ReleaseInit
  PROVE  BInv
<1>1. PICK k \in 0..(LastTag - 1) : (serial => k = None) /\ Deployed(k)
  BY DEF ReleaseInit
<1>2. WInv /\ faults = 0 /\ \A o \in Commanders : op[o].pc = "idle"
  BY WalkInitially, NoCommandFacts DEF ReleaseInit
<1>3. ASSUME serial PROVE Boxed
  <2>1. k = 0
    BY <1>1, <1>3 DEF None
  <2>2. file.kind = "empty" /\ file.current = 0 /\ envTag = 0 /\ running = [s \in Services |-> 0]
    BY <1>1, <2>1 DEF Deployed, None
  <2>3. file.history = <<>>
    BY <1>2, <2>2 DEF WInv, IInv, GoodRecord
  <2>4. Described
    BY <2>2 DEF Described, Runs, readable, None
  <2> QED BY <1>2, <2>3, <2>4 DEF Boxed, Kept
<1> QED BY <1>2, <1>3 DEF BInv

\* Between commands started one at a time, the state file and the env file name the release every
\* container runs, unless a command said otherwise; where nothing went wrong, the image of every
\* rollback target is on the box.  For any number of releases, commands, faults and probes
\* (main, writeState, recordTagInEnvFile, respond, pruneReleaseImages).
THEOREM RecordDescribesTheBoxHolds == ReleaseSpec => []RecordDescribesTheBox
<1>1. ReleaseInit => BInv
  BY BoxInitially
<1>2. BInv /\ [ReleaseNext]_releaseVars => BInv'
  BY NextBoxes
<1>3. BInv => RecordDescribesTheBox
  <2> SUFFICES ASSUME BInv, serial, AllIdle
               PROVE  /\ drift = "none" => /\ readable
                                           /\ \A s \in Services : running[s] = parseState.current
                                           /\ envTag = parseState.current
                                           /\ faults = 0 => Range(parseState.history) \subseteq images
                      /\ drift = "stuck" => parseState.current = None
    BY DEF RecordDescribesTheBox
  <2>1. parseState.history = file.history /\ parseState.current = file.current /\ file.history \in Seq(Nat)
    BY ReadState DEF BInv, WInv, StateFile
  <2>2. Described /\ (faults = 0 => Kept)
    BY DEF BInv, Boxed
  <2>3. Kept => Range(file.history) \subseteq images
    BY <2>1 DEF Kept, Range
  <2> QED BY <2>1, <2>2, <2>3 DEF Described, Runs
<1> QED BY <1>1, <1>2, <1>3, PTL DEF ReleaseSpec
=============================================================================
