------------------------- MODULE IdentityInvariant -------------------------
(***************************************************************************)
(* The inductive invariant of the identity module, and the steps that only *)
(* read.  A request is followed through its stages: what it was asked for  *)
(* stays with it, a stage belongs to the operations that pass it, and the  *)
(* rows it has read and will write to stay where they are.                 *)
(***************************************************************************)
EXTENDS Identity, FiniteSetTheorems, TLAPS

Ops == {"none", "webhook", "save", "delete", "export", "suspend", "reinstate", "view", "propose", "approve",
        "cancel"}

Stages ==
  {"idle", "done",
   "upsert", "create", "raced", "provisioned", "resolved", "correct", "corrected", "authorise",
   "claim", "user.upserted", "user.deleted", "session.recorded", "signIn", "mark",
   "save", "saveWrite", "saveAudit", "export", "exportAudit", "delete",
   "erase", "eraseProfile", "eraseAudit", "eraseOthers", "redact", "tombstone", "deleteAudit",
   "view", "viewRead", "suspend", "suspendCount", "suspendWrite", "reinstate", "reinstateWrite", "suspensionAudit",
   "propose", "proposeCount", "proposeWrite", "proposeAudit",
   "approve", "approveTarget", "approveCount", "approveWrite", "approveAudit", "cancel", "cancelWrite", "cancelAudit"}

Outcomes == {"none", "conflict", "unauthorized", "forbidden", "saved", "not found", "exported", "deleted",
             "failed", "duplicate", "applied", "refused", "viewed", "done"}

Req == [at : Stages, op : Ops, who : People \cup {None}, email : Emails \cup {None},
        arg : People \cup Proposals \cup Deliveries \cup {None}, role : Roles \cup {None},
        user : Row \cup {None}, before : BOOLEAN, out : Outcomes]

\* The tables.  Beside the shapes: an address is the person's tombstone or one of the provider's.
Tables ==
  /\ TypeOK
  /\ \A p \in People : users[p] # None => users[p].email \in Emails \cup {tombstoneEmail(p)}

\* What a request was asked for stays with it until it is answered.
Asked(c) ==
  /\ c.who \in People /\ c.op # "none" /\ c.op \in usage.ops
  /\ c.op = "webhook" => c.arg \in Deliveries /\ c.who = Events[c.arg].who /\ c.email = Events[c.arg].email
  /\ c.op # "webhook" => c.email \in Emails
  /\ c.op \in {"suspend", "reinstate", "view", "propose"} => c.arg \in People
  /\ c.op \in {"approve", "cancel"} => c.arg \in Proposals
  /\ c.op = "propose" => c.role \in Roles

\* Each stage belongs to the operations whose handlers pass it.
Staged(c) ==
  /\ c.at = "idle" => c.op = "none"
  /\ c.at # "done" => c.out = "none"
  /\ c.at \in {"claim", "user.upserted", "user.deleted", "session.recorded", "signIn", "mark"} => c.op = "webhook"
  /\ c.at \in {"user.upserted", "user.deleted", "session.recorded"} => c.at = Events[c.arg].type
  /\ c.at \in {"upsert", "create", "raced", "provisioned", "resolved", "correct", "corrected"} => c.email \in Emails
  /\ c.at = "authorise" => c.op # "webhook"
  /\ c.at = "delete" => c.op = "delete"
  /\ c.at \in {"erase", "eraseProfile", "eraseAudit", "eraseOthers", "redact", "tombstone", "deleteAudit"} =>
       c.op \in {"delete", "webhook"}
  /\ c.at \in {"save", "saveWrite", "saveAudit"} => c.op = "save"
  /\ c.at \in {"export", "exportAudit"} => c.op = "export"
  /\ c.at \in {"view", "viewRead"} => c.op = "view"
  /\ c.at \in {"suspend", "suspendCount", "suspendWrite"} => c.op = "suspend"
  /\ c.at \in {"reinstate", "reinstateWrite"} => c.op = "reinstate"
  /\ c.at = "suspensionAudit" => c.op \in {"suspend", "reinstate"}
  /\ c.at \in {"propose", "proposeCount", "proposeWrite", "proposeAudit"} => c.op = "propose"
  /\ c.at \in {"approve", "approveTarget", "approveCount", "approveWrite", "approveAudit"} => c.op = "approve"
  /\ c.at \in {"cancel", "cancelWrite", "cancelAudit"} => c.op = "cancel"

\* The rows a request has read, and will write to, are there.
Found(c) ==
  /\ c.at \in {"provisioned", "resolved", "correct", "corrected", "authorise"} => c.user # None
  /\ c.at \in {"provisioned", "resolved", "correct", "corrected", "authorise", "save", "saveWrite",
               "erase", "eraseProfile", "eraseAudit", "eraseOthers", "redact", "tombstone"} => users[c.who] # None
  /\ c.at \in {"suspendCount", "suspendWrite", "reinstateWrite"} => users[c.arg] # None
  /\ c.at \in {"approveTarget", "approveCount", "approveWrite", "approveAudit", "cancelWrite", "cancelAudit"} =>
       approvals[c.arg] # None
  /\ c.at \in {"approveCount", "approveWrite"} => users[approvals[c.arg].who] # None

Shape(c) == (c.at \notin {"idle", "done"} => Asked(c)) /\ Staged(c) /\ Found(c)

\* A claimed delivery has one request that has claimed it.
Claims ==
  /\ AppliedOnce /\ LedgerIsTruthful
  /\ \A r \in Requests : \A d \in Deliveries : Applying(r, d) => ledger[d] # "unseen"

Alone == usage.serial => \A r, q \in Requests : Waits(r) /\ Waits(q) => r = q

\* Where requests are served one at a time, an account that is being served is not a deleted one, and
\* one that is being erased has lost its profile, and the activity on its sign-ins, by the time it is
\* marked.
Erases == usage.serial

Live(c) ==
  /\ c.at \in {"provisioned", "resolved"} => c.user.deleted = users[c.who].deleted
  /\ c.at \notin {"idle", "done", "upsert", "create", "raced", "provisioned", "resolved", "deleteAudit",
                  "claim", "user.upserted", "user.deleted", "session.recorded", "signIn", "mark"} =>
       users[c.who] # None /\ ~users[c.who].deleted
  /\ c.at \in {"eraseAudit", "eraseOthers", "redact", "tombstone"} => c.who \notin profiles
  /\ c.at = "signIn" => users[c.who] # None
  /\ c.at = "tombstone" => ~HoldsSignIn(c.who, {FALSE})

SignInRows ==
  [who : People, session : {Events[d].session : d \in Deliveries}, activity : BOOLEAN, late : BOOLEAN]

Gone == signIns \subseteq SignInRows /\ \A p \in Deleted : ~Holds(p, {FALSE})

\* Where administrators act one at a time, the one about to be suspended or demoted is not the last.
Administers == usage.serial /\ Asks({"delete", "webhook"}) = {}

Spared(c) ==
  /\ c.at = "suspendWrite" => \E p \in People \ {c.arg} : Usable(p)
  /\ c.at = "approveWrite" =>
       approvals[c.arg].role = "ADMIN" \/ \E p \in People \ {approvals[c.arg].who} : Usable(p)

IInv ==
  /\ Tables /\ usage \in Usages /\ req \in [Requests -> Req]
  /\ \A r \in Requests : Shape(req[r])
  /\ Claims /\ Alone
  /\ Erases => Gone /\ \A r \in Requests : Live(req[r])
  /\ Administers => (\E p \in People : Usable(p)) /\ \A r \in Requests : Spared(req[r])
-----------------------------------------------------------------------------
(* Requests *)

Same(c, d) ==
  c.op = d.op /\ c.who = d.who /\ c.email = d.email /\ c.arg = d.arg /\ c.role = d.role /\ c.out = d.out

LEMMA IdleFacts ==
  /\ Idle \in Req
  /\ Idle.at = "idle" /\ Idle.op = "none" /\ Idle.out = "none" /\ Idle.user = None /\ Idle.before = FALSE
BY DEF Idle, Req, Stages, Ops, Outcomes

\* A request that goes on keeps what it was asked for.
LEMMA GoMoves ==
  ASSUME req \in [Requests -> Req], NEW r \in Requests, NEW at \in Stages, Go(r, at)
  PROVE  \E c \in Req : /\ req' = [req EXCEPT ![r] = c]
                        /\ c.at = at /\ c.user = req[r].user /\ Same(c, req[r])
<1> DEFINE c == [req[r] EXCEPT !.at = at]
<1>1. req' = [req EXCEPT ![r] = c]
  BY DEF Go
<1>2. c \in Req /\ c.at = at /\ c.user = req[r].user /\ Same(c, req[r])
  BY DEF Req, Same
<1> QED BY Zenon, <1>1, <1>2

LEMMA GoWithMoves ==
  ASSUME req \in [Requests -> Req], NEW r \in Requests, NEW at \in Stages, NEW u \in Row \cup {None},
         GoWith(r, at, u)
  PROVE  \E c \in Req : /\ req' = [req EXCEPT ![r] = c]
                        /\ c.at = at /\ c.user = u /\ Same(c, req[r])
<1> DEFINE c == [req[r] EXCEPT !.at = at, !.user = u]
<1>1. req' = [req EXCEPT ![r] = c]
  BY Zenon DEF GoWith
<1>2. c \in Req /\ c.at = at /\ c.user = u /\ Same(c, req[r])
  BY Zenon DEF Req, Same
<1> QED BY Zenon, <1>1, <1>2

LEMMA NotesMoves ==
  ASSUME req \in [Requests -> Req], NEW r \in Requests, NEW at \in Stages,
         req' = [req EXCEPT ![r].at = at, ![r].before = req[r].who \in profiles]
  PROVE  \E c \in Req : /\ req' = [req EXCEPT ![r] = c]
                        /\ c.at = at /\ c.user = req[r].user /\ Same(c, req[r])
<1> DEFINE b == req[r].who \in profiles
           c == [req[r] EXCEPT !.at = at, !.before = b]
<1>0. b \in BOOLEAN
  OBVIOUS
<1>1. req' = [req EXCEPT ![r] = c]
  OBVIOUS
<1> HIDE DEF b
<1>2. c \in Req /\ c.at = at /\ c.user = req[r].user /\ Same(c, req[r])
  BY Zenon, <1>0 DEF Req, Same
<1> QED BY Zenon, <1>1, <1>2

LEMMA AnswerMoves ==
  ASSUME req \in [Requests -> Req], NEW r \in Requests, NEW out \in Outcomes, Answer(r, out)
  PROVE  \E c \in Req : /\ req' = [req EXCEPT ![r] = c]
                        /\ c.at = "done" /\ c.op = req[r].op /\ c.arg = req[r].arg /\ c.out = out
<1> DEFINE c == [Idle EXCEPT !.at = "done", !.op = req[r].op, !.who = req[r].who, !.arg = req[r].arg, !.out = out]
<1>1. req' = [req EXCEPT ![r] = c]
  BY DEF Answer
<1>2. c \in Req /\ c.at = "done" /\ c.op = req[r].op /\ c.arg = req[r].arg /\ c.out = out
  BY Zenon DEF Req, Idle, Stages
<1> QED BY Zenon, <1>1, <1>2
-----------------------------------------------------------------------------
(* What a step of one request leaves of the others *)

\* Rows stay, and a proposal keeps its subject.
Kept ==
  /\ \A p \in People : users[p] # None => users'[p] # None
  /\ \A a \in Proposals : approvals[a] # None =>
       approvals'[a] # None /\ approvals'[a].who = approvals[a].who

LEMMA ShapeKept ==
  ASSUME Tables, Kept, usage' = usage, NEW c \in Req, Shape(c)
  PROVE  Shape(c)'
<1>1. Staged(c)'
  BY DEF Shape, Staged
<1>2. (c.at \notin {"idle", "done"} => Asked(c)) /\ (c.at \notin {"idle", "done"} => Asked(c)')
  BY DEF Shape, Asked
<1>3. Found(c)'
  <2>2. c.at \notin {"idle", "done"} => c.who \in People
    BY <1>2 DEF Asked
  <2>3. c.at \in {"suspendCount", "suspendWrite", "reinstateWrite"} => c.arg \in People
    BY <1>2 DEF Shape, Asked, Staged
  <2>4. c.at \in {"approveTarget", "approveCount", "approveWrite", "approveAudit", "cancelWrite", "cancelAudit"} =>
          c.arg \in Proposals
    BY <1>2 DEF Shape, Asked, Staged
  <2>5. \A a \in Proposals : approvals[a] # None => approvals[a].who \in People
    BY DEF Tables, TypeOK, Approval
  <2> QED BY <2>2, <2>3, <2>4, <2>5 DEF Shape, Found, Kept
<1> QED BY <1>1, <1>2, <1>3 DEF Shape

\* One step of one request.
LEMMA Served ==
  ASSUME IInv, NEW r \in Requests, Waits(r), NEW c \in Req, req' = [req EXCEPT ![r] = c],
         usage' = usage, Tables', Kept, Shape(c)', Claims',
         Erases => Gone' /\ Live(c)',
         Administers => (\E p \in People : Usable(p))' /\ Spared(c)'
  PROVE  IInv'
<1>1. req' \in [Requests -> Req] /\ req'[r] = c /\ \A q \in Requests \ {r} : req'[q] = req[q]
  BY DEF IInv
<1>2. \A q \in Requests : Shape(req[q])'
  <2> SUFFICES ASSUME NEW q \in Requests PROVE Shape(req[q])'
    OBVIOUS
  <2>1. PICK d \in Req : d = req'[q]
    BY <1>1
  <2>2. CASE q = r
    BY <1>1, <2>1, <2>2 DEF Shape, Asked, Staged, Found
  <2>3. CASE q # r
    <3>1. d = req[q] /\ Shape(req[q])
      BY <1>1, <2>1, <2>3 DEF IInv
    <3>2. Shape(d)
      BY <3>1
    <3>3. Shape(d)'
      BY <3>2, ShapeKept DEF IInv
    <3>4. Staged(req[q])' /\ Found(req[q])'
      BY <2>1, <3>3 DEF Shape, Staged, Found
    <3>5. (req[q].at \notin {"idle", "done"} => Asked(req[q]))'
      BY <2>1, <3>3 DEF Shape, Asked
    <3> QED BY <3>4, <3>5 DEF Shape
  <2> QED BY <2>2, <2>3
<1>3. usage.serial => \A q \in Requests \ {r} : req'[q].at \in {"idle", "done"}
  BY <1>1 DEF IInv, Alone, Waits
<1>4. Alone'
  BY <1>1, <1>3 DEF Alone, Waits
<1>5. Erases => Gone' /\ \A q \in Requests : Live(req[q])'
  <2>1. \A q \in Requests \ {r} : Erases => Live(req[q])'
    BY <1>3 DEF Live, Erases
  <2>2. Erases => Live(req[r])'
    BY <1>1 DEF Live
  <2> QED BY <2>1, <2>2
<1>6. Administers => (\E p \in People : Usable(p))' /\ \A q \in Requests : Spared(req[q])'
  <2>1. \A q \in Requests \ {r} : Administers => Spared(req[q])'
    BY <1>3 DEF Spared, Administers
  <2>2. Administers => Spared(req[r])'
    BY <1>1 DEF Spared
  <2> QED BY <2>1, <2>2
<1>7. Erases' = Erases /\ Administers' = Administers
  BY DEF Erases, Administers, Asks
<1> QED BY <1>1, <1>2, <1>4, <1>5, <1>6, <1>7 DEF IInv

\* A request that is not claiming a delivery leaves the ledger true.
LEMMA ClaimsKept ==
  ASSUME IInv, NEW r \in Requests, Waits(r), NEW c \in Req, req' = [req EXCEPT ![r] = c], ledger' = ledger,
         c.op = req[r].op, c.arg = req[r].arg,
         \/ req[r].at # "claim" /\ c.at \notin {"idle", "claim", "done"}
         \/ c.at = "done" /\ c.out # "applied" /\ (c.op = "webhook" => c.out \in {"failed", "conflict"})
         \/ c.at = "done" /\ req[r].at = "claim" /\ c.out = "duplicate"
  PROVE  Claims'
<1>1. req'[r] = c /\ (\A q \in Requests \ {r} : req'[q] = req[q]) /\ req[r].out = "none" /\ req[r].at # "done"
  BY DEF IInv, Shape, Staged, Waits
<1>2. \A d \in Deliveries, q \in Requests : Applying(q, d)' => Applying(q, d)
  BY <1>1 DEF Applying
<1>3. \A d \in Deliveries, q \in Requests :
        req[q].op = "webhook" /\ req[q].arg = d /\ (Applying(q, d) \/ req[q].out \in {"failed", "conflict"}) =>
          req'[q].op = "webhook" /\ req'[q].arg = d /\ (Applying(q, d)' \/ req'[q].out \in {"failed", "conflict"})
  BY <1>1 DEF Applying
<1>4. \A d \in Deliveries, q \in Requests :
        req[q].op = "webhook" /\ req[q].arg = d /\ req[q].out = "applied" =>
          req'[q].op = "webhook" /\ req'[q].arg = d /\ req'[q].out = "applied"
  BY <1>1
<1>5. AppliedOnce'
  BY <1>2 DEF IInv, Claims, AppliedOnce
<1>6. LedgerIsTruthful'
  BY <1>3, <1>4 DEF IInv, Claims, LedgerIsTruthful
<1> QED BY <1>2, <1>5, <1>6 DEF IInv, Claims

Reads == UNCHANGED <<mirror, ledger, approvals, usage>>

\* Reading changes nothing about the tables.
LEMMA ReadsKeep ==
  ASSUME IInv, Reads
  PROVE  /\ Tables' /\ Kept
         /\ Erases => Gone'
         /\ Administers => (\E p \in People : Usable(p))'
<1>1. users' = users /\ profiles' = profiles /\ signIns' = signIns /\ ledger' = ledger /\ approvals' = approvals
  BY DEF Reads, mirror
<1> QED BY Zenon, <1>1 DEF IInv, Tables, TypeOK, Kept, Gone, Deleted, Holds, HoldsSignIn, Usable

\* A request reads, and goes on.
LEMMA GoesOn ==
  ASSUME IInv, NEW r \in Requests, Waits(r), req[r].at # "claim", NEW c \in Req, req' = [req EXCEPT ![r] = c],
         Same(c, req[r]), c.at \notin {"idle", "claim", "done"}, Reads,
         Staged(c), Found(c), Erases => Live(c), Administers => Spared(c)
  PROVE  IInv'
<1>1. Claims'
  BY Zenon, ClaimsKept DEF Same, Reads
<1>2. Shape(c)
  BY DEF Shape, Asked, Same, IInv, Waits
<1>3. Shape(c)'
  BY <1>2, ReadsKeep, ShapeKept DEF IInv, Reads
<1>4. users' = users /\ profiles' = profiles /\ signIns' = signIns /\ approvals' = approvals /\ usage' = usage
  BY DEF Reads, mirror
<1>5. (Erases => Live(c)') /\ (Administers => Spared(c)')
  BY Zenon, <1>4 DEF Live, HoldsSignIn, Spared, Usable
<1> QED BY Zenon, <1>1, <1>3, <1>4, <1>5, ReadsKeep, Served

\* A request reads, and is answered.
LEMMA Answered ==
  ASSUME IInv, NEW r \in Requests, Waits(r), NEW out \in Outcomes \ {"applied"}, Answer(r, out), Reads,
         \/ req[r].op = "webhook" => out \in {"failed", "conflict"}
         \/ req[r].at = "claim" /\ out = "duplicate"
  PROVE  IInv'
<1>1. PICK c \in Req : /\ req' = [req EXCEPT ![r] = c]
                       /\ c.at = "done" /\ c.op = req[r].op /\ c.arg = req[r].arg /\ c.out = out
  BY AnswerMoves DEF IInv
<1>2. Claims'
  BY Zenon, <1>1, ClaimsKept DEF Reads
<1>3. Shape(c)' /\ Live(c)' /\ Spared(c)'
  BY <1>1 DEF Shape, Staged, Found, Live, Spared
<1> QED BY Zenon, <1>1, <1>2, <1>3, ReadsKeep, Served DEF Reads
-----------------------------------------------------------------------------
(* The steps that only read *)

\* What is known of a request at its step.
Knows(r) ==
  /\ req \in [Requests -> Req] /\ req[r] \in Req /\ Shape(req[r])
  /\ Erases => Live(req[r])
  /\ Administers => (\E p \in People : Usable(p)) /\ Spared(req[r])

LEMMA Known ==
  ASSUME IInv, NEW r \in Requests
  PROVE  Knows(r) /\ (Waits(r) => Asked(req[r]))
BY DEF IInv, Knows, Shape, Waits

\* A row that is there is a row.
LEMMA RowFacts ==
  ASSUME IInv
  PROVE  /\ \A p \in People : users[p] \in Row \cup {None} /\ (users[p] # None => users[p] \in Row)
         /\ \A a \in Proposals : approvals[a] # None =>
              approvals[a] \in Approval /\ approvals[a].who \in People /\ approvals[a].role \in Roles
         /\ None \notin Row /\ None \notin People /\ None # "ADMIN"
BY AccountsAssumption DEF IInv, Tables, TypeOK, Approval, Roles

\* Two administrators are not one.
LEMMA Another ==
  ASSUME ~(countAdministrators <= 1), NEW x
  PROVE  \E p \in People \ {x} : Usable(p)
<1> DEFINE S == {p \in People : Usable(p)}
<1>1. SUFFICES ASSUME S \subseteq {x} PROVE FALSE
  OBVIOUS
<1>2. IsFiniteSet({x}) /\ Cardinality({x}) = 1
  BY Zenon, FS_Singleton
<1>3. Cardinality(S) <= 1 /\ Cardinality(S) \in Nat
  BY <1>1, <1>2, FS_Subset, FS_CardinalityType
<1> QED BY <1>3 DEF countAdministrators

LEMMA UpsertKeeps ==
  ASSUME IInv, NEW r \in Requests, upsert(r)
  PROVE  IInv'
<1>0. req[r].at = "upsert" /\ Waits(r) /\ Reads
  BY DEF upsert, Waits, Reads, mirror, readOnly
<1>a. Knows(r) /\ Asked(req[r])
  BY <1>0, Known
<1>b. users[req[r].who] \in Row \cup {None}
  BY <1>a, RowFacts DEF Asked
<1>1. CASE GoWith(r, "resolved", users[req[r].who]) /\ users[req[r].who] # None
  <2>1. PICK c \in Req : req' = [req EXCEPT ![r] = c] /\ c.at = "resolved" /\ c.user = users[req[r].who] /\ Same(c, req[r])
    BY <1>a, <1>b, <1>1, GoWithMoves DEF Knows, Stages, findById, findByClerkUserId
  <2>2. Staged(c) /\ c.at \notin {"idle", "claim", "done"}
    BY <1>0, <1>a, <1>1, <2>1 DEF Knows, Shape, Staged, Same, Asked
  <2>3. Found(c)
    BY <1>0, <1>a, <1>b, <1>1, <2>1 DEF Knows, Shape, Found, Same
  <2>4. (Erases => Live(c)) /\ (Administers => Spared(c))
    BY <1>0, <1>a, <1>b, <1>1, <2>1 DEF Knows, Live, Spared, Same
  <2> QED BY Zenon, <1>0, <2>1, <2>2, <2>3, <2>4, GoesOn
<1>2. CASE Go(r, "create")
  <2>1. PICK c \in Req : req' = [req EXCEPT ![r] = c] /\ c.at = "create" /\ c.user = req[r].user /\ Same(c, req[r])
    BY <1>a, <1>2, GoMoves DEF Knows, Stages
  <2>2. Staged(c) /\ c.at \notin {"idle", "claim", "done"}
    BY <1>0, <1>a, <1>2, <2>1 DEF Knows, Shape, Staged, Same, Asked
  <2>3. Found(c)
    BY <1>0, <1>a, <1>b, <1>2, <2>1 DEF Knows, Shape, Found, Same
  <2>4. (Erases => Live(c)) /\ (Administers => Spared(c))
    BY <1>0, <1>a, <1>b, <1>2, <2>1 DEF Knows, Live, Spared, Same
  <2> QED BY Zenon, <1>0, <2>1, <2>2, <2>3, <2>4, GoesOn
<1> QED BY <1>1, <1>2 DEF upsert, findByClerkUserId

LEMMA RacedKeeps ==
  ASSUME IInv, NEW r \in Requests, raced(r)
  PROVE  IInv'
<1>0. req[r].at = "raced" /\ Waits(r) /\ Reads
  BY DEF raced, Waits, Reads, mirror, readOnly
<1>a. Knows(r) /\ Asked(req[r])
  BY <1>0, Known
<1>b. users[req[r].who] \in Row \cup {None}
  BY <1>a, RowFacts DEF Asked
<1>1. CASE GoWith(r, "resolved", users[req[r].who]) /\ users[req[r].who] # None
  <2>1. PICK c \in Req : req' = [req EXCEPT ![r] = c] /\ c.at = "resolved" /\ c.user = users[req[r].who] /\ Same(c, req[r])
    BY <1>a, <1>b, <1>1, GoWithMoves DEF Knows, Stages, findById, findByClerkUserId
  <2>2. Staged(c) /\ c.at \notin {"idle", "claim", "done"}
    BY SMTT(30), <1>0, <1>a, <1>1, <2>1 DEF Knows, Shape, Staged, Same, Asked
  <2>3. Found(c)
    BY <1>0, <1>a, <1>b, <1>1, <2>1 DEF Knows, Shape, Found, Same
  <2>4. (Erases => Live(c)) /\ (Administers => Spared(c))
    BY <1>0, <1>a, <1>b, <1>1, <2>1 DEF Knows, Live, Spared, Same
  <2> QED BY Zenon, <1>0, <2>1, <2>2, <2>3, <2>4, GoesOn
<1>2. CASE Answer(r, "conflict")
  BY Zenon, <1>0, <1>a, <1>2, Answered DEF Outcomes, Knows, Shape, Staged
<1> QED BY <1>1, <1>2 DEF raced, findByClerkUserId

LEMMA ProvisionedKeeps ==
  ASSUME IInv, NEW r \in Requests, provisioned(r)
  PROVE  IInv'
<1>0. req[r].at = "provisioned" /\ Waits(r) /\ Reads
  BY DEF provisioned, Waits, Reads, mirror, readOnly
<1>a. Knows(r) /\ Asked(req[r])
  BY <1>0, Known
<1>1. CASE Go(r, "resolved")
  <2>1. PICK c \in Req : req' = [req EXCEPT ![r] = c] /\ c.at = "resolved" /\ c.user = req[r].user /\ Same(c, req[r])
    BY <1>a, <1>1, GoMoves DEF Knows, Stages
  <2>2. Staged(c) /\ c.at \notin {"idle", "claim", "done"}
    BY <1>0, <1>a, <1>1, <2>1 DEF Knows, Shape, Staged, Same, Asked
  <2>3. Found(c)
    BY <1>0, <1>a, <1>1, <2>1 DEF Knows, Shape, Found, Same
  <2>4. (Erases => Live(c)) /\ (Administers => Spared(c))
    BY <1>0, <1>a, <1>1, <2>1 DEF Knows, Live, Spared, Same
  <2> QED BY Zenon, <1>0, <2>1, <2>2, <2>3, <2>4, GoesOn
<1> QED BY <1>1 DEF provisioned

LEMMA ResolveSessionKeeps ==
  ASSUME IInv, NEW r \in Requests, resolveSession(r)
  PROVE  IInv'
<1>0. req[r].at = "resolved" /\ Waits(r) /\ Reads
  BY DEF resolveSession, Waits, Reads, mirror, readOnly
<1>a. Knows(r) /\ Asked(req[r])
  BY <1>0, Known
<1>1. CASE Go(r, "mark") /\ req[r].op = "webhook"
  <2>1. PICK c \in Req : req' = [req EXCEPT ![r] = c] /\ c.at = "mark" /\ c.user = req[r].user /\ Same(c, req[r])
    BY <1>a, <1>1, GoMoves DEF Knows, Stages
  <2>2. Staged(c) /\ c.at \notin {"idle", "claim", "done"}
    BY <1>0, <1>a, <1>1, <2>1 DEF Knows, Shape, Staged, Same, Asked
  <2>3. Found(c)
    BY <1>0, <1>a, <1>1, <2>1 DEF Knows, Shape, Found, Same
  <2>4. (Erases => Live(c)) /\ (Administers => Spared(c))
    BY <1>0, <1>a, <1>1, <2>1 DEF Knows, Live, Spared, Same, Asked, Shape, Staged, Erases, Administers, Asks
  <2> QED BY Zenon, <1>0, <2>1, <2>2, <2>3, <2>4, GoesOn
<1>2. CASE Answer(r, "unauthorized") /\ req[r].op # "webhook"
  BY Zenon, <1>0, <1>a, <1>2, Answered DEF Outcomes, Knows, Shape, Staged
<1>3. CASE Go(r, "authorise") /\ req[r].op # "webhook" /\ ~req[r].user.deleted
  <2>1. PICK c \in Req : req' = [req EXCEPT ![r] = c] /\ c.at = "authorise" /\ c.user = req[r].user /\ Same(c, req[r])
    BY SMTT(30), <1>a, <1>3, GoMoves DEF Knows, Stages
  <2>2. Staged(c) /\ c.at \notin {"idle", "claim", "done"}
    BY <1>0, <1>a, <1>3, <2>1 DEF Knows, Shape, Staged, Same, Asked
  <2>3. Found(c)
    BY <1>0, <1>a, <1>3, <2>1 DEF Knows, Shape, Found, Same
  <2>4. (Erases => Live(c)) /\ (Administers => Spared(c))
    BY <1>0, <1>a, <1>3, <2>1 DEF Knows, Live, Spared, Same, Shape, Found
  <2> QED BY Zenon, <1>0, <2>1, <2>2, <2>3, <2>4, GoesOn
<1>4. CASE Go(r, "correct") /\ ~req[r].user.deleted
  <2>1. PICK c \in Req : req' = [req EXCEPT ![r] = c] /\ c.at = "correct" /\ c.user = req[r].user /\ Same(c, req[r])
    BY SMTT(30), <1>a, <1>4, GoMoves DEF Knows, Stages
  <2>2. Staged(c) /\ c.at \notin {"idle", "claim", "done"}
    BY <1>0, <1>a, <1>4, <2>1 DEF Knows, Shape, Staged, Same, Asked
  <2>3. Found(c)
    BY <1>0, <1>a, <1>4, <2>1 DEF Knows, Shape, Found, Same
  <2>4. (Erases => Live(c)) /\ (Administers => Spared(c))
    BY <1>0, <1>a, <1>4, <2>1 DEF Knows, Live, Spared, Same, Shape, Found
  <2> QED BY Zenon, <1>0, <2>1, <2>2, <2>3, <2>4, GoesOn
<1> QED BY <1>1, <1>2, <1>3, <1>4 DEF resolveSession, Resolved

LEMMA CorrectedKeeps ==
  ASSUME IInv, NEW r \in Requests, corrected(r)
  PROVE  IInv'
<1>0. req[r].at = "corrected" /\ Waits(r) /\ Reads
  BY DEF corrected, Waits, Reads, mirror, readOnly
<1>a. Knows(r) /\ Asked(req[r])
  BY <1>0, Known
<1>1. CASE Go(r, "mark") /\ req[r].op = "webhook"
  <2>1. PICK c \in Req : req' = [req EXCEPT ![r] = c] /\ c.at = "mark" /\ c.user = req[r].user /\ Same(c, req[r])
    BY <1>a, <1>1, GoMoves DEF Knows, Stages
  <2>2. Staged(c) /\ c.at \notin {"idle", "claim", "done"}
    BY <1>0, <1>a, <1>1, <2>1 DEF Knows, Shape, Staged, Same, Asked
  <2>3. Found(c)
    BY SMTT(30), <1>0, <1>a, <1>1, <2>1 DEF Knows, Shape, Found, Same
  <2>4. (Erases => Live(c)) /\ (Administers => Spared(c))
    BY <1>0, <1>a, <1>1, <2>1 DEF Knows, Live, Spared, Same, Asked, Shape, Staged, Erases, Administers, Asks
  <2> QED BY Zenon, <1>0, <2>1, <2>2, <2>3, <2>4, GoesOn
<1>2. CASE Go(r, "authorise") /\ req[r].op # "webhook"
  <2>1. PICK c \in Req : req' = [req EXCEPT ![r] = c] /\ c.at = "authorise" /\ c.user = req[r].user /\ Same(c, req[r])
    BY SMTT(30), <1>a, <1>2, GoMoves DEF Knows, Stages
  <2>2. Staged(c) /\ c.at \notin {"idle", "claim", "done"}
    BY <1>0, <1>a, <1>2, <2>1 DEF Knows, Shape, Staged, Same, Asked
  <2>3. Found(c)
    BY <1>0, <1>a, <1>2, <2>1 DEF Knows, Shape, Found, Same
  <2>4. (Erases => Live(c)) /\ (Administers => Spared(c))
    BY <1>0, <1>a, <1>2, <2>1 DEF Knows, Live, Spared, Same
  <2> QED BY Zenon, <1>0, <2>1, <2>2, <2>3, <2>4, GoesOn
<1> QED BY <1>1, <1>2 DEF corrected, Resolved

LEMMA SaveMineKeeps ==
  ASSUME IInv, NEW r \in Requests, saveMine(r)
  PROVE  IInv'
<1>0. req[r].at = "save" /\ Waits(r) /\ Reads
  BY DEF saveMine, Waits, Reads, mirror, readOnly
<1>a. Knows(r) /\ Asked(req[r])
  BY <1>0, Known
<1>1. CASE req' = [req EXCEPT ![r].at = "saveWrite", ![r].before = req[r].who \in profiles]
  <2>0. "saveWrite" \in Stages /\ req \in [Requests -> Req]
    BY <1>a DEF Stages, Knows
  <2>1. PICK c \in Req : req' = [req EXCEPT ![r] = c] /\ c.at = "saveWrite" /\ c.user = req[r].user /\ Same(c, req[r])
    BY Zenon, <1>1, <2>0, NotesMoves
  <2>2. Staged(c) /\ c.at \notin {"idle", "claim", "done"}
    BY <1>0, <1>a, <1>1, <2>1 DEF Knows, Shape, Staged, Same, Asked
  <2>3. Found(c)
    BY <1>0, <1>a, <1>1, <2>1 DEF Knows, Shape, Found, Same
  <2>4. (Erases => Live(c)) /\ (Administers => Spared(c))
    BY <1>0, <1>a, <1>1, <2>1 DEF Knows, Live, Spared, Same
  <2> QED BY Zenon, <1>0, <2>1, <2>2, <2>3, <2>4, GoesOn
<1> QED BY <1>1 DEF saveMine

LEMMA SaveAuditKeeps ==
  ASSUME IInv, NEW r \in Requests, saveAudit(r)
  PROVE  IInv'
<1>0. req[r].at = "saveAudit" /\ Waits(r) /\ Reads
  BY DEF saveAudit, Waits, Reads, mirror, readOnly
<1>a. Knows(r) /\ Asked(req[r])
  BY <1>0, Known
<1>1. CASE Answer(r, "saved")
  BY Zenon, <1>0, <1>a, <1>1, Answered DEF Outcomes, Knows, Shape, Staged
<1> QED BY <1>1 DEF saveAudit

LEMMA ExportForKeeps ==
  ASSUME IInv, NEW r \in Requests, exportFor(r)
  PROVE  IInv'
<1>0. req[r].at = "export" /\ Waits(r) /\ Reads
  BY Zenon DEF exportFor, Waits, Reads, mirror, readOnly
<1>a. Knows(r) /\ Asked(req[r])
  BY <1>0, Known
<1>1. CASE Answer(r, "not found")
  BY Zenon, <1>0, <1>a, <1>1, Answered DEF Outcomes, Knows, Shape, Staged
<1>2. CASE Go(r, "exportAudit")
  <2>1. PICK c \in Req : req' = [req EXCEPT ![r] = c] /\ c.at = "exportAudit" /\ c.user = req[r].user /\ Same(c, req[r])
    BY SMTT(30), <1>a, <1>2, GoMoves DEF Knows, Stages
  <2>2. Staged(c) /\ c.at \notin {"idle", "claim", "done"}
    BY <1>0, <1>a, <1>2, <2>1 DEF Knows, Shape, Staged, Same, Asked
  <2>3. Found(c)
    BY <1>0, <1>a, <1>2, <2>1 DEF Knows, Shape, Found, Same
  <2>4. (Erases => Live(c)) /\ (Administers => Spared(c))
    BY <1>0, <1>a, <1>2, <2>1 DEF Knows, Live, Spared, Same
  <2> QED BY Zenon, <1>0, <2>1, <2>2, <2>3, <2>4, GoesOn
<1> QED BY Zenon, <1>1, <1>2 DEF exportFor

LEMMA ExportAuditKeeps ==
  ASSUME IInv, NEW r \in Requests, exportAudit(r)
  PROVE  IInv'
<1>0. req[r].at = "exportAudit" /\ Waits(r) /\ Reads
  BY DEF exportAudit, Waits, Reads, mirror, readOnly
<1>a. Knows(r) /\ Asked(req[r])
  BY <1>0, Known
<1>1. CASE Answer(r, "exported")
  BY Zenon, <1>0, <1>a, <1>1, Answered DEF Outcomes, Knows, Shape, Staged
<1> QED BY <1>1 DEF exportAudit

LEMMA RequestDeletionKeeps ==
  ASSUME IInv, NEW r \in Requests, requestDeletion(r)
  PROVE  IInv'
<1>0. req[r].at = "delete" /\ Waits(r) /\ Reads
  BY DEF requestDeletion, Waits, Reads, mirror, readOnly
<1>a. Knows(r) /\ Asked(req[r])
  BY <1>0, Known
<1>b. users[req[r].who] \in Row \cup {None}
  BY <1>a, RowFacts DEF Asked
<1>1. CASE Answer(r, "deleted")
  BY Zenon, <1>0, <1>a, <1>1, Answered DEF Outcomes, Knows, Shape, Staged
<1>2. CASE GoWith(r, "erase", users[req[r].who]) /\ users[req[r].who] # None
  <2>1. PICK c \in Req : req' = [req EXCEPT ![r] = c] /\ c.at = "erase" /\ c.user = users[req[r].who] /\ Same(c, req[r])
    BY <1>a, <1>b, <1>2, GoWithMoves DEF Knows, Stages, findById, findByClerkUserId
  <2>2. Staged(c) /\ c.at \notin {"idle", "claim", "done"}
    BY Zenon, <1>0, <1>a, <1>2, <2>1 DEF Knows, Shape, Staged, Same, Asked
  <2>3. Found(c)
    BY <1>0, <1>a, <1>b, <1>2, <2>1 DEF Knows, Shape, Found, Same
  <2>4. (Erases => Live(c)) /\ (Administers => Spared(c))
    BY <1>0, <1>a, <1>b, <1>2, <2>1 DEF Knows, Live, Spared, Same
  <2> QED BY Zenon, <1>0, <2>1, <2>2, <2>3, <2>4, GoesOn
<1> QED BY <1>1, <1>2 DEF requestDeletion, findById

LEMMA EraseForKeeps ==
  ASSUME IInv, NEW r \in Requests, eraseFor(r)
  PROVE  IInv'
<1>0. req[r].at = "erase" /\ Waits(r) /\ Reads
  BY DEF eraseFor, Waits, Reads, mirror, readOnly
<1>a. Knows(r) /\ Asked(req[r])
  BY <1>0, Known
<1>1. CASE req' = [req EXCEPT ![r].at = "eraseProfile", ![r].before = req[r].who \in profiles]
  <2>0. "eraseProfile" \in Stages /\ req \in [Requests -> Req]
    BY <1>a DEF Stages, Knows
  <2>1. PICK c \in Req : req' = [req EXCEPT ![r] = c] /\ c.at = "eraseProfile" /\ c.user = req[r].user /\ Same(c, req[r])
    BY Zenon, <1>1, <2>0, NotesMoves
  <2>2. Staged(c) /\ c.at \notin {"idle", "claim", "done"}
    BY <1>0, <1>a, <1>1, <2>1 DEF Knows, Shape, Staged, Same, Asked
  <2>3. Found(c)
    BY <1>0, <1>a, <1>1, <2>1 DEF Knows, Shape, Found, Same
  <2>4. (Erases => Live(c)) /\ (Administers => Spared(c))
    BY <1>0, <1>a, <1>1, <2>1 DEF Knows, Live, Spared, Same
  <2> QED BY Zenon, <1>0, <2>1, <2>2, <2>3, <2>4, GoesOn
<1> QED BY <1>1 DEF eraseFor

LEMMA EraseAuditKeeps ==
  ASSUME IInv, NEW r \in Requests, eraseAudit(r)
  PROVE  IInv'
<1>0. req[r].at = "eraseAudit" /\ Waits(r) /\ Reads
  BY DEF eraseAudit, Waits, Reads, mirror, readOnly
<1>a. Knows(r) /\ Asked(req[r])
  BY <1>0, Known
<1>1. CASE Go(r, "eraseOthers")
  <2>1. PICK c \in Req : req' = [req EXCEPT ![r] = c] /\ c.at = "eraseOthers" /\ c.user = req[r].user /\ Same(c, req[r])
    BY SMTT(30), <1>a, <1>1, GoMoves DEF Knows, Stages
  <2>2. Staged(c) /\ c.at \notin {"idle", "claim", "done"}
    BY <1>0, <1>a, <1>1, <2>1 DEF Knows, Shape, Staged, Same, Asked
  <2>3. Found(c)
    BY <1>0, <1>a, <1>1, <2>1 DEF Knows, Shape, Found, Same
  <2>4. (Erases => Live(c)) /\ (Administers => Spared(c))
    BY <1>0, <1>a, <1>1, <2>1 DEF Knows, Live, Spared, Same
  <2> QED BY Zenon, <1>0, <2>1, <2>2, <2>3, <2>4, GoesOn
<1> QED BY <1>1 DEF eraseAudit

LEMMA EraseOthersKeeps ==
  ASSUME IInv, NEW r \in Requests, eraseOthers(r)
  PROVE  IInv'
<1>0. req[r].at = "eraseOthers" /\ Waits(r) /\ Reads
  BY DEF eraseOthers, Waits, Reads, mirror, readOnly
<1>a. Knows(r) /\ Asked(req[r])
  BY <1>0, Known
<1>1. CASE Go(r, "redact")
  <2>1. PICK c \in Req : req' = [req EXCEPT ![r] = c] /\ c.at = "redact" /\ c.user = req[r].user /\ Same(c, req[r])
    BY <1>a, <1>1, GoMoves DEF Knows, Stages
  <2>2. Staged(c) /\ c.at \notin {"idle", "claim", "done"}
    BY Zenon, <1>0, <1>a, <1>1, <2>1 DEF Knows, Shape, Staged, Same, Asked
  <2>3. Found(c)
    BY <1>0, <1>a, <1>1, <2>1 DEF Knows, Shape, Found, Same
  <2>4. (Erases => Live(c)) /\ (Administers => Spared(c))
    BY <1>0, <1>a, <1>1, <2>1 DEF Knows, Live, Spared, Same
  <2> QED BY Zenon, <1>0, <2>1, <2>2, <2>3, <2>4, GoesOn
<1>2. CASE Answer(r, "failed")
  BY Zenon, <1>0, <1>a, <1>2, Answered DEF Outcomes, Knows, Shape, Staged
<1> QED BY <1>1, <1>2 DEF eraseOthers

LEMMA DeleteAuditKeeps ==
  ASSUME IInv, NEW r \in Requests, deleteAudit(r)
  PROVE  IInv'
<1>0. req[r].at = "deleteAudit" /\ Waits(r) /\ Reads
  BY DEF deleteAudit, Waits, Reads, mirror, readOnly
<1>a. Knows(r) /\ Asked(req[r])
  BY <1>0, Known
<1>1. CASE Go(r, "mark") /\ req[r].op = "webhook"
  <2>1. PICK c \in Req : req' = [req EXCEPT ![r] = c] /\ c.at = "mark" /\ c.user = req[r].user /\ Same(c, req[r])
    BY <1>a, <1>1, GoMoves DEF Knows, Stages
  <2>2. Staged(c) /\ c.at \notin {"idle", "claim", "done"}
    BY Zenon, <1>0, <1>a, <1>1, <2>1 DEF Knows, Shape, Staged, Same, Asked
  <2>3. Found(c)
    BY SMTT(30), <1>0, <1>a, <1>1, <2>1 DEF Knows, Shape, Found, Same
  <2>4. (Erases => Live(c)) /\ (Administers => Spared(c))
    BY <1>0, <1>a, <1>1, <2>1 DEF Knows, Live, Spared, Same, Asked, Shape, Staged, Erases, Administers, Asks
  <2> QED BY Zenon, <1>0, <2>1, <2>2, <2>3, <2>4, GoesOn
<1>2. CASE Answer(r, "deleted") /\ req[r].op # "webhook"
  BY Zenon, <1>0, <1>a, <1>2, Answered DEF Outcomes, Knows, Shape, Staged
<1> QED BY <1>1, <1>2 DEF deleteAudit

LEMMA ViewKeeps ==
  ASSUME IInv, NEW r \in Requests, view(r)
  PROVE  IInv'
<1>0. req[r].at = "view" /\ Waits(r) /\ Reads
  BY DEF view, Waits, Reads, mirror, readOnly
<1>a. Knows(r) /\ Asked(req[r])
  BY <1>0, Known
<1>1. CASE Go(r, "viewRead")
  <2>1. PICK c \in Req : req' = [req EXCEPT ![r] = c] /\ c.at = "viewRead" /\ c.user = req[r].user /\ Same(c, req[r])
    BY <1>a, <1>1, GoMoves DEF Knows, Stages
  <2>2. Staged(c) /\ c.at \notin {"idle", "claim", "done"}
    BY Zenon, <1>0, <1>a, <1>1, <2>1 DEF Knows, Shape, Staged, Same, Asked
  <2>3. Found(c)
    BY <1>0, <1>a, <1>1, <2>1 DEF Knows, Shape, Found, Same
  <2>4. (Erases => Live(c)) /\ (Administers => Spared(c))
    BY <1>0, <1>a, <1>1, <2>1 DEF Knows, Live, Spared, Same
  <2> QED BY Zenon, <1>0, <2>1, <2>2, <2>3, <2>4, GoesOn
<1> QED BY <1>1 DEF view

LEMMA SuspendKeeps ==
  ASSUME IInv, NEW r \in Requests, suspend(r)
  PROVE  IInv'
<1>0. req[r].at = "suspend" /\ Waits(r) /\ Reads
  BY DEF suspend, Waits, Reads, mirror, readOnly
<1>a. Knows(r) /\ Asked(req[r])
  BY SMTT(30), <1>0, Known
<1>b. req[r].arg \in People /\ users[req[r].arg] \in Row \cup {None}
  BY <1>0, <1>a, RowFacts DEF Asked, Knows, Shape, Staged
<1>1. CASE Answer(r, "refused")
  BY Zenon, <1>0, <1>a, <1>1, Answered DEF Outcomes, Knows, Shape, Staged
<1>2. CASE GoWith(r, "suspendCount", users[req[r].arg]) /\ users[req[r].arg] # None
  <2>1. PICK c \in Req : req' = [req EXCEPT ![r] = c] /\ c.at = "suspendCount" /\ c.user = users[req[r].arg] /\ Same(c, req[r])
    BY <1>a, <1>b, <1>2, GoWithMoves DEF Knows, Stages, findById, findByClerkUserId
  <2>2. Staged(c) /\ c.at \notin {"idle", "claim", "done"}
    BY Zenon, <1>0, <1>a, <1>2, <2>1 DEF Knows, Shape, Staged, Same, Asked
  <2>3. Found(c)
    BY <1>0, <1>a, <1>b, <1>2, <2>1 DEF Knows, Shape, Found, Same
  <2>4. (Erases => Live(c)) /\ (Administers => Spared(c))
    BY <1>0, <1>a, <1>b, <1>2, <2>1 DEF Knows, Live, Spared, Same
  <2> QED BY Zenon, <1>0, <2>1, <2>2, <2>3, <2>4, GoesOn
<1>3. CASE GoWith(r, "suspendWrite", users[req[r].arg]) /\ users[req[r].arg] # None /\ users[req[r].arg].role # "ADMIN"
  <2>1. PICK c \in Req : req' = [req EXCEPT ![r] = c] /\ c.at = "suspendWrite" /\ c.user = users[req[r].arg] /\ Same(c, req[r])
    BY <1>a, <1>b, <1>3, GoWithMoves DEF Knows, Stages, findById, findByClerkUserId
  <2>2. Staged(c) /\ c.at \notin {"idle", "claim", "done"}
    BY Zenon, <1>0, <1>a, <1>3, <2>1 DEF Knows, Shape, Staged, Same, Asked
  <2>3. Found(c)
    BY SMTT(30), <1>0, <1>a, <1>b, <1>3, <2>1 DEF Knows, Shape, Found, Same
  <2>4. (Erases => Live(c)) /\ (Administers => Spared(c))
    BY <1>0, <1>a, <1>b, <1>3, <2>1 DEF Knows, Live, Spared, Same, Usable
  <2> QED BY Zenon, <1>0, <2>1, <2>2, <2>3, <2>4, GoesOn
<1> QED BY RowFacts, <1>1, <1>2, <1>3 DEF suspend, findById, requireSuspendable, NeedsCount

LEMMA SuspendCountKeeps ==
  ASSUME IInv, NEW r \in Requests, suspendCount(r)
  PROVE  IInv'
<1>0. req[r].at = "suspendCount" /\ Waits(r) /\ Reads
  BY DEF suspendCount, Waits, Reads, mirror, readOnly
<1>a. Knows(r) /\ Asked(req[r])
  BY <1>0, Known
<1>1. CASE Go(r, "suspendWrite") /\ ~(countAdministrators <= 1)
  <2>1. PICK c \in Req : req' = [req EXCEPT ![r] = c] /\ c.at = "suspendWrite" /\ c.user = req[r].user /\ Same(c, req[r])
    BY SMTT(30), <1>a, <1>1, GoMoves DEF Knows, Stages
  <2>2. Staged(c) /\ c.at \notin {"idle", "claim", "done"}
    BY <1>0, <1>a, <1>1, <2>1 DEF Knows, Shape, Staged, Same, Asked
  <2>3. Found(c)
    BY <1>0, <1>a, <1>1, <2>1 DEF Knows, Shape, Found, Same
  <2>4. (Erases => Live(c)) /\ (Administers => Spared(c))
    BY <1>0, <1>a, <1>1, <2>1, Another DEF Knows, Live, Spared, Same
  <2> QED BY Zenon, <1>0, <2>1, <2>2, <2>3, <2>4, GoesOn
<1>2. CASE Answer(r, "refused")
  BY Zenon, <1>0, <1>a, <1>2, Answered DEF Outcomes, Knows, Shape, Staged
<1> QED BY <1>1, <1>2 DEF suspendCount, refuseIfLastAdministrator

LEMMA ReinstateKeeps ==
  ASSUME IInv, NEW r \in Requests, reinstate(r)
  PROVE  IInv'
<1>0. req[r].at = "reinstate" /\ Waits(r) /\ Reads
  BY DEF reinstate, Waits, Reads, mirror, readOnly
<1>a. Knows(r) /\ Asked(req[r])
  BY SMTT(30), <1>0, Known
<1>b. req[r].arg \in People /\ users[req[r].arg] \in Row \cup {None}
  BY <1>0, <1>a, RowFacts DEF Asked, Knows, Shape, Staged
<1>1. CASE Answer(r, "refused")
  BY Zenon, <1>0, <1>a, <1>1, Answered DEF Outcomes, Knows, Shape, Staged
<1>2. CASE GoWith(r, "reinstateWrite", users[req[r].arg]) /\ users[req[r].arg] # None
  <2>1. PICK c \in Req : req' = [req EXCEPT ![r] = c] /\ c.at = "reinstateWrite" /\ c.user = users[req[r].arg] /\ Same(c, req[r])
    BY <1>a, <1>b, <1>2, GoWithMoves DEF Knows, Stages, findById, findByClerkUserId
  <2>2. Staged(c) /\ c.at \notin {"idle", "claim", "done"}
    BY Zenon, <1>0, <1>a, <1>2, <2>1 DEF Knows, Shape, Staged, Same, Asked
  <2>3. Found(c)
    BY <1>0, <1>a, <1>b, <1>2, <2>1 DEF Knows, Shape, Found, Same
  <2>4. (Erases => Live(c)) /\ (Administers => Spared(c))
    BY <1>0, <1>a, <1>b, <1>2, <2>1 DEF Knows, Live, Spared, Same
  <2> QED BY Zenon, <1>0, <2>1, <2>2, <2>3, <2>4, GoesOn
<1> QED BY <1>1, <1>2 DEF reinstate, findById, requireSuspendable

LEMMA SuspensionAuditKeeps ==
  ASSUME IInv, NEW r \in Requests, suspensionAudit(r)
  PROVE  IInv'
<1>0. req[r].at = "suspensionAudit" /\ Waits(r) /\ Reads
  BY DEF suspensionAudit, Waits, Reads, mirror, readOnly
<1>a. Knows(r) /\ Asked(req[r])
  BY <1>0, Known
<1>1. CASE Answer(r, "done")
  BY Zenon, <1>0, <1>a, <1>1, Answered DEF Outcomes, Knows, Shape, Staged
<1> QED BY <1>1 DEF suspensionAudit

LEMMA ProposeRoleChangeKeeps ==
  ASSUME IInv, NEW r \in Requests, proposeRoleChange(r)
  PROVE  IInv'
<1>0. req[r].at = "propose" /\ Waits(r) /\ Reads
  BY DEF proposeRoleChange, Waits, Reads, mirror, readOnly
<1> USE <1>0, Known
<1>1. CASE Answer(r, "refused")
  BY Zenon, <1>1, Answered DEF Outcomes, Knows, Shape, Staged
<1>2. ASSUME NEW at \in {"proposeCount", "proposeWrite"}, GoWith(r, at, users[req[r].arg])
      PROVE  IInv'
  <2>1. req[r].arg \in People
    BY SMTT(30) DEF Knows, Shape, Asked, Staged
  <2>2. users[req[r].arg] \in Row \cup {None} /\ at \in Stages /\ req \in [Requests -> Req]
    BY SMTT(30), <2>1, RowFacts DEF Stages, Knows
  <2>3. PICK c \in Req : req' = [req EXCEPT ![r] = c] /\ c.at = at /\ Same(c, req[r])
    BY <1>2, <2>2, GoWithMoves
  <2>4. Staged(c) /\ Found(c) /\ (Erases => Live(c)) /\ (Administers => Spared(c))
    BY Zenon, <2>3 DEF Knows, Shape, Staged, Found, Live, Spared, Same, Asked
  <2> QED BY Zenon, <2>3, <2>4, GoesOn
<1> QED BY <1>1, <1>2 DEF proposeRoleChange, findById

LEMMA ProposeCountKeeps ==
  ASSUME IInv, NEW r \in Requests, proposeCount(r)
  PROVE  IInv'
<1>0. req[r].at = "proposeCount" /\ Waits(r) /\ Reads
  BY DEF proposeCount, Waits, Reads, mirror, readOnly
<1>a. Knows(r) /\ Asked(req[r])
  BY <1>0, Known
<1>1. CASE Go(r, "proposeWrite")
  <2>1. PICK c \in Req : req' = [req EXCEPT ![r] = c] /\ c.at = "proposeWrite" /\ c.user = req[r].user /\ Same(c, req[r])
    BY <1>a, <1>1, GoMoves DEF Knows, Stages
  <2>2. Staged(c) /\ c.at \notin {"idle", "claim", "done"}
    BY Zenon, <1>0, <1>a, <1>1, <2>1 DEF Knows, Shape, Staged, Same, Asked
  <2>3. Found(c)
    BY <1>0, <1>a, <1>1, <2>1 DEF Knows, Shape, Found, Same
  <2>4. (Erases => Live(c)) /\ (Administers => Spared(c))
    BY <1>0, <1>a, <1>1, <2>1 DEF Knows, Live, Spared, Same
  <2> QED BY Zenon, <1>0, <2>1, <2>2, <2>3, <2>4, GoesOn
<1>2. CASE Answer(r, "refused")
  BY Zenon, <1>0, <1>a, <1>2, Answered DEF Outcomes, Knows, Shape, Staged
<1> QED BY <1>1, <1>2 DEF proposeCount, refuseIfLastAdministrator

LEMMA ProposeAuditKeeps ==
  ASSUME IInv, NEW r \in Requests, proposeAudit(r)
  PROVE  IInv'
<1>0. req[r].at = "proposeAudit" /\ Waits(r) /\ Reads
  BY DEF proposeAudit, Waits, Reads, mirror, readOnly
<1>a. Knows(r) /\ Asked(req[r])
  BY <1>0, Known
<1>1. CASE Answer(r, "done")
  BY Zenon, <1>0, <1>a, <1>1, Answered DEF Outcomes, Knows, Shape, Staged
<1> QED BY <1>1 DEF proposeAudit

LEMMA ApproveKeeps ==
  ASSUME IInv, NEW r \in Requests, approve(r)
  PROVE  IInv'
<1>0. req[r].at = "approve" /\ Waits(r) /\ Reads
  BY DEF approve, Waits, Reads, mirror, readOnly
<1>a. Knows(r) /\ Asked(req[r])
  BY <1>0, Known
<1>1. CASE Go(r, "approveTarget") /\ approvals[req[r].arg] # None
  <2>1. PICK c \in Req : req' = [req EXCEPT ![r] = c] /\ c.at = "approveTarget" /\ c.user = req[r].user /\ Same(c, req[r])
    BY <1>a, <1>1, GoMoves DEF Knows, Stages
  <2>2. Staged(c) /\ c.at \notin {"idle", "claim", "done"}
    BY Zenon, <1>0, <1>a, <1>1, <2>1 DEF Knows, Shape, Staged, Same, Asked
  <2>3. Found(c)
    BY <1>0, <1>a, <1>1, <2>1 DEF Knows, Shape, Found, Same
  <2>4. (Erases => Live(c)) /\ (Administers => Spared(c))
    BY <1>0, <1>a, <1>1, <2>1 DEF Knows, Live, Spared, Same
  <2> QED BY Zenon, <1>0, <2>1, <2>2, <2>3, <2>4, GoesOn
<1>2. ASSUME NEW out \in {"refused", "conflict"}, Answer(r, out) PROVE IInv'
  BY Zenon, <1>0, <1>a, <1>2, Answered DEF Outcomes, Knows, Shape, Staged
<1> QED BY <1>1, <1>2 DEF approve, requirePending

LEMMA ApproveTargetKeeps ==
  ASSUME IInv, NEW r \in Requests, approveTarget(r)
  PROVE  IInv'
<1> DEFINE a == approvals[req[r].arg]
           t == users[a.who]
<1>0. req[r].at = "approveTarget" /\ Waits(r) /\ Reads
  BY DEF approveTarget, Waits, Reads, mirror, readOnly
<1>1. a # None /\ a.who \in People /\ t \in Row \cup {None} /\ req \in [Requests -> Req]
  BY Zenon, <1>0, Known, RowFacts DEF Knows, Shape, Asked, Staged, Found
<1>2. CASE Answer(r, "refused")
  BY Zenon, <1>0, <1>2, Known, Answered DEF Outcomes, Knows, Shape, Staged
<1>3. ASSUME NEW at \in {"approveCount", "approveWrite"}, GoWith(r, at, t), t # None,
             at = "approveWrite" => a.role = "ADMIN" \/ t.role # "ADMIN"
      PROVE  IInv'
  <2>1. at \in Stages
    BY DEF Stages
  <2>2. PICK c \in Req : req' = [req EXCEPT ![r] = c] /\ c.at = at /\ Same(c, req[r])
    BY SMTT(30), <1>1, <1>3, <2>1, GoWithMoves
  <2>3. c.arg = req[r].arg /\ c.op = "approve" /\ c.out = "none" /\ c.who = req[r].who
    BY <1>0, <2>2, Known DEF Same, Knows, Shape, Staged
  <2>4. Staged(c)
    BY <2>2, <2>3 DEF Staged
  <2>5. Found(c)
    BY <1>1, <1>3, <2>2, <2>3 DEF Found
  <2>6. Erases => Live(c)
    BY SMTT(30), <1>0, <2>2, <2>3, Known DEF Knows, Live
  <2>7. Administers => Spared(c)
    <3>1. Administers => \E p \in People : Usable(p)
      BY Known DEF Knows
    <3>2. t.role # "ADMIN" => ~Usable(a.who)
      BY DEF Usable
    <3> QED BY <1>3, <2>2, <2>3, <3>1, <3>2 DEF Spared
  <2> QED BY Zenon, <1>0, <2>2, <2>4, <2>5, <2>6, <2>7, GoesOn
<1> QED BY <1>1, <1>2, <1>3 DEF approveTarget, findById, NeedsCount

LEMMA ApproveCountKeeps ==
  ASSUME IInv, NEW r \in Requests, approveCount(r)
  PROVE  IInv'
<1>0. req[r].at = "approveCount" /\ Waits(r) /\ Reads
  BY DEF approveCount, Waits, Reads, mirror, readOnly
<1>a. Knows(r) /\ Asked(req[r])
  BY <1>0, Known
<1>1. CASE Go(r, "approveWrite") /\ ~(countAdministrators <= 1)
  <2>1. PICK c \in Req : req' = [req EXCEPT ![r] = c] /\ c.at = "approveWrite" /\ c.user = req[r].user /\ Same(c, req[r])
    BY <1>a, <1>1, GoMoves DEF Knows, Stages
  <2>2. Staged(c) /\ c.at \notin {"idle", "claim", "done"}
    BY Zenon, <1>0, <1>a, <1>1, <2>1 DEF Knows, Shape, Staged, Same, Asked
  <2>3. Found(c)
    BY <1>0, <1>a, <1>1, <2>1 DEF Knows, Shape, Found, Same
  <2>4. (Erases => Live(c)) /\ (Administers => Spared(c))
    BY <1>0, <1>a, <1>1, <2>1, Another DEF Knows, Live, Spared, Same
  <2> QED BY Zenon, <1>0, <2>1, <2>2, <2>3, <2>4, GoesOn
<1>2. CASE Answer(r, "refused")
  BY Zenon, <1>0, <1>a, <1>2, Answered DEF Outcomes, Knows, Shape, Staged
<1> QED BY <1>1, <1>2 DEF approveCount, refuseIfLastAdministrator

LEMMA CancelApprovalKeeps ==
  ASSUME IInv, NEW r \in Requests, cancelApproval(r)
  PROVE  IInv'
<1>0. req[r].at = "cancel" /\ Waits(r) /\ Reads
  BY DEF cancelApproval, Waits, Reads, mirror, readOnly
<1>a. Knows(r) /\ Asked(req[r])
  BY <1>0, Known
<1>1. CASE Go(r, "cancelWrite") /\ approvals[req[r].arg] # None
  <2>1. PICK c \in Req : req' = [req EXCEPT ![r] = c] /\ c.at = "cancelWrite" /\ c.user = req[r].user /\ Same(c, req[r])
    BY <1>a, <1>1, GoMoves DEF Knows, Stages
  <2>2. Staged(c) /\ c.at \notin {"idle", "claim", "done"}
    BY Zenon, <1>0, <1>a, <1>1, <2>1 DEF Knows, Shape, Staged, Same, Asked
  <2>3. Found(c)
    BY <1>0, <1>a, <1>1, <2>1 DEF Knows, Shape, Found, Same
  <2>4. (Erases => Live(c)) /\ (Administers => Spared(c))
    BY <1>0, <1>a, <1>1, <2>1 DEF Knows, Live, Spared, Same
  <2> QED BY Zenon, <1>0, <2>1, <2>2, <2>3, <2>4, GoesOn
<1>2. ASSUME NEW out \in {"refused", "conflict"}, Answer(r, out) PROVE IInv'
  BY Zenon, <1>0, <1>a, <1>2, Answered DEF Outcomes, Knows, Shape, Staged
<1> QED BY <1>1, <1>2 DEF cancelApproval, requirePending

LEMMA DecisionAuditKeeps ==
  ASSUME IInv, NEW r \in Requests, decisionAudit(r)
  PROVE  IInv'
<1>0. req[r].at \in {"approveAudit", "cancelAudit"} /\ Waits(r) /\ Reads /\ Answer(r, "done")
  BY DEF decisionAudit, Waits, Reads, mirror
<1> QED BY Zenon, <1>0, Known, Answered DEF Outcomes, Knows, Shape, Staged

LEMMA AdminViewForKeeps ==
  ASSUME IInv, NEW r \in Requests, adminViewFor(r)
  PROVE  IInv'
<1>0. req[r].at = "viewRead" /\ Waits(r) /\ Reads /\ (Answer(r, "not found") \/ Answer(r, "viewed"))
  BY Zenon DEF adminViewFor, Waits, Reads, mirror, readOnly
<1> QED BY Zenon, <1>0, Known, Answered DEF Outcomes, Knows, Shape, Staged

LEMMA FailKeeps ==
  ASSUME IInv, NEW r \in Requests, fail(r)
  PROVE  IInv'
<1>0. Waits(r) /\ Reads /\ Answer(r, "failed")
  BY SMTT(30) DEF fail, Reads, mirror
<1> QED BY Zenon, <1>0, Answered DEF Outcomes

\* The guard lets a request into the handler of its own operation.
LEMMA AuthoriseKeeps ==
  ASSUME IInv, NEW r \in Requests, authorise(r)
  PROVE  IInv'
<1>0. req[r].at = "authorise" /\ Waits(r) /\ Reads /\ req[r].op # "webhook"
  BY Zenon, Known DEF authorise, Waits, Reads, mirror, Knows, Shape, Staged
<1>a. Knows(r) /\ Asked(req[r])
  BY <1>0, Known
<1>1. CASE Answer(r, "forbidden")
  BY Zenon, <1>0, <1>1, Answered DEF Outcomes
<1>2. CASE Go(r, req[r].op)
  <2>1. req[r].op \in Ops \ {"none", "webhook"}
    BY <1>0, <1>a DEF Asked, Knows, Req
  <2>2. req[r].op \in Stages
    BY <2>1 DEF Ops, Stages
  <2>3. PICK c \in Req : req' = [req EXCEPT ![r] = c] /\ c.at = req[r].op /\ c.user = req[r].user /\ Same(c, req[r])
    BY <1>a, <1>2, <2>2, GoMoves DEF Knows
  <2>4. c.at = c.op /\ c.at \in {"save", "delete", "export", "suspend", "reinstate", "view", "propose", "approve", "cancel"}
    BY <2>1, <2>3 DEF Ops, Same
  <2>5. Staged(c) /\ Found(c) /\ c.at \notin {"idle", "claim", "done"}
    BY Zenon, <1>0, <1>a, <2>3, <2>4 DEF Knows, Shape, Staged, Found, Same
  <2>6. (Erases => Live(c)) /\ (Administers => Spared(c))
    BY <1>0, <1>a, <2>3, <2>4 DEF Knows, Shape, Live, Spared, Same
  <2> QED BY Zenon, <1>0, <2>3, <2>5, <2>6, GoesOn
<1> QED BY SMTT(30), <1>1, <1>2 DEF authorise

\* A claimed delivery is applied by what it carries.
LEMMA ApplyKeeps ==
  ASSUME IInv, NEW r \in Requests, apply(r)
  PROVE  IInv'
<1>0. /\ req[r].at \in {"user.upserted", "user.deleted", "session.recorded"} /\ Waits(r) /\ Reads
      /\ req[r].op = "webhook" /\ "webhook" \in usage.ops /\ req[r].at = Events[req[r].arg].type
  BY Zenon, Known DEF apply, Waits, Reads, mirror, Knows, Shape, Staged, Asked
<1>1. ~Administers
  BY <1>0 DEF Administers, Asks
<1>a. Knows(r) /\ Asked(req[r])
  BY <1>0, Known
<1>b. users[req[r].who] \in Row \cup {None}
  BY <1>a, RowFacts DEF Asked
<1>2. CASE Go(r, "upsert") /\ req[r].at = "user.upserted"
  <2>1. PICK c \in Req : req' = [req EXCEPT ![r] = c] /\ c.at = "upsert" /\ c.user = req[r].user /\ Same(c, req[r])
    BY <1>a, <1>2, GoMoves DEF Knows, Stages
  <2>2. c.email \in Emails
    BY Zenon, <1>0, <1>a, <1>2, <2>1, ProviderAssumption DEF Same, Asked
  <2>3. Staged(c) /\ Found(c) /\ Live(c) /\ c.at \notin {"idle", "claim", "done"}
    BY Zenon, <1>0, <1>a, <2>1, <2>2 DEF Knows, Shape, Staged, Found, Live, Same
  <2> QED BY Zenon, <1>0, <1>1, <2>1, <2>3, GoesOn
<1>3. CASE Go(r, "mark")
  <2>1. PICK c \in Req : req' = [req EXCEPT ![r] = c] /\ c.at = "mark" /\ c.user = req[r].user /\ Same(c, req[r])
    BY <1>a, <1>3, GoMoves DEF Knows, Stages
  <2>2. Staged(c) /\ Found(c) /\ Live(c) /\ c.at \notin {"idle", "claim", "done"}
    BY Zenon, <1>0, <1>a, <2>1 DEF Knows, Shape, Staged, Found, Live, Same
  <2> QED BY Zenon, <1>0, <1>1, <2>1, <2>2, GoesOn
<1>4. CASE Go(r, "signIn") /\ users[req[r].who] # None
  <2>1. PICK c \in Req : req' = [req EXCEPT ![r] = c] /\ c.at = "signIn" /\ c.user = req[r].user /\ Same(c, req[r])
    BY <1>a, <1>4, GoMoves DEF Knows, Stages
  <2>2. Staged(c) /\ Found(c) /\ Live(c) /\ c.at \notin {"idle", "claim", "done"}
    BY Zenon, <1>0, <1>a, <1>4, <2>1 DEF Knows, Shape, Staged, Found, Live, Same
  <2> QED BY Zenon, <1>0, <1>1, <2>1, <2>2, GoesOn
<1>5. CASE GoWith(r, "erase", users[req[r].who]) /\ users[req[r].who] # None /\ ~users[req[r].who].deleted
  <2>1. PICK c \in Req : req' = [req EXCEPT ![r] = c] /\ c.at = "erase" /\ c.user = users[req[r].who] /\ Same(c, req[r])
    BY <1>a, <1>b, <1>5, GoWithMoves DEF Knows, Stages
  <2>2. Staged(c) /\ Found(c) /\ Live(c) /\ c.at \notin {"idle", "claim", "done"}
    BY Zenon, <1>0, <1>a, <1>5, <2>1 DEF Knows, Shape, Staged, Found, Live, Same
  <2> QED BY Zenon, <1>0, <1>1, <2>1, <2>2, GoesOn
<1> QED BY <1>2, <1>3, <1>4, <1>5 DEF apply, findByClerkUserId
=============================================================================
