--------------------------- MODULE IdentityProofs ---------------------------
(***************************************************************************)
(* What the identity module guarantees for any people, deliveries,         *)
(* proposals and requests, however many are in flight: the ledger of       *)
(* deliveries, the decisions on role changes and, where requests are       *)
(* served one at a time, erasure and the last administrator.               *)
(***************************************************************************)
EXTENDS IdentityInvariant

(* The steps that write *)

\* A request writes to the tables, and goes on.
LEMMA Writes ==
  ASSUME IInv, NEW r \in Requests, Waits(r), req[r].at # "claim", NEW c \in Req, req' = [req EXCEPT ![r] = c],
         Same(c, req[r]), c.at \notin {"idle", "claim", "done"}, ledger' = ledger, usage' = usage,
         Tables', Kept, Staged(c), Found(c)',
         Erases => Gone' /\ Live(c)',
         Administers => (\E p \in People : Usable(p))' /\ Spared(c)'
  PROVE  IInv'
<1>1. Claims'
  BY Zenon, ClaimsKept DEF Same
<1>2. Asked(c)'
  BY Known DEF Asked, Same
<1>3. Staged(c)'
  BY DEF Staged
<1>4. Shape(c)'
  BY <1>2, <1>3 DEF Shape
<1> QED BY Zenon, <1>1, <1>4, Served

\* A row is made or replaced.
LEMMA RowWritten ==
  ASSUME IInv, NEW p \in People, NEW u \in Row, users' = [users EXCEPT ![p] = u],
         u.email \in Emails \cup {tombstoneEmail(p)},
         \A q \in People \ {p} : users[q] # None => users[q].email # u.email,
         UNCHANGED <<profiles, ledger>>, approvals' \in [Proposals -> Approval \cup {None}],
         \A a \in Proposals : approvals[a] # None => approvals'[a] # None /\ approvals'[a].who = approvals[a].who
  PROVE  Tables' /\ Kept /\ users'[p] = u /\ \A q \in People \ {p} : users'[q] = users[q]
<1>1. users \in [People -> Row \cup {None}]
  BY DEF IInv, Tables, TypeOK
<1>2. users' \in [People -> Row \cup {None}] /\ users'[p] = u /\ \A q \in People \ {p} : users'[q] = users[q]
  BY <1>1
<1>3. u # None
  BY RowFacts
<1>4. Kept
  BY <1>2, <1>3 DEF Kept
<1>5. \A q1, q2 \in People :
        q1 # q2 /\ users'[q1] # None /\ users'[q2] # None => users'[q1].email # users'[q2].email
  BY <1>2 DEF IInv, Tables, TypeOK
<1>6. profiles' \subseteq {q \in People : users'[q] # None}
  BY <1>2, <1>3 DEF IInv, Tables, TypeOK
<1>7. \A q \in People : users'[q] # None => users'[q].email \in Emails \cup {tombstoneEmail(q)}
  BY <1>2 DEF IInv, Tables
<1>8. ledger' \in [Deliveries -> {"unseen", "claimed", "processed"}]
  BY DEF IInv, Tables, TypeOK
<1>9. TypeOK'
  BY <1>2, <1>5, <1>6, <1>8 DEF TypeOK
<1> QED BY <1>2, <1>4, <1>7, <1>9 DEF Tables

LEMMA CreateKeeps ==
  ASSUME IInv, NEW r \in Requests, create(r)
  PROVE  IInv'
<1> DEFINE p == req[r].who
           row == [email |-> req[r].email, role |-> "USER", deleted |-> FALSE, suspended |-> None]
<1>0. /\ req[r].at = "create" /\ Waits(r) /\ p \in People /\ req[r].email \in Emails /\ req \in [Requests -> Req]
      /\ UNCHANGED <<profiles, signIns, ledger, approvals, usage>>
  BY Known DEF create, Waits, Knows, Shape, Staged, Asked
<1>1. CASE Go(r, "raced") /\ UNCHANGED users
  <2>1. PICK c \in Req : req' = [req EXCEPT ![r] = c] /\ c.at = "raced" /\ Same(c, req[r])
    BY <1>0, <1>1, GoMoves DEF Stages
  <2>2. Staged(c) /\ Found(c) /\ (Erases => Live(c)) /\ (Administers => Spared(c))
    BY <1>0, <2>1, Known DEF Knows, Shape, Staged, Found, Live, Spared, Same
  <2> QED BY Zenon, <1>0, <1>1, <2>1, <2>2, GoesOn DEF Reads, mirror
<1>2. CASE /\ users[p] = None /\ ~EmailTaken(req[r].email, p)
           /\ users' = [users EXCEPT ![p] = row] /\ GoWith(r, "provisioned", row)
  <2>1. row \in Row /\ row.email = req[r].email /\ row.deleted = FALSE
    BY <1>0 DEF Row, Roles
  <2> HIDE DEF row
  <2>2. PICK c \in Req : req' = [req EXCEPT ![r] = c] /\ c.at = "provisioned" /\ c.user = row /\ Same(c, req[r])
    BY <1>0, <1>2, <2>1, GoWithMoves DEF Stages
  <2>3. \A q \in People \ {p} : users[q] # None => users[q].email # row.email
    BY <1>2, <2>1 DEF EmailTaken
  <2>4. approvals \in [Proposals -> Approval \cup {None}]
    BY DEF IInv, Tables, TypeOK
  <2>5. Tables' /\ Kept /\ users'[p] = row /\ \A q \in People \ {p} : users'[q] = users[q]
    BY Zenon, <1>0, <1>2, <2>1, <2>3, <2>4, RowWritten
  <2>6. c.who = p /\ row # None
    BY <2>1, <2>2, RowFacts DEF Same
  <2>7. Staged(c)
    BY <1>0, <2>2, Known DEF Knows, Shape, Staged, Same
  <2>8. Found(c)'
    BY <2>2, <2>5, <2>6 DEF Found
  <2>9. Erases => Gone' /\ Live(c)'
    <3>1. Erases => Gone'
      BY Zenon, <1>0, <2>1, <2>5 DEF IInv, Gone, Deleted, Holds, HoldsSignIn
    <3> QED BY <2>1, <2>2, <2>5, <2>6, <3>1 DEF Live
  <2>10. Administers => (\E q \in People : Usable(q))' /\ Spared(c)'
    <3>1. \A q \in People : Usable(q) => Usable(q)'
      BY <1>2, <2>5 DEF Usable
    <3> QED BY <2>2, <3>1, Known DEF Knows, Spared
  <2> QED BY Zenon, <1>0, <2>2, <2>5, <2>7, <2>8, <2>9, <2>10, Writes
<1> QED BY Zenon, <1>1, <1>2 DEF create

LEMMA CorrectEmailKeeps ==
  ASSUME IInv, NEW r \in Requests, correctEmail(r)
  PROVE  IInv'
<1> DEFINE p == req[r].who
<1>0. /\ req[r].at = "correct" /\ Waits(r) /\ p \in People /\ req[r].email \in Emails /\ req \in [Requests -> Req]
      /\ users[p] # None /\ users[p] \in Row /\ req[r].user # None
      /\ UNCHANGED <<profiles, signIns, ledger, approvals, usage>>
  BY Known, RowFacts DEF correctEmail, Waits, Knows, Shape, Staged, Found, Asked
<1>1. CASE Go(r, Resolved(r)) /\ UNCHANGED users
  <2>0. Resolved(r) \in Stages /\ Resolved(r) = (IF req[r].op = "webhook" THEN "mark" ELSE "authorise")
    BY DEF Stages, Resolved
  <2>1. PICK c \in Req : req' = [req EXCEPT ![r] = c] /\ c.at = Resolved(r) /\ c.user = req[r].user /\ Same(c, req[r])
    BY Zenon, <1>0, <1>1, <2>0, GoMoves
  <2>2. Staged(c) /\ Found(c) /\ (Erases => Live(c)) /\ (Administers => Spared(c))
    BY Zenon, <1>0, <2>0, <2>1, Known DEF Knows, Shape, Staged, Found, Live, Spared, Same, Erases, Asked
  <2> QED BY Zenon, <1>0, <1>1, <2>0, <2>1, <2>2, GoesOn DEF Reads, mirror
<1>2. CASE /\ ~EmailTaken(req[r].email, p)
           /\ users' = [users EXCEPT ![p].email = req[r].email]
           /\ GoWith(r, "corrected", users'[p])
  <2>0. PICK u : u = [users[p] EXCEPT !.email = req[r].email]
    BY Zenon
  <2>1. u \in Row /\ u.email = req[r].email /\ u.deleted = users[p].deleted /\ u.role = users[p].role /\ u.suspended = users[p].suspended
    BY <1>0, <2>0 DEF Row
  <2>2. users \in [People -> Row \cup {None}] /\ approvals \in [Proposals -> Approval \cup {None}]
    BY DEF IInv, Tables, TypeOK
  <2>3. users' = [users EXCEPT ![p] = u] /\ users'[p] = u
    BY <1>0, <1>2, <2>0, <2>2
  <2>4. GoWith(r, "corrected", u)
    BY Zenon, <1>2, <2>3 DEF GoWith
  <2>5. PICK c \in Req : req' = [req EXCEPT ![r] = c] /\ c.at = "corrected" /\ c.user = u /\ Same(c, req[r])
    BY <1>0, <2>1, <2>4, GoWithMoves DEF Stages
  <2>6. \A q \in People \ {p} : users[q] # None => users[q].email # u.email
    BY <1>2, <2>1 DEF EmailTaken
  <2>7. Tables' /\ Kept /\ \A q \in People \ {p} : users'[q] = users[q]
    BY Zenon, <1>0, <2>1, <2>2, <2>3, <2>6, RowWritten
  <2>8. c.who = p /\ u # None
    BY Zenon, <2>1, <2>5, RowFacts DEF Same
  <2>9. Staged(c) /\ Found(c)'
    BY Zenon, <1>0, <2>3, <2>5, <2>8, Known DEF Knows, Shape, Staged, Found, Same
  <2>10. Erases => Gone' /\ Live(c)'
    <3>1. Erases => ~users[p].deleted /\ Gone
      BY <1>0, Known DEF Knows, Live, IInv
    <3>2. Erases => Gone'
      <4> SUFFICES ASSUME Erases PROVE Gone'
        OBVIOUS
      <4>1. signIns' = signIns /\ profiles' = profiles /\ signIns \subseteq SignInRows
        BY <1>0, <3>1 DEF Gone
      <4>2. ASSUME NEW q \in Deleted' PROVE q \in Deleted /\ users'[q] = users[q]
        BY <2>1, <2>3, <2>7, <3>1 DEF Deleted
      <4>3. \A q \in Deleted' : ~Holds(q, {FALSE})'
        BY Zenon, <3>1, <4>1, <4>2 DEF Gone, Holds, HoldsSignIn
      <4> QED BY Zenon, <4>1, <4>3 DEF Gone
    <3> QED BY Zenon, <2>1, <2>3, <2>5, <2>8, <3>1, <3>2 DEF Live
  <2>11. Administers => (\E q \in People : Usable(q))' /\ Spared(c)'
    <3>1. \A q \in People : Usable(q) => Usable(q)'
      BY <2>1, <2>3, <2>7, <2>8 DEF Usable
    <3> QED BY <2>5, <3>1, Known DEF Knows, Spared
  <2> QED BY Zenon, <1>0, <2>5, <2>7, <2>9, <2>10, <2>11, Writes
<1> QED BY Zenon, <1>1, <1>2 DEF correctEmail

\* Profiles come and go with the accounts that hold them.
LEMMA ProfilesWritten ==
  ASSUME IInv, profiles' \subseteq {p \in People : users[p] # None}, UNCHANGED <<users, ledger, approvals>>
  PROVE  Tables' /\ Kept /\ \A p \in People : Usable(p)' = Usable(p)
BY DEF IInv, Tables, TypeOK, Kept, Usable

LEMMA SaveKeeps ==
  ASSUME IInv, NEW r \in Requests, save(r)
  PROVE  IInv'
<1>0. /\ req[r].at = "saveWrite" /\ Waits(r) /\ req[r].who \in People /\ req \in [Requests -> Req] /\ users[req[r].who] # None
      /\ profiles' = profiles \cup {req[r].who} /\ UNCHANGED <<users, signIns, ledger, approvals, usage>>
  BY Zenon, Known DEF save, Waits, Knows, Shape, Found, Asked
<1>1. PICK c \in Req : req' = [req EXCEPT ![r] = c] /\ c.at = "saveAudit" /\ Same(c, req[r])
  BY <1>0, GoMoves DEF save, Stages
<1>2. profiles' \subseteq {p \in People : users[p] # None}
  BY Zenon, <1>0 DEF IInv, Tables, TypeOK
<1>3. Tables' /\ Kept /\ \A p \in People : Usable(p)' = Usable(p)
  BY Zenon, <1>0, <1>2, ProfilesWritten
<1>4. Staged(c) /\ Found(c)'
  BY <1>0, <1>1, Known DEF Knows, Shape, Staged, Found, Same
<1>5. Erases => Gone' /\ Live(c)'
  <2>1. Erases => ~users[req[r].who].deleted /\ Gone
    BY <1>0, Known DEF Knows, Live, IInv
  <2>2. Erases => Gone'
    BY Zenon, <1>0, <2>1 DEF Gone, Deleted, Holds, HoldsSignIn
  <2> QED BY Zenon, <1>0, <1>1, <2>1, <2>2 DEF Live, Same
<1>6. Administers => (\E p \in People : Usable(p))' /\ Spared(c)'
  BY <1>1, <1>3, Known DEF Knows, Spared
<1> QED BY Zenon, <1>0, <1>1, <1>3, <1>4, <1>5, <1>6, Writes

LEMMA EraseKeeps ==
  ASSUME IInv, NEW r \in Requests, erase(r)
  PROVE  IInv'
<1>0. /\ req[r].at = "eraseProfile" /\ Waits(r) /\ req[r].who \in People /\ req \in [Requests -> Req] /\ users[req[r].who] # None
      /\ profiles' = profiles \ {req[r].who} /\ UNCHANGED <<users, signIns, ledger, approvals, usage>>
  BY Known DEF erase, Waits, Knows, Shape, Found, Asked
<1>a. PICK at \in {"eraseAudit", "eraseOthers"} : Go(r, at)
  BY DEF erase
<1>b. at \in Stages
  BY DEF Stages
<1>1. PICK c \in Req : req' = [req EXCEPT ![r] = c] /\ c.at = at /\ Same(c, req[r])
  BY <1>0, <1>a, <1>b, GoMoves
<1>2. profiles' \subseteq {p \in People : users[p] # None}
  BY <1>0 DEF IInv, Tables, TypeOK
<1>3. Tables' /\ Kept /\ \A p \in People : Usable(p)' = Usable(p)
  BY Zenon, <1>0, <1>2, ProfilesWritten
<1>4. Staged(c) /\ Found(c)'
  BY Zenon, <1>0, <1>1, Known DEF Knows, Shape, Staged, Found, Same
<1>5. Erases => Gone' /\ Live(c)'
  <2>1. Erases => ~users[req[r].who].deleted /\ Gone
    BY <1>0, Known DEF Knows, Live, IInv
  <2>2. Erases => Gone'
    BY Zenon, <1>0, <2>1 DEF Gone, Deleted, Holds, HoldsSignIn
  <2> QED BY Zenon, <1>0, <1>1, <2>1, <2>2 DEF Live, Same
<1>6. Administers => (\E p \in People : Usable(p))' /\ Spared(c)'
  BY <1>1, <1>3, Known DEF Knows, Spared
<1> QED BY Zenon, <1>0, <1>1, <1>3, <1>4, <1>5, <1>6, Writes

LEMMA EraseActivityKeeps ==
  ASSUME IInv, NEW r \in Requests, eraseActivity(r)
  PROVE  IInv'
<1>0. /\ req[r].at = "redact" /\ Waits(r) /\ req[r].who \in People /\ req \in [Requests -> Req] /\ users[req[r].who] # None
      /\ signIns' = {IF s.who = req[r].who THEN [s EXCEPT !.activity = FALSE] ELSE s : s \in signIns}
      /\ UNCHANGED <<users, profiles, ledger, approvals, usage>>
  BY Known DEF eraseActivity, Waits, Knows, Shape, Found, Asked
<1>1. PICK c \in Req : req' = [req EXCEPT ![r] = c] /\ c.at = "tombstone" /\ Same(c, req[r])
  BY <1>0, GoMoves DEF eraseActivity, Stages
<1>2. profiles' \subseteq {p \in People : users[p] # None}
  BY <1>0 DEF IInv, Tables, TypeOK
<1>3. Tables' /\ Kept /\ \A p \in People : Usable(p)' = Usable(p)
  BY Zenon, <1>0, <1>2, ProfilesWritten
<1>4. Staged(c) /\ Found(c)'
  BY Zenon, <1>0, <1>1, Known DEF Knows, Shape, Staged, Found, Same
<1>5. Erases => Gone' /\ Live(c)'
  <2> SUFFICES ASSUME Erases PROVE Gone' /\ Live(c)'
    OBVIOUS
  <2>1. Live(req[r]) /\ Gone
    BY Zenon, Known DEF Knows, IInv
  <2>2. ASSUME NEW t \in signIns'
        PROVE  t \in SignInRows /\ (t.who = req[r].who => ~t.activity) /\ (t.who # req[r].who => t \in signIns)
    <3>1. PICK s \in signIns : t = IF s.who = req[r].who THEN [s EXCEPT !.activity = FALSE] ELSE s
      BY Zenon, <1>0, <2>2
    <3>2. s \in SignInRows
      BY <2>1 DEF Gone
    <3> QED BY Zenon, <3>1, <3>2 DEF SignInRows
  <2>3. \A p \in People : ~HoldsSignIn(p, {FALSE}) => ~HoldsSignIn(p, {FALSE})'
    BY Zenon, <2>2 DEF HoldsSignIn
  <2>4. ~HoldsSignIn(c.who, {FALSE})'
    BY Zenon, <1>1, <2>2 DEF HoldsSignIn, Same
  <2>5. signIns' \subseteq SignInRows
    BY Zenon, <2>2
  <2>6. Gone'
    BY <1>0, <2>1, <2>3, <2>5 DEF Gone, Deleted, Holds
  <2> QED BY Zenon, <1>0, <1>1, <2>1, <2>4, <2>6 DEF Live, Same, HoldsSignIn
<1>6. Administers => (\E p \in People : Usable(p))' /\ Spared(c)'
  BY <1>1, <1>3, Known DEF Knows, Spared
<1> QED BY Zenon, <1>0, <1>1, <1>3, <1>4, <1>5, <1>6, Writes

LEMMA EraseAndTombstoneKeeps ==
  ASSUME IInv, NEW r \in Requests, eraseAndTombstone(r)
  PROVE  IInv'
<1> DEFINE p == req[r].who
<1>0. /\ req[r].at = "tombstone" /\ Waits(r) /\ p \in People /\ req \in [Requests -> Req]
      /\ users[p] # None /\ users[p] \in Row /\ req[r].op \in {"delete", "webhook"} /\ req[r].op \in usage.ops
      /\ UNCHANGED <<profiles, signIns, ledger, approvals, usage>>
  BY Known, RowFacts DEF eraseAndTombstone, Waits, Knows, Shape, Staged, Found, Asked
<1>1. PICK u : u = [users[p] EXCEPT !.deleted = TRUE, !.email = tombstoneEmail(p)]
  BY Zenon
<1>2. u \in Row /\ u.email = tombstoneEmail(p) /\ u.deleted
  BY Zenon, <1>0, <1>1 DEF Row
<1>3. users \in [People -> Row \cup {None}] /\ approvals \in [Proposals -> Approval \cup {None}]
  BY DEF IInv, Tables, TypeOK
<1>4. users' = [users EXCEPT ![p] = u]
  BY Zenon, <1>0, <1>1, <1>3 DEF eraseAndTombstone
<1>5. \A q \in People \ {p} : users[q] # None => users[q].email # u.email
  <2>1. \A q \in People \ {p} : tombstoneEmail(q) # tombstoneEmail(p)
    BY DEF tombstoneEmail
  <2>2. tombstoneEmail(p) \notin Emails
    BY <1>0, AccountsAssumption
  <2> QED BY <1>2, <2>1, <2>2 DEF IInv, Tables
<1>6. Tables' /\ Kept /\ users'[p] = u /\ \A q \in People \ {p} : users'[q] = users[q]
  BY Zenon, <1>0, <1>2, <1>3, <1>4, <1>5, RowWritten
<1>7. PICK c \in Req : req' = [req EXCEPT ![r] = c] /\ c.at = "deleteAudit" /\ Same(c, req[r])
  BY <1>0, GoMoves DEF eraseAndTombstone, Stages
<1>8. c.who = p /\ u # None
  BY Zenon, <1>2, <1>7, RowFacts DEF Same
<1>9. Staged(c) /\ Found(c)'
  BY <1>0, <1>6, <1>7, <1>8, Known DEF Knows, Shape, Staged, Found, Same
<1>10. Erases => Gone' /\ Live(c)'
  <2>1. Erases => p \notin profiles /\ ~HoldsSignIn(p, {FALSE}) /\ Gone
    BY Zenon, <1>0, Known DEF Knows, Live, IInv
  <2>2. Erases => Gone'
    BY Zenon, <1>0, <1>2, <1>6, <2>1 DEF Gone, Deleted, Holds, HoldsSignIn
  <2> QED BY Zenon, <1>7, <2>2 DEF Live
<1>11. ~Administers
  BY <1>0 DEF Administers, Asks
<1> QED BY Zenon, <1>0, <1>6, <1>7, <1>9, <1>10, <1>11, Writes

LEMMA RecordAuthenticationEventKeeps ==
  ASSUME IInv, NEW r \in Requests, recordAuthenticationEvent(r)
  PROVE  IInv'
<1>0. /\ req[r].at = "signIn" /\ Waits(r) /\ req \in [Requests -> Req] /\ req[r].op = "webhook" /\ "webhook" \in usage.ops
      /\ UNCHANGED <<users, profiles, ledger, approvals, usage>>
  BY Zenon, Known DEF recordAuthenticationEvent, Waits, Knows, Shape, Staged, Asked
<1>1. PICK c \in Req : req' = [req EXCEPT ![r] = c] /\ c.at = "mark" /\ Same(c, req[r])
  BY <1>0, GoMoves DEF recordAuthenticationEvent, Stages
<1>2. profiles' \subseteq {p \in People : users[p] # None}
  BY Zenon, <1>0 DEF IInv, Tables, TypeOK
<1>3. Tables' /\ Kept
  BY <1>0, <1>2, ProfilesWritten
<1>4. Staged(c) /\ Found(c)'
  BY Zenon, <1>0, <1>1, Known DEF Knows, Shape, Staged, Found, Same
<1>5. ~Administers
  BY Zenon, <1>0 DEF Administers, Asks
<1>6. Erases => Gone' /\ Live(c)'
  <2> SUFFICES ASSUME Erases PROVE Gone' /\ Live(c)'
    OBVIOUS
  <2>1. Gone /\ req[r].who \in People /\ req[r].arg \in Deliveries /\ users[req[r].who] # None
    BY Zenon, <1>0, Known DEF Knows, IInv, Live, Asked
  <2>2. users[req[r].who] \in Row
    BY Zenon, <2>1, RowFacts
  <2>3. PICK late \in BOOLEAN : late = users[req[r].who].deleted
    BY <2>2 DEF Row
  <2> DEFINE new == [who |-> req[r].who, session |-> Events[req[r].arg].session, activity |-> TRUE, late |-> late]
  <2>4. new \in SignInRows /\ new.who = req[r].who /\ new.late = late
    BY <2>1 DEF SignInRows
  <2>5. signIns' \in {signIns, signIns \cup {new}}
    BY Zenon, <2>3 DEF recordAuthenticationEvent
  <2> HIDE DEF new
  <2>6. signIns' \subseteq SignInRows /\ \A s \in signIns' : s \in signIns \/ s = new
    BY Zenon, <2>1, <2>4, <2>5 DEF Gone
  <2>7. ASSUME NEW p \in Deleted PROVE ~HoldsSignIn(p, {FALSE})'
    <3>1. p \in People /\ users[p].deleted /\ ~HoldsSignIn(p, {FALSE})
      BY <2>1 DEF Deleted, Gone, Holds
    <3>2. p = req[r].who => late = TRUE
      BY <2>3, <3>1
    <3> QED BY Zenon, <2>4, <2>6, <3>1, <3>2 DEF HoldsSignIn
  <2>8. Gone'
    BY <1>0, <2>1, <2>6, <2>7 DEF Gone, Deleted, Holds
  <2> QED BY Zenon, <1>1, <2>8 DEF Live
<1> QED BY Zenon, <1>0, <1>1, <1>3, <1>4, <1>5, <1>6, Writes

\* The ledger changes in nothing else.
LEMMA LedgerWritten ==
  ASSUME IInv, ledger' \in [Deliveries -> {"unseen", "claimed", "processed"}], UNCHANGED <<mirror, approvals>>
  PROVE  /\ Tables' /\ Kept
         /\ Erases => Gone'
         /\ Administers => (\E p \in People : Usable(p))'
<1>1. users' = users /\ profiles' = profiles /\ signIns' = signIns /\ approvals' = approvals
  BY DEF mirror
<1> QED BY Zenon, <1>1 DEF IInv, Tables, TypeOK, Kept, Gone, Deleted, Holds, HoldsSignIn, Usable

\* A delivery nobody has claimed is claimed; any other is a duplicate.
LEMMA ClaimKeeps ==
  ASSUME IInv, NEW r \in Requests, claim(r)
  PROVE  IInv'
<1> DEFINE d == req[r].arg
<1>0. /\ req[r].at = "claim" /\ Waits(r) /\ req \in [Requests -> Req] /\ req[r].op = "webhook" /\ "webhook" \in usage.ops
      /\ d \in Deliveries /\ UNCHANGED <<mirror, approvals, usage>>
      /\ ledger \in [Deliveries -> {"unseen", "claimed", "processed"}]
  BY Zenon, Known DEF claim, Waits, Knows, Shape, Staged, Asked, IInv, Tables, TypeOK
<1>1. CASE Answer(r, "duplicate") /\ UNCHANGED ledger
  BY Zenon, <1>0, <1>1, Answered DEF Outcomes, Reads
<1>2. CASE ledger[d] = "unseen" /\ ledger' = [ledger EXCEPT ![d] = "claimed"] /\ Go(r, Events[d].type)
  <2>1. Events[d].type \in {"user.upserted", "user.deleted", "session.recorded"}
    BY Zenon, <1>0, ProviderAssumption
  <2>2. Events[d].type \in Stages
    BY <2>1 DEF Stages
  <2>3. PICK c \in Req : req' = [req EXCEPT ![r] = c] /\ c.at = Events[d].type /\ c.user = req[r].user /\ Same(c, req[r])
    BY Zenon, <1>0, <1>2, <2>2, GoMoves
  <2>4. c.op = "webhook" /\ c.arg = d /\ c.out = "none"
    BY <1>0, <2>3, Known DEF Same, Knows, Shape, Staged
  <2>5. Shape(c)'
    <3>1. Asked(c)'
      BY Zenon, <1>0, <2>3, Known DEF Asked, Same
    <3>2. Staged(c)'
      BY Zenon, <2>1, <2>3, <2>4 DEF Staged
    <3>3. Found(c)'
      BY <2>1, <2>3 DEF Found
    <3> QED BY Zenon, <3>1, <3>2, <3>3 DEF Shape
  <2>6. ledger' \in [Deliveries -> {"unseen", "claimed", "processed"}] /\ ledger'[d] = "claimed"
        /\ \A e \in Deliveries \ {d} : ledger'[e] = ledger[e]
    BY Zenon, <1>0, <1>2
  <2>7. Claims'
    <3>1. req'[r] = c /\ \A q \in Requests \ {r} : req'[q] = req[q]
      BY <1>0, <2>3
    <3>2. \A q \in Requests, e \in Deliveries : q # r => (Applying(q, e)' <=> Applying(q, e))
      BY <3>1 DEF Applying
    <3>3. \A e \in Deliveries : Applying(r, e)' <=> e = d
      BY <2>1, <2>3, <2>4, <3>1 DEF Applying
    <3>4. \A q \in Requests : ~Applying(q, d)
      BY <1>0, <1>2 DEF IInv, Claims
    <3>5. AppliedOnce'
      BY <3>2, <3>3, <3>4 DEF IInv, Claims, AppliedOnce
    <3>7. \A e \in Deliveries : ledger'[e] = "claimed" =>
            \E q \in Requests : /\ req'[q].op = "webhook" /\ req'[q].arg = e
                                /\ Applying(q, e)' \/ req'[q].out \in {"failed", "conflict"}
      <4> TAKE e \in Deliveries
      <4>1. CASE e = d
        BY Zenon, <2>4, <3>1, <3>3, <4>1
      <4>2. CASE e # d
        <5>1. req[r].arg # e
          BY Zenon, <4>2
        <5> QED BY <2>6, <3>1, <3>2, <4>2, <5>1 DEF IInv, Claims, LedgerIsTruthful
      <4> QED BY <4>1, <4>2
    <3>8. \A e \in Deliveries : ledger'[e] = "processed" =>
            \E q \in Requests : req'[q].op = "webhook" /\ req'[q].arg = e /\ req'[q].out = "applied"
      <4> TAKE e \in Deliveries
      <4>1. req[r].out # "applied"
        BY <1>0, Known DEF Knows, Shape, Staged
      <4> QED BY <2>6, <3>1, <4>1 DEF IInv, Claims, LedgerIsTruthful
    <3>9. \A q \in Requests, e \in Deliveries : Applying(q, e)' => ledger'[e] # "unseen"
      BY <2>6, <3>2, <3>3 DEF IInv, Claims
    <3> QED BY <3>5, <3>7, <3>8, <3>9 DEF Claims, LedgerIsTruthful
  <2>8. ~Administers
    BY <1>0 DEF Administers, Asks
  <2>9. Live(c)'
    BY Zenon, <2>1, <2>3 DEF Live
  <2> QED BY Zenon, <1>0, <2>3, <2>5, <2>6, <2>7, <2>8, <2>9, LedgerWritten, Served
<1> QED BY Zenon, <1>1, <1>2 DEF claim

LEMMA MarkProcessedKeeps ==
  ASSUME IInv, NEW r \in Requests, markProcessed(r)
  PROVE  IInv'
<1> DEFINE d == req[r].arg
<1>0. /\ req[r].at = "mark" /\ Waits(r) /\ req \in [Requests -> Req] /\ req[r].op = "webhook" /\ "webhook" \in usage.ops
      /\ d \in Deliveries /\ UNCHANGED <<mirror, approvals, usage>> /\ req[r].out = "none"
      /\ ledger \in [Deliveries -> {"unseen", "claimed", "processed"}]
      /\ ledger' = [ledger EXCEPT ![d] = "processed"]
  BY Zenon, Known DEF markProcessed, Waits, Knows, Shape, Staged, Asked, IInv, Tables, TypeOK
<1>1. PICK c \in Req : /\ req' = [req EXCEPT ![r] = c]
                       /\ c.at = "done" /\ c.op = req[r].op /\ c.arg = req[r].arg /\ c.out = "applied"
  BY Zenon, <1>0, AnswerMoves DEF markProcessed, Outcomes
<1>2. ledger' \in [Deliveries -> {"unseen", "claimed", "processed"}] /\ ledger'[d] = "processed"
      /\ \A e \in Deliveries \ {d} : ledger'[e] = ledger[e]
  BY <1>0
<1>3. Shape(c)' /\ Live(c)' /\ Spared(c)'
  BY <1>1 DEF Shape, Staged, Found, Live, Spared
<1>4. Claims'
  <2>1. req'[r] = c /\ \A q \in Requests \ {r} : req'[q] = req[q]
    BY <1>0, <1>1
  <2>2. \A q \in Requests, e \in Deliveries : Applying(q, e)' <=> Applying(q, e)
    BY <1>0, <1>1, <2>1 DEF Applying
  <2>3. AppliedOnce'
    BY <2>2 DEF IInv, Claims, AppliedOnce
  <2>4. \A e \in Deliveries : ledger'[e] = "claimed" =>
          \E q \in Requests : /\ req'[q].op = "webhook" /\ req'[q].arg = e
                              /\ Applying(q, e)' \/ req'[q].out \in {"failed", "conflict"}
    <3> TAKE e \in Deliveries
    <3>1. CASE e = d
      BY Zenon, <1>2, <3>1
    <3>2. CASE e # d
      <4>1. req[r].arg # e
        BY <3>2
      <4> QED BY <1>2, <2>1, <2>2, <3>2, <4>1 DEF IInv, Claims, LedgerIsTruthful
    <3> QED BY <3>1, <3>2
  <2>5. \A e \in Deliveries : ledger'[e] = "processed" =>
          \E q \in Requests : req'[q].op = "webhook" /\ req'[q].arg = e /\ req'[q].out = "applied"
    <3> TAKE e \in Deliveries
    <3>1. CASE e = d
      BY Zenon, <1>0, <1>1, <2>1, <3>1
    <3>2. CASE e # d
      BY <1>0, <1>2, <2>1, <3>2 DEF IInv, Claims, LedgerIsTruthful
    <3> QED BY <3>1, <3>2
  <2>6. \A q \in Requests, e \in Deliveries : Applying(q, e)' => ledger'[e] # "unseen"
    BY <1>2, <2>2 DEF IInv, Claims
  <2> QED BY <2>3, <2>4, <2>5, <2>6 DEF Claims, LedgerIsTruthful
<1> QED BY Zenon, <1>0, <1>1, <1>2, <1>3, <1>4, LedgerWritten, Served

LEMMA SetSuspensionKeeps ==
  ASSUME IInv, NEW r \in Requests, setSuspension(r)
  PROVE  IInv'
<1> DEFINE t == req[r].arg
           by == IF req[r].op = "suspend" THEN req[r].who ELSE None
<1>0. /\ req[r].at \in {"suspendWrite", "reinstateWrite"} /\ Waits(r) /\ req \in [Requests -> Req]
      /\ req[r].op = (IF req[r].at = "suspendWrite" THEN "suspend" ELSE "reinstate")
      /\ t \in People /\ users[t] # None /\ users[t] \in Row /\ req[r].who \in People
      /\ UNCHANGED <<profiles, signIns, ledger, approvals, usage>>
  BY Known, RowFacts DEF setSuspension, Waits, Knows, Shape, Staged, Found, Asked
<1>1. PICK u : u = [users[t] EXCEPT !.suspended = by]
  BY Zenon
<1>2. u \in Row /\ u.email = users[t].email /\ u.deleted = users[t].deleted /\ u.role = users[t].role /\ u.suspended = by
  BY <1>0, <1>1 DEF Row
<1>3. users \in [People -> Row \cup {None}] /\ approvals \in [Proposals -> Approval \cup {None}]
  BY DEF IInv, Tables, TypeOK
<1>4. users' = [users EXCEPT ![t] = u]
  BY <1>0, <1>1, <1>3 DEF setSuspension
<1>5. u.email \in Emails \cup {tombstoneEmail(t)} /\ \A q \in People \ {t} : users[q] # None => users[q].email # u.email
  BY <1>0, <1>2 DEF IInv, Tables, TypeOK
<1>6. Tables' /\ Kept /\ users'[t] = u /\ \A q \in People \ {t} : users'[q] = users[q]
  BY Zenon, <1>0, <1>2, <1>3, <1>4, <1>5, RowWritten
<1>7. PICK c \in Req : req' = [req EXCEPT ![r] = c] /\ c.at = "suspensionAudit" /\ Same(c, req[r])
  BY <1>0, GoMoves DEF setSuspension, Stages
<1>8. u # None
  BY <1>2, RowFacts
<1>9. Staged(c) /\ Found(c)'
  BY Zenon, <1>0, <1>7, Known DEF Knows, Shape, Staged, Found, Same
<1>10. Erases => Gone' /\ Live(c)'
  <2>1. Erases => Live(req[r]) /\ Gone
    BY Zenon, <1>0, Known DEF Knows, IInv
  <2>2. \A q \in People : /\ users'[q] # None <=> users[q] # None
                          /\ users[q] # None => users'[q].deleted = users[q].deleted /\ users'[q].email = users[q].email
    BY <1>0, <1>2, <1>6, <1>8
  <2>3. Erases => Gone'
    BY Zenon, <1>0, <2>1, <2>2 DEF Gone, Deleted, Holds, HoldsSignIn
  <2>4. c.who = req[r].who
    BY Zenon, <1>7 DEF Same
  <2>5. Erases => users[req[r].who] # None /\ ~users[req[r].who].deleted
    BY <1>0, <2>1 DEF Live
  <2> QED BY Zenon, <1>0, <1>7, <2>2, <2>3, <2>4, <2>5 DEF Live
<1>11. Administers => (\E p \in People : Usable(p))' /\ Spared(c)'
  <2>1. \A p \in People \ {t} : Usable(p) => Usable(p)'
    BY Zenon, <1>6 DEF Usable
  <2>2. \A p \in People : p = t /\ req[r].at = "reinstateWrite" /\ Usable(p) => Usable(p)'
    BY Zenon, <1>0, <1>2, <1>6, <1>8 DEF Usable
  <2>3. Administers /\ req[r].at = "suspendWrite" => \E p \in People \ {t} : Usable(p)
    BY Known DEF Knows, Spared
  <2>4. Administers => \E p \in People : Usable(p)
    BY Known DEF Knows
  <2>5. Administers => \E p \in People : Usable(p)'
    BY Zenon, <1>0, <2>1, <2>2, <2>3, <2>4
  <2> QED BY <1>7, <2>5 DEF Spared
<1> QED BY Zenon, <1>0, <1>6, <1>7, <1>9, <1>10, <1>11, Writes

\* Proposals are made, and decided, in nothing but their own columns.
LEMMA ApprovalWritten ==
  ASSUME IInv, NEW a \in Proposals, NEW x \in Approval, approvals' = [approvals EXCEPT ![a] = x],
         approvals[a] # None => x.who = approvals[a].who, UNCHANGED <<mirror, ledger>>
  PROVE  /\ Tables' /\ Kept /\ approvals'[a] = x /\ \A b \in Proposals \ {a} : approvals'[b] = approvals[b]
         /\ Erases => Gone'
         /\ Administers => (\E p \in People : Usable(p))'
<1>1. users' = users /\ profiles' = profiles /\ signIns' = signIns /\ ledger' = ledger
  BY DEF mirror
<1>2. approvals \in [Proposals -> Approval \cup {None}]
  BY DEF IInv, Tables, TypeOK
<1>3. /\ approvals' \in [Proposals -> Approval \cup {None}]
      /\ approvals'[a] = x /\ \A b \in Proposals \ {a} : approvals'[b] = approvals[b]
  BY <1>2
<1>4. x # None
  BY AdministrationAssumption
<1>5. Kept
  BY <1>1, <1>3, <1>4 DEF Kept
<1>6. Tables'
  BY <1>1, <1>3 DEF IInv, Tables, TypeOK
<1> QED BY Zenon, <1>1, <1>3, <1>5, <1>6 DEF IInv, Gone, Deleted, Holds, HoldsSignIn, Usable

LEMMA ProposeKeeps ==
  ASSUME IInv, NEW r \in Requests, NEW a \in Proposals, propose(r, a)
  PROVE  IInv'
<1> DEFINE x == [who |-> req[r].arg, role |-> req[r].role, by |-> req[r].who,
                 approvedBy |-> None, cancelledBy |-> None, expired |-> FALSE]
<1>0. /\ req[r].at = "proposeWrite" /\ Waits(r) /\ req \in [Requests -> Req] /\ approvals[a] = None
      /\ req[r].arg \in People /\ req[r].role \in Roles /\ req[r].who \in People
      /\ approvals' = [approvals EXCEPT ![a] = x] /\ UNCHANGED <<mirror, ledger, usage>>
  BY Zenon, Known DEF propose, Waits, Knows, Shape, Staged, Asked
<1>1. x \in Approval
  BY Zenon, <1>0 DEF Approval
<1> HIDE DEF x
<1>2. /\ Tables' /\ Kept /\ (Erases => Gone') /\ (Administers => (\E p \in People : Usable(p))')
  BY Zenon, <1>0, <1>1, ApprovalWritten
<1>3. PICK c \in Req : req' = [req EXCEPT ![r] = c] /\ c.at = "proposeAudit" /\ Same(c, req[r])
  BY <1>0, GoMoves DEF propose, Stages
<1>4. Staged(c) /\ Found(c)' /\ Spared(c)'
  BY Zenon, <1>0, <1>3, Known DEF Knows, Shape, Staged, Found, Spared, Same
<1>5. Erases => Live(c)'
  BY Zenon, <1>0, <1>3, Known DEF Knows, Live, Same, mirror
<1> QED BY Zenon, <1>0, <1>2, <1>3, <1>4, <1>5, Writes

LEMMA CancelKeeps ==
  ASSUME IInv, NEW r \in Requests, cancel(r)
  PROVE  IInv'
<1> DEFINE a == req[r].arg
<1>0. /\ req[r].at = "cancelWrite" /\ Waits(r) /\ req \in [Requests -> Req] /\ req[r].op = "cancel"
      /\ a \in Proposals /\ approvals[a] # None /\ approvals[a] \in Approval /\ req[r].who \in People
      /\ UNCHANGED <<mirror, ledger, usage>>
  BY Known, RowFacts DEF cancel, Waits, Knows, Shape, Staged, Found, Asked
<1>1. CASE Answer(r, "conflict") /\ UNCHANGED approvals
  BY Zenon, <1>0, <1>1, Answered DEF Outcomes, Reads
<1>2. CASE approvals' = [approvals EXCEPT ![a].cancelledBy = req[r].who] /\ Go(r, "cancelAudit")
  <2>1. PICK x : x = [approvals[a] EXCEPT !.cancelledBy = req[r].who]
    BY Zenon
  <2>2. x \in Approval /\ x.who = approvals[a].who
    BY <1>0, <2>1 DEF Approval
  <2>3. approvals \in [Proposals -> Approval \cup {None}]
    BY DEF IInv, Tables, TypeOK
  <2>4. approvals' = [approvals EXCEPT ![a] = x]
    BY <1>0, <1>2, <2>1, <2>3
  <2>5. /\ Tables' /\ Kept /\ approvals'[a] = x /\ (Erases => Gone') /\ (Administers => (\E p \in People : Usable(p))')
    BY Zenon, <1>0, <2>2, <2>4, ApprovalWritten
  <2>6. PICK c \in Req : req' = [req EXCEPT ![r] = c] /\ c.at = "cancelAudit" /\ Same(c, req[r])
    BY <1>0, <1>2, GoMoves DEF Stages
  <2>7. x # None /\ c.arg = a
    BY <2>2, <2>6, AdministrationAssumption DEF Same
  <2>8. Staged(c) /\ Found(c)' /\ Spared(c)'
    BY Zenon, <1>0, <2>5, <2>6, <2>7, Known DEF Knows, Shape, Staged, Found, Spared, Same
  <2>9. Erases => Live(c)'
    BY Zenon, <1>0, <2>6, Known DEF Knows, Live, Same, mirror
  <2> QED BY Zenon, <1>0, <2>5, <2>6, <2>8, <2>9, Writes
<1> QED BY Zenon, <1>1, <1>2 DEF cancel

LEMMA ApproveAndApplyKeeps ==
  ASSUME IInv, NEW r \in Requests, approveAndApply(r)
  PROVE  IInv'
<1> DEFINE a == req[r].arg
           p == approvals[a].who
<1>0. /\ req[r].at = "approveWrite" /\ Waits(r) /\ req \in [Requests -> Req] /\ req[r].op = "approve"
      /\ a \in Proposals /\ approvals[a] # None /\ approvals[a] \in Approval /\ req[r].who \in People
      /\ p \in People /\ users[p] # None /\ users[p] \in Row /\ approvals[a].role \in Roles
      /\ UNCHANGED <<profiles, signIns, ledger, usage>>
  BY Zenon, Known, RowFacts DEF approveAndApply, Waits, Knows, Shape, Staged, Found, Asked
<1>1. CASE Answer(r, "conflict") /\ UNCHANGED <<approvals, users>>
  BY Zenon, <1>0, <1>1, Answered DEF Outcomes, Reads, mirror
<1>2. CASE /\ approvals' = [approvals EXCEPT ![a].approvedBy = req[r].who]
           /\ users' = [users EXCEPT ![p].role = approvals[a].role] /\ Go(r, "approveAudit")
  <2>1. PICK x, u : x = [approvals[a] EXCEPT !.approvedBy = req[r].who] /\ u = [users[p] EXCEPT !.role = approvals[a].role]
    BY Zenon
  <2>2. x \in Approval /\ x.who = p
    BY Zenon, <1>0, <2>1 DEF Approval
  <2>3. /\ u \in Row /\ u.email = users[p].email /\ u.deleted = users[p].deleted /\ u.suspended = users[p].suspended
        /\ u.role = approvals[a].role
    BY Zenon, <1>0, <2>1 DEF Row
  <2>4. users \in [People -> Row \cup {None}] /\ approvals \in [Proposals -> Approval \cup {None}]
    BY DEF IInv, Tables, TypeOK
  <2>5. approvals' = [approvals EXCEPT ![a] = x] /\ users' = [users EXCEPT ![p] = u]
    BY <1>0, <1>2, <2>1, <2>4
  <2>6. x # None /\ u # None
    BY Zenon, <2>2, <2>3, AdministrationAssumption, RowFacts
  <2>7. /\ approvals' \in [Proposals -> Approval \cup {None}] /\ approvals'[a] = x
        /\ \A b \in Proposals : approvals[b] # None => approvals'[b] # None /\ approvals'[b].who = approvals[b].who
    BY <1>0, <2>2, <2>4, <2>5, <2>6
  <2>8. u.email \in Emails \cup {tombstoneEmail(p)} /\ \A q \in People \ {p} : users[q] # None => users[q].email # u.email
    BY Zenon, <1>0, <2>3 DEF IInv, Tables, TypeOK
  <2>9. Tables' /\ Kept /\ users'[p] = u /\ \A q \in People \ {p} : users'[q] = users[q]
    BY Zenon, <1>0, <2>3, <2>5, <2>7, <2>8, RowWritten
  <2>10. PICK c \in Req : req' = [req EXCEPT ![r] = c] /\ c.at = "approveAudit" /\ Same(c, req[r])
    BY <1>0, <1>2, GoMoves DEF Stages
  <2>11. c.arg = a /\ c.who = req[r].who
    BY <2>10 DEF Same
  <2>12. Staged(c) /\ Found(c)'
    BY Zenon, <1>0, <2>6, <2>7, <2>10, <2>11, Known DEF Knows, Shape, Staged, Found, Same
  <2>13. Erases => Gone' /\ Live(c)'
    <3>1. Erases => Live(req[r]) /\ Gone
      BY Zenon, <1>0, Known DEF Knows, IInv
    <3>2. \A q \in People : /\ users'[q] # None <=> users[q] # None
                            /\ users[q] # None => users'[q].deleted = users[q].deleted /\ users'[q].email = users[q].email
      BY Zenon, <1>0, <2>3, <2>6, <2>9
    <3>3. Erases => Gone'
      BY Zenon, <1>0, <3>1, <3>2 DEF Gone, Deleted, Holds, HoldsSignIn
    <3>4. Erases => users[req[r].who] # None /\ ~users[req[r].who].deleted
      BY <1>0, <3>1 DEF Live
    <3> QED BY <1>0, <2>10, <2>11, <3>2, <3>3, <3>4 DEF Live
  <2>14. Administers => (\E q \in People : Usable(q))' /\ Spared(c)'
    <3>1. \A q \in People \ {p} : Usable(q) => Usable(q)'
      BY <2>9 DEF Usable
    <3>2. \A q \in People : q = p /\ approvals[a].role = "ADMIN" /\ Usable(q) => Usable(q)'
      BY Zenon, <2>3, <2>6, <2>9 DEF Usable
    <3>3. Administers => approvals[a].role = "ADMIN" \/ \E q \in People \ {p} : Usable(q)
      BY Zenon, <1>0, Known DEF Knows, Spared
    <3>4. Administers => \E q \in People : Usable(q)
      BY Known DEF Knows
    <3>5. Administers => \E q \in People : Usable(q)'
      BY Zenon, <1>0, <3>1, <3>2, <3>3, <3>4
    <3> QED BY <2>10, <3>5 DEF Spared
  <2> QED BY Zenon, <1>0, <2>9, <2>10, <2>12, <2>13, <2>14, Writes
<1> QED BY <1>1, <1>2 DEF approveAndApply

\* What a request's record satisfies after a step is what the record it then holds satisfies.
LEMMA ShapeAt ==
  ASSUME NEW r \in Requests, NEW d, d = req'[r], Shape(d)'
  PROVE  Shape(req[r])'
<1>1. Staged(req[r])' /\ Found(req[r])'
  BY Zenon DEF Shape, Staged, Found
<1>2. (req[r].at \notin {"idle", "done"} => Asked(req[r]))'
  BY Zenon DEF Shape, Asked
<1> QED BY Zenon, <1>1, <1>2 DEF Shape

\* Time passes for a proposal, and for nobody's request.
LEMMA ExpireKeeps ==
  ASSUME IInv, NEW a \in Proposals, expire(a)
  PROVE  IInv'
<1>0. approvals[a] # None /\ approvals[a] \in Approval /\ UNCHANGED <<mirror, ledger, usage, req>>
  BY RowFacts DEF expire
<1>1. PICK x : x = [approvals[a] EXCEPT !.expired = TRUE]
  BY Zenon
<1>2. x \in Approval /\ x.who = approvals[a].who /\ x.role = approvals[a].role
  BY Zenon, <1>0, <1>1 DEF Approval
<1>3. approvals \in [Proposals -> Approval \cup {None}]
  BY DEF IInv, Tables, TypeOK
<1>4. approvals' = [approvals EXCEPT ![a] = x]
  BY <1>0, <1>1, <1>3 DEF expire
<1>5. /\ Tables' /\ Kept /\ approvals'[a] = x /\ (\A b \in Proposals \ {a} : approvals'[b] = approvals[b])
      /\ (Erases => Gone') /\ (Administers => (\E p \in People : Usable(p))')
  BY Zenon, <1>0, <1>2, <1>4, ApprovalWritten
<1>6. \A b \in Proposals : approvals[b] # None => approvals'[b].role = approvals[b].role /\ approvals'[b].who = approvals[b].who
  BY <1>2, <1>5
<1>7. \A r \in Requests : Shape(req[r])'
  <2> TAKE r \in Requests
  <2>1. PICK d \in Req : d = req[r]
    BY DEF IInv
  <2>2. Shape(d)
    BY <2>1 DEF IInv
  <2>3. Shape(d)'
    BY <1>0, <1>5, <2>2, ShapeKept DEF IInv
  <2>4. d = req'[r]
    BY <1>0, <2>1
  <2> QED BY Zenon, <2>3, <2>4, ShapeAt
<1>8. Claims' /\ Alone'
  <2>1. \A r \in Requests, d \in Deliveries : Applying(r, d)' = Applying(r, d)
    BY <1>0 DEF Applying
  <2>2. AppliedOnce'
    BY Zenon, <2>1 DEF IInv, Claims, AppliedOnce
  <2>3. LedgerIsTruthful'
    BY <1>0, <2>1 DEF IInv, Claims, LedgerIsTruthful
  <2>4. Alone'
    BY <1>0 DEF IInv, Alone, Waits
  <2> QED BY <1>0, <2>1, <2>2, <2>3, <2>4 DEF IInv, Claims
<1>9. \A r \in Requests : Live(req[r]) => Live(req[r])'
  BY Zenon, <1>0 DEF Live, HoldsSignIn, mirror
<1>10. \A r \in Requests : Spared(req[r]) => Spared(req[r])'
  <2> SUFFICES ASSUME NEW r \in Requests, Spared(req[r]) PROVE Spared(req[r])'
    OBVIOUS
  <2>1. \A p \in People : Usable(p)' = Usable(p)
    BY <1>0 DEF Usable, mirror
  <2>2. req[r].at = "approveWrite" => req[r].arg \in Proposals /\ approvals[req[r].arg] # None
    BY Zenon, Known DEF Knows, Shape, Staged, Asked, Found
  <2> QED BY <1>0, <1>6, <2>1, <2>2 DEF Spared
<1>11. Erases' = Erases /\ Administers' = Administers
  BY <1>0 DEF Erases, Administers, Asks
<1> QED BY Zenon, <1>0, <1>5, <1>7, <1>8, <1>9, <1>10, <1>11 DEF IInv
-----------------------------------------------------------------------------
(* A request or a delivery arrives *)

LEMMA Begins ==
  ASSUME IInv, NEW r \in Requests, MayStart(r), NEW c \in Req, req' = [req EXCEPT ![r] = c], Reads,
         c.at \in {"upsert", "claim"}, c.at = "claim" <=> c.op = "webhook", c.out = "none",
         c.at = "upsert" => c.email \in Emails, Asked(c)
  PROVE  IInv'
<1>1. req' \in [Requests -> Req] /\ req'[r] = c /\ \A q \in Requests \ {r} : req'[q] = req[q]
  BY Zenon DEF IInv
<1>2. req[r].at = "idle" /\ req[r].op = "none"
  BY Known DEF MayStart, Knows, Shape, Staged
<1>3. users' = users /\ profiles' = profiles /\ signIns' = signIns /\ ledger' = ledger /\ approvals' = approvals /\ usage' = usage
  BY DEF Reads, mirror
<1>4. Tables' /\ (Erases => Gone') /\ (Administers => (\E p \in People : Usable(p))')
  BY ReadsKeep
<1>5. \A q \in Requests : Shape(req[q])'
  <2> TAKE q \in Requests
  <2>1. CASE q = r
    <3>1. Asked(req[q])'
      BY Zenon, <1>1, <1>3, <2>1 DEF Asked
    <3>2. Staged(req[q])' /\ Found(req[q])'
      BY <1>1, <2>1 DEF Staged, Found
    <3> QED BY Zenon, <3>1, <3>2 DEF Shape
  <2>2. CASE q # r
    <3>1. PICK d \in Req : d = req[q] /\ d = req'[q]
      BY <1>1, <2>2 DEF IInv
    <3>2. Shape(d)
      BY Zenon, <3>1 DEF IInv
    <3>3. Shape(d)'
      BY Zenon, <1>3, <3>2, ReadsKeep, ShapeKept DEF IInv
    <3>4. d = req'[q]
      BY <3>1
    <3> QED BY Zenon, <3>3, <3>4, ShapeAt
  <2> QED BY <2>1, <2>2
<1>6. Claims'
  <2>1. \A q \in Requests, d \in Deliveries : Applying(q, d)' => Applying(q, d)
    BY <1>1, <1>2 DEF Applying
  <2>2. \A q \in Requests : req[q].op = "webhook" => q # r
    BY <1>2
  <2>3. \A q \in Requests, d \in Deliveries : q # r /\ Applying(q, d) => Applying(q, d)'
    BY <1>1 DEF Applying
  <2>4. AppliedOnce'
    BY Zenon, <2>1 DEF IInv, Claims, AppliedOnce
  <2>5. LedgerIsTruthful'
    <3>1. ASSUME NEW q \in Requests, req[q].op = "webhook" PROVE req'[q] = req[q]
      BY <1>1, <2>2, <3>1
    <3>2. ASSUME NEW d \in Deliveries, ledger[d] = "claimed"
          PROVE  \E q \in Requests :
                   req'[q].op = "webhook" /\ req'[q].arg = d /\ (Applying(q, d)' \/ req'[q].out \in {"failed", "conflict"})
      <4>1. PICK q \in Requests :
              req[q].op = "webhook" /\ req[q].arg = d /\ (Applying(q, d) \/ req[q].out \in {"failed", "conflict"})
        BY Zenon, <3>2 DEF IInv, Claims, LedgerIsTruthful
      <4>2. req'[q] = req[q] /\ (Applying(q, d) => Applying(q, d)')
        BY Zenon, <2>2, <2>3, <3>1, <4>1
      <4> QED BY <4>1, <4>2
    <3>3. ASSUME NEW d \in Deliveries, ledger[d] = "processed"
          PROVE  \E q \in Requests : req'[q].op = "webhook" /\ req'[q].arg = d /\ req'[q].out = "applied"
      BY <3>1, <3>3 DEF IInv, Claims, LedgerIsTruthful
    <3> QED BY <1>3, <3>2, <3>3 DEF LedgerIsTruthful
  <2> QED BY <1>3, <2>1, <2>4, <2>5 DEF IInv, Claims
<1>7. usage.serial => \A q \in Requests \ {r} : req'[q].at \in {"idle", "done"}
  BY <1>1 DEF MayStart, Waits
<1>8. Alone'
  BY Zenon, <1>1, <1>3, <1>7 DEF Alone, Waits
<1>9. \A q \in Requests : (Erases => Live(req[q])') /\ (Administers => Spared(req[q])')
  <2> TAKE q \in Requests
  <2>1. CASE q = r
    BY Zenon, <1>1, <2>1 DEF Live, Spared
  <2>2. CASE q # r
    BY Zenon, <1>7, <2>2 DEF Erases, Administers, Live, Spared
  <2> QED BY <2>1, <2>2
<1>10. Erases' = Erases /\ Administers' = Administers
  BY <1>3 DEF Erases, Administers, Asks
<1> QED BY <1>1, <1>3, <1>4, <1>5, <1>6, <1>8, <1>9, <1>10 DEF IInv

LEMMA NewRequestKeeps ==
  ASSUME IInv, NEW r \in Requests, NewRequest(r)
  PROVE  IInv'
<1>0. /\ MayStart(r) /\ req \in [Requests -> Req] /\ usage \in Usages
  BY Zenon DEF NewRequest, IInv
<1>1. ASSUME NEW d \in Deliveries, applyEvent(r, d)
      PROVE  IInv'
  <2> DEFINE c == [Idle EXCEPT !.at = "claim", !.op = "webhook", !.who = Events[d].who, !.email = Events[d].email,
                               !.arg = d, !.role = None]
  <2>1. req' = [req EXCEPT ![r] = c] /\ Reads /\ "webhook" \in usage.ops
    BY Zenon, <1>1 DEF applyEvent, Start, Reads, mirror
  <2>2. Events[d].who \in People /\ Events[d].email \in Emails \cup {None}
    BY ProviderAssumption
  <2>3. /\ c \in Req /\ c.at = "claim" /\ c.op = "webhook" /\ c.out = "none" /\ c.arg = d
        /\ c.who = Events[d].who /\ c.email = Events[d].email
    BY Zenon, <2>2 DEF Idle, Req, Stages, Ops, Outcomes
  <2> HIDE DEF c
  <2>4. Asked(c)
    BY <2>1, <2>2, <2>3 DEF Asked
  <2> QED BY Zenon, <1>0, <2>1, <2>3, <2>4, Begins
<1>2. ASSUME NEW op \in Ops \ {"none", "webhook"}, NEW p \in usage.who, NEW e \in usage.emails[p], NEW arg, NEW role,
             canActivate(r, op, p, e, arg, role),
             op \in {"suspend", "reinstate", "view", "propose"} => arg \in People,
             op \in {"approve", "cancel"} => arg \in Proposals,
             op \in {"save", "delete", "export"} => arg = None,
             IF op = "propose" THEN role \in Roles ELSE role = None
      PROVE  IInv'
  <2> DEFINE c == [Idle EXCEPT !.at = "upsert", !.op = op, !.who = p, !.email = e, !.arg = arg, !.role = role]
  <2>1. req' = [req EXCEPT ![r] = c] /\ Reads /\ op \in usage.ops
    BY Zenon, <1>2 DEF canActivate, Start, Reads, mirror
  <2>2. p \in People /\ e \in Emails
    BY Zenon, <1>0, ProviderAssumption
  <2>3. arg \in People \cup Proposals \cup Deliveries \cup {None} /\ role \in Roles \cup {None}
    BY <1>2 DEF Ops
  <2>4. /\ c \in Req /\ c.at = "upsert" /\ c.op = op /\ c.out = "none" /\ c.arg = arg
        /\ c.who = p /\ c.email = e /\ c.role = role
    BY Zenon, <2>2, <2>3 DEF Idle, Req, Stages, Outcomes
  <2> HIDE DEF c
  <2>5. Asked(c)
    BY <1>2, <2>1, <2>2, <2>4 DEF Asked
  <2> QED BY Zenon, <1>0, <2>1, <2>2, <2>4, <2>5, Begins
<1>3. CASE \E d \in Deliveries : applyEvent(r, d)
  BY Zenon, <1>1, <1>3
<1>4. CASE \E p \in usage.who : \E e \in usage.emails[p] :
             \E op \in Asks({"save", "delete", "export"}) : canActivate(r, op, p, e, None, None)
  <2>1. PICK p, e, op :
          p \in usage.who /\ e \in usage.emails[p] /\ op \in Asks({"save", "delete", "export"})
          /\ canActivate(r, op, p, e, None, None)
    BY <1>4
  <2>2. op \in {"save", "delete", "export"} /\ op \in Ops \ {"none", "webhook"}
    BY Zenon, <2>1 DEF Asks, Ops
  <2> QED BY <1>2, <2>1, <2>2
<1>5. CASE \E p \in usage.who : \E e \in usage.emails[p] :
             \E op \in Asks({"suspend", "reinstate", "view"}), t \in People : canActivate(r, op, p, e, t, None)
  <2>1. PICK p, e, op, t :
          p \in usage.who /\ e \in usage.emails[p] /\ op \in Asks({"suspend", "reinstate", "view"}) /\ t \in People
          /\ canActivate(r, op, p, e, t, None)
    BY <1>5
  <2>2. op \in {"suspend", "reinstate", "view"} /\ op \in Ops \ {"none", "webhook"}
    BY Zenon, <2>1 DEF Asks, Ops
  <2> QED BY <1>2, <2>1, <2>2
<1>6. CASE \E p \in usage.who : \E e \in usage.emails[p] :
             \E op \in Asks({"propose"}), t \in People, role \in Roles : canActivate(r, op, p, e, t, role)
  <2>1. PICK p, e, op, t, role :
          p \in usage.who /\ e \in usage.emails[p] /\ op \in Asks({"propose"}) /\ t \in People /\ role \in Roles
          /\ canActivate(r, op, p, e, t, role)
    BY <1>6
  <2>2. op = "propose" /\ op \in Ops \ {"none", "webhook"}
    BY Zenon, <2>1 DEF Asks, Ops
  <2> QED BY <1>2, <2>1, <2>2
<1>7. CASE \E p \in usage.who : \E e \in usage.emails[p] :
             \E op \in Asks({"approve", "cancel"}), a \in Proposals : canActivate(r, op, p, e, a, None)
  <2>1. PICK p, e, op, a :
          p \in usage.who /\ e \in usage.emails[p] /\ op \in Asks({"approve", "cancel"}) /\ a \in Proposals
          /\ canActivate(r, op, p, e, a, None)
    BY <1>7
  <2>2. op \in {"approve", "cancel"} /\ op \in Ops \ {"none", "webhook"}
    BY <2>1 DEF Asks, Ops
  <2> QED BY <1>2, <2>1, <2>2
<1> QED BY Zenon, <1>3, <1>4, <1>5, <1>6, <1>7 DEF NewRequest
-----------------------------------------------------------------------------
LEMMA NextKeeps ==
  ASSUME IInv, [Next]_vars
  PROVE  IInv'
<1>1. CASE UNCHANGED vars
  <2>1. /\ UNCHANGED <<users, profiles, signIns, ledger, approvals, usage, req>>
    BY Zenon, <1>1 DEF vars
  <2>2. Tables' /\ Alone' /\ Erases' = Erases /\ Administers' = Administers
    BY <2>1 DEF IInv, Tables, TypeOK, Alone, Waits, Erases, Administers, Asks
  <2>7. Claims'
    <3>1. \A r \in Requests, d \in Deliveries : Applying(r, d)' = Applying(r, d)
      BY <2>1 DEF Applying
    <3>2. AppliedOnce'
      BY SMTT(30), <3>1 DEF IInv, Claims, AppliedOnce
    <3>3. LedgerIsTruthful
      BY Zenon DEF IInv, Claims
    <3>4. LedgerIsTruthful'
      BY <2>1, <3>1, <3>3 DEF LedgerIsTruthful
    <3> QED BY <2>1, <3>1, <3>2, <3>4 DEF IInv, Claims
  <2>3. \A r \in Requests : Staged(req[r])' = Staged(req[r]) /\ Found(req[r])' = Found(req[r]) /\ Asked(req[r])' = Asked(req[r])
    <3> TAKE r \in Requests
    <3>1. Staged(req[r])' = Staged(req[r])
      BY Zenon, <2>1
    <3>2. Found(req[r])' = Found(req[r])
      BY Zenon, <2>1 DEF Found
    <3>3. Asked(req[r])' = Asked(req[r])
      BY <2>1 DEF Asked
    <3> QED BY <3>1, <3>2, <3>3
  <2>4. \A r \in Requests : Shape(req[r])'
    BY <2>1, <2>3 DEF IInv, Shape
  <2>5. Gone' = Gone /\ \A r \in Requests : Live(req[r])' = Live(req[r])
    BY Zenon, <2>1 DEF Gone, Deleted, Holds, HoldsSignIn, Live
  <2>6. (\E p \in People : Usable(p))' = (\E p \in People : Usable(p)) /\ \A r \in Requests : Spared(req[r])' = Spared(req[r])
    BY <2>1 DEF Usable, Spared
  <2> QED BY <2>1, <2>2, <2>4, <2>5, <2>6, <2>7 DEF IInv
<1>2. CASE \E a \in Proposals : expire(a)
  BY <1>2, ExpireKeeps
<1>3. ASSUME NEW r \in Requests,
             NewRequest(r) \/ DirectoryStep(r) \/ OwnStep(r) \/ DeliveryStep(r) \/ AdminStep(r) \/ fail(r)
      PROVE  IInv'
  <2>1. CASE NewRequest(r) \/ fail(r)
    BY <2>1, NewRequestKeeps, FailKeeps
  <2>2. CASE DirectoryStep(r)
    BY <2>2, UpsertKeeps, CreateKeeps, RacedKeeps, ProvisionedKeeps, ResolveSessionKeeps, CorrectEmailKeeps,
       CorrectedKeeps, AuthoriseKeeps DEF DirectoryStep
  <2>3. CASE OwnStep(r)
    BY <2>3, SaveMineKeeps, SaveKeeps, SaveAuditKeeps, ExportForKeeps, ExportAuditKeeps, RequestDeletionKeeps,
       EraseForKeeps, EraseKeeps, EraseAuditKeeps, EraseOthersKeeps, EraseActivityKeeps, EraseAndTombstoneKeeps,
       DeleteAuditKeeps DEF OwnStep
  <2>4. CASE DeliveryStep(r)
    BY Zenon, <2>4, ClaimKeeps, ApplyKeeps, RecordAuthenticationEventKeeps, MarkProcessedKeeps DEF DeliveryStep
  <2>5. CASE AdminStep(r)
    BY <2>5, ViewKeeps, AdminViewForKeeps, SuspendKeeps, SuspendCountKeeps, ReinstateKeeps, SetSuspensionKeeps,
       SuspensionAuditKeeps, ProposeRoleChangeKeeps, ProposeCountKeeps, ProposeAuditKeeps, ApproveKeeps,
       ApproveTargetKeeps, ApproveCountKeeps, ApproveAndApplyKeeps, CancelApprovalKeeps, CancelKeeps,
       DecisionAuditKeeps, ProposeKeeps DEF AdminStep
  <2> QED BY <1>3, <2>1, <2>2, <2>3, <2>4, <2>5
<1> QED BY <1>1, <1>2, <1>3 DEF Next

LEMMA InitHolds ==
  ASSUME Init
  PROVE  IInv
<1>1. \A p \in People : users[p] = IF Founders[p] = None THEN None
                                   ELSE [email |-> Founders[p], role |-> "ADMIN", deleted |-> FALSE, suspended |-> None]
  BY DEF Init
<1>2. \A p \in People : Founders[p] # None =>
        users[p] \in Row /\ users[p].email = Founders[p] /\ users[p].email \in Emails /\ ~users[p].deleted
        /\ users[p].role = "ADMIN" /\ users[p].suspended = None /\ users[p] # None
  <2> SUFFICES ASSUME NEW p \in People, Founders[p] # None
               PROVE  users[p] \in Row /\ users[p].email = Founders[p] /\ users[p].email \in Emails /\ ~users[p].deleted
                      /\ users[p].role = "ADMIN" /\ users[p].suspended = None /\ users[p] # None
    OBVIOUS
  <2>1. Founders[p] \in Emails
    BY ProviderAssumption
  <2>2. users[p] = [email |-> Founders[p], role |-> "ADMIN", deleted |-> FALSE, suspended |-> None]
    BY <1>1
  <2>3. users[p] \in Row
    BY <2>1, <2>2 DEF Row, Roles
  <2>4. users[p] # None
    BY <2>3, AccountsAssumption
  <2>5. users[p].email = Founders[p] /\ ~users[p].deleted /\ users[p].role = "ADMIN" /\ users[p].suspended = None
    BY <2>2
  <2> QED BY <2>1, <2>3, <2>4, <2>5
<1>3. TypeOK
  <2>1. users \in [People -> Row \cup {None}]
    BY <1>1, <1>2 DEF Init
  <2>2. \A p, q \in People : p # q /\ users[p] # None /\ users[q] # None => users[p].email # users[q].email
    <3>1. \A p \in People : users[p] # None => Founders[p] # None
      BY Zenon, <1>1
    <3>2. \A p, q \in People : Founders[p] # None /\ Founders[p] = Founders[q] => p = q
      BY ProviderAssumption
    <3> QED BY <1>2, <3>1, <3>2
  <2> QED BY <2>1, <2>2 DEF Init, TypeOK
<1>4. Tables
  BY Zenon, <1>1, <1>2, <1>3 DEF Tables
<1>5. \A r \in Requests : req[r] = Idle
  BY DEF Init
<1>6. req \in [Requests -> Req] /\ usage \in Usages /\ signIns = {}
  BY IdleFacts DEF Init
<1>7. \A r \in Requests : Shape(req[r]) /\ Live(req[r]) /\ Spared(req[r])
  BY Zenon, <1>5, IdleFacts DEF Shape, Staged, Found, Live, Spared
<1>8. Claims
  <2>1. \A r \in Requests : req[r].op # "webhook"
    BY Zenon, <1>5, IdleFacts
  <2> QED BY Zenon, <2>1 DEF Init, Claims, AppliedOnce, LedgerIsTruthful, Applying
<1>9. Alone
  BY Zenon, <1>5, IdleFacts DEF Alone, Waits
<1>10. Gone
  BY Zenon, <1>1, <1>2, <1>6 DEF Gone, Deleted, Holds, HoldsSignIn
<1>11. \E p \in People : Usable(p)
  BY <1>2, ProviderAssumption DEF Usable
<1> QED BY <1>4, <1>6, <1>7, <1>8, <1>9, <1>10, <1>11 DEF IInv

LEMMA Inductive == Spec => []IInv
<1>1. Init => IInv
  BY InitHolds
<1>2. IInv /\ [Next]_vars => IInv'
  BY NextKeeps
<1> QED BY <1>1, <1>2, PTL DEF Spec

\* The tables keep their shape, no address is held twice, and whatever happened since a request read a
\* row, the row it writes to is there (create, correctEmail, eraseAndTombstone, setSuspension,
\* approveAndApply).
THEOREM TypeCorrect == Spec => []TypeOK
<1>1. IInv => TypeOK
  BY DEF IInv, Tables
<1> QED BY <1>1, Inductive, PTL

\* A delivery of the provider is applied by one request, however often it is repeated (claim).
THEOREM AppliedOnceHolds == Spec => []AppliedOnce
<1>1. IInv => AppliedOnce
  BY DEF IInv, Claims
<1> QED BY <1>1, Inductive, PTL

\* The ledger tells what became of each delivery, wherever a request was interrupted (claim, apply,
\* markProcessed).
THEOREM LedgerIsTruthfulHolds == Spec => []LedgerIsTruthful
<1>1. IInv => LedgerIsTruthful
  BY DEF IInv, Claims
<1> QED BY <1>1, Inductive, PTL

\* Served one at a time, a deletion interrupted anywhere leaves either an account that is not marked
\* deleted or nothing of the person, the sign-ins made up to then included; what is recorded of an
\* account already deleted is the exception (requestDeletion, eraseActivity, eraseAndTombstone).
THEOREM DeletedHoldsNothingInTurnHolds == Spec => []DeletedHoldsNothingInTurn
<1>1. IInv => DeletedHoldsNothingInTurn
  BY DEF IInv, DeletedHoldsNothingInTurn, Erases, Gone
<1> QED BY <1>1, Inductive, PTL

\* Administrators who act one at a time never leave the platform without one (refuseIfLastAdministrator).
THEOREM AdministrableInTurnHolds == Spec => []AdministrableInTurn
<1>1. IInv => AdministrableInTurn
  BY Zenon DEF IInv, AdministrableInTurn, Administers
<1> QED BY <1>1, Inductive, PTL
-----------------------------------------------------------------------------
(* Role changes *)

\* Who writes to accounts and to proposals.
LEMMA Untouched ==
  ASSUME NEW r \in Requests,
         NewRequest(r) \/ DirectoryStep(r) \/ OwnStep(r) \/ DeliveryStep(r) \/ AdminStep(r) \/ fail(r)
  PROVE  \/ UNCHANGED <<users, approvals>>
         \/ approvals' = approvals /\ (create(r) \/ correctEmail(r) \/ eraseAndTombstone(r) \/ setSuspension(r))
         \/ users' = users /\ (cancel(r) \/ \E a \in Proposals : propose(r, a))
         \/ approveAndApply(r)
<1>1. CASE NewRequest(r)
  BY Zenon, <1>1 DEF NewRequest, applyEvent, canActivate, mirror
<1>2. CASE DirectoryStep(r)
  BY <1>2 DEF DirectoryStep, upsert, create, raced, provisioned, resolveSession, correctEmail, corrected, authorise, mirror
<1>3. CASE OwnStep(r)
  BY Zenon, <1>3 DEF OwnStep, saveMine, save, saveAudit, exportFor, exportAudit, requestDeletion, eraseFor, erase, eraseAudit,
     eraseOthers, eraseActivity, eraseAndTombstone, deleteAudit, mirror
<1>4. CASE DeliveryStep(r) \/ fail(r)
  BY Zenon, <1>4 DEF DeliveryStep, claim, apply, recordAuthenticationEvent, markProcessed, fail, mirror
<1>5. CASE AdminStep(r)
  BY Zenon, <1>5 DEF AdminStep, view, adminViewFor, suspend, suspendCount, reinstate, setSuspension, suspensionAudit,
     proposeRoleChange, proposeCount, proposeAudit, approve, approveTarget, approveCount, cancelApproval, cancel, propose,
     decisionAudit, readOnly, mirror
<1> QED BY <1>1, <1>2, <1>3, <1>4, <1>5

\* A role changes in one way: a pending proposal of somebody else's is approved.
LEMMA RoleStep ==
  ASSUME IInv, [Next]_vars, NEW p \in People, users[p] # None, users'[p] # None, users'[p].role # users[p].role
  PROVE  \E a \in Proposals :
           /\ approvals[a] # None
           /\ approvalState(approvals[a]) = "pending"
           /\ approvals[a].who = p /\ approvals[a].role = users'[p].role
           /\ approvals'[a].approvedBy \notin {None, approvals[a].by}
<1>1. users' # users
  OBVIOUS
<1>2. PICK r \in Requests : NewRequest(r) \/ DirectoryStep(r) \/ OwnStep(r) \/ DeliveryStep(r) \/ AdminStep(r) \/ fail(r)
  BY <1>1 DEF Next, vars, expire, mirror
<1>3. users \in [People -> Row \cup {None}] /\ users[p] \in Row /\ \A q \in People : users[q] # None => users[q] \in Row
  BY Zenon, RowFacts DEF IInv, Tables, TypeOK
<1>4. ~create(r)
  <2> SUFFICES ASSUME create(r) PROVE FALSE
    OBVIOUS
  <2>1. users[req[r].who] = None /\ \E row : users' = [users EXCEPT ![req[r].who] = row]
    BY <1>1 DEF create
  <2> QED BY <1>3, <2>1
<1>5. ~correctEmail(r)
  BY <1>1, <1>3 DEF correctEmail, Row
<1>6. ~eraseAndTombstone(r)
  BY <1>3 DEF eraseAndTombstone, Row
<1>7. ~setSuspension(r)
  BY <1>3 DEF setSuspension, Row
<1>8. approveAndApply(r)
  BY Zenon, <1>1, <1>2, <1>4, <1>5, <1>6, <1>7, Untouched
<1> DEFINE a == approvals[req[r].arg]
<1>9. /\ Claimable(a, req[r].who) /\ users' = [users EXCEPT ![a.who].role = a.role]
      /\ approvals' = [approvals EXCEPT ![req[r].arg].approvedBy = req[r].who]
  BY Zenon, <1>1, <1>8 DEF approveAndApply
<1>10. /\ req[r].arg \in Proposals /\ a # None /\ a \in Approval /\ req[r].who \in People
       /\ approvals \in [Proposals -> Approval \cup {None}] /\ None \notin People
  BY Zenon, <1>8, Known, RowFacts DEF approveAndApply, Waits, Knows, Shape, Staged, Found, Asked, IInv, Tables, TypeOK
<1>11. approvals'[req[r].arg].approvedBy = req[r].who
  BY Zenon, <1>9, <1>10 DEF Approval
<1>12. a.who = p /\ users'[p].role = a.role
  BY Zenon, <1>3, <1>9 DEF Row
<1>13. approvalState(a) = "pending" /\ a.by # req[r].who
  BY Zenon, <1>9 DEF Claimable, approvalState
<1> QED BY <1>10, <1>11, <1>12, <1>13

\* Nobody changes a role alone: every change of a role takes effect in the step in which a second
\* administrator's approval of that change does (approveAndApply).
THEOREM RoleChangesTakeTwoHolds == Spec => RoleChangesTakeTwo
<1>1. IInv /\ [Next]_vars =>
        [\A p \in People :
           users[p] # None /\ users'[p] # None /\ users'[p].role # users[p].role =>
             \E a \in Proposals :
               /\ approvals[a] # None
               /\ approvalState(approvals[a]) = "pending"
               /\ approvals[a].who = p /\ approvals[a].role = users'[p].role
               /\ approvals'[a].approvedBy \notin {None, approvals[a].by}]_vars
  BY RoleStep
<1> QED BY <1>1, Inductive, PTL DEF Spec, RoleChangesTakeTwo

LEMMA DecisionStep ==
  ASSUME IInv, [Next]_vars, NEW a \in Proposals, approvals[a] # None
  PROVE  /\ approvals'[a] # None
         /\ approvals'[a].by = approvals[a].by /\ approvals'[a].who = approvals[a].who
         /\ approvalState(approvals[a]) \in {"approved", "cancelled"} =>
              /\ approvals'[a].approvedBy = approvals[a].approvedBy
              /\ approvals'[a].cancelledBy = approvals[a].cancelledBy
<1> DEFINE x == approvals[a]
<1>1. approvals \in [Proposals -> Approval \cup {None}] /\ x \in Approval /\ None \notin Approval
  BY AdministrationAssumption DEF IInv, Tables, TypeOK
<1>2. approvalState(x) \in {"approved", "cancelled"} => ~(x.approvedBy = None /\ x.cancelledBy = None)
  BY DEF approvalState
<1>3. CASE approvals' = approvals
  BY <1>3
<1>4. ASSUME NEW b \in Proposals, expire(b)
      PROVE  /\ approvals'[a] \in Approval
             /\ approvals'[a].by = x.by /\ approvals'[a].who = x.who
             /\ approvals'[a].approvedBy = x.approvedBy /\ approvals'[a].cancelledBy = x.cancelledBy
  BY Zenon, <1>1, <1>4 DEF expire, Approval
<1>5. ASSUME NEW r \in Requests, NEW b \in Proposals, propose(r, b)
      PROVE  approvals'[a] = x
  BY Zenon, <1>1, <1>5 DEF propose
<1>6. ASSUME NEW r \in Requests, cancel(r), approvals' # approvals
      PROVE  /\ approvals'[a] \in Approval /\ approvals'[a].by = x.by /\ approvals'[a].who = x.who
             /\ (x.approvedBy = None /\ x.cancelledBy = None) \/ approvals'[a] = x
  <2>1. req[r].who \in People
    BY <1>6, Known DEF cancel, Waits, Asked
  <2>2. /\ approvals[req[r].arg].approvedBy = None /\ approvals[req[r].arg].cancelledBy = None
        /\ approvals' = [approvals EXCEPT ![req[r].arg].cancelledBy = req[r].who]
    BY <1>6 DEF cancel
  <2>3. CASE a = req[r].arg
    BY <1>1, <2>1, <2>2, <2>3 DEF Approval
  <2>4. CASE a # req[r].arg
    BY Zenon, <1>1, <2>2, <2>4
  <2> QED BY <2>3, <2>4
<1>7. ASSUME NEW r \in Requests, approveAndApply(r), approvals' # approvals
      PROVE  /\ approvals'[a] \in Approval /\ approvals'[a].by = x.by /\ approvals'[a].who = x.who
             /\ (x.approvedBy = None /\ x.cancelledBy = None) \/ approvals'[a] = x
  <2>1. req[r].who \in People
    BY Zenon, <1>7, Known DEF approveAndApply, Waits, Asked
  <2>2. /\ approvals[req[r].arg].approvedBy = None /\ approvals[req[r].arg].cancelledBy = None
        /\ approvals' = [approvals EXCEPT ![req[r].arg].approvedBy = req[r].who]
    BY <1>7 DEF approveAndApply, Claimable
  <2>3. CASE a = req[r].arg
    BY <1>1, <2>1, <2>2, <2>3 DEF Approval
  <2>4. CASE a # req[r].arg
    BY Zenon, <1>1, <2>2, <2>4
  <2> QED BY <2>3, <2>4
<1>8. CASE \E b \in Proposals : expire(b)
  BY <1>1, <1>4, <1>8
<1>9. ASSUME NEW r \in Requests, approvals' # approvals,
             NewRequest(r) \/ DirectoryStep(r) \/ OwnStep(r) \/ DeliveryStep(r) \/ AdminStep(r) \/ fail(r)
      PROVE  \/ approvals'[a] = x
             \/ /\ approvals'[a] \in Approval /\ approvals'[a].by = x.by /\ approvals'[a].who = x.who
                /\ x.approvedBy = None /\ x.cancelledBy = None
  BY Zenon, <1>5, <1>6, <1>7, <1>9, Untouched
<1>10. CASE UNCHANGED vars
  BY <1>3, <1>10 DEF vars
<1> QED BY Zenon, <1>1, <1>2, <1>3, <1>8, <1>9, <1>10 DEF Next

\* A proposal is decided once, by an approval or by a cancellation, whichever is written first, and what
\* was proposed never changes (approveAndApply, cancel, expire).
THEOREM DecidedOnceHolds == Spec => DecidedOnce
<1>1. IInv /\ [Next]_vars =>
        [\A a \in Proposals :
           approvals[a] # None =>
             /\ approvals'[a] # None
             /\ approvals'[a].by = approvals[a].by /\ approvals'[a].who = approvals[a].who
             /\ approvalState(approvals[a]) \in {"approved", "cancelled"} =>
                  /\ approvals'[a].approvedBy = approvals[a].approvedBy
                  /\ approvals'[a].cancelledBy = approvals[a].cancelledBy]_vars
  BY DecisionStep
<1> QED BY <1>1, Inductive, PTL DEF Spec, DecidedOnce
=============================================================================
