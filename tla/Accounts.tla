------------------------------ MODULE Accounts ------------------------------
(***************************************************************************)
(* The mirror of the identity provider's accounts, and what erasing one    *)
(* takes (apps/api/src/identity, apps/api/src/profiles).                   *)
(*                                                                         *)
(* A row of `users` exists once for each person the provider knows; it is  *)
(* made by whichever comes first of an authenticated request and a         *)
(* webhook.  Requests and deliveries are sequences of awaited calls and    *)
(* interleave at every one of them: `req[r]` is the one in slot r, with    *)
(* what it read and will still use.  A slot serves one request.            *)
(***************************************************************************)
EXTENDS Naturals, FiniteSets

CONSTANTS
  People,      \* identities at the provider; the mirror's row is indexed by them
  Emails,      \* addresses people hold at the provider
  Deliveries,  \* the provider's delivery identifiers
  Events,      \* [Deliveries -> [type, who, email, session]]: what each delivery carries
  Requests,    \* slots for requests and deliveries being served
  Proposals,   \* primary keys of admin_approvals
  Founders,    \* [People -> email or None]: rows there from the start, administrators
  Usages,      \* [serial, ops, who, emails]: who asks for what, and the addresses their
               \* tokens may carry
  None

VARIABLES
  users,      \* users: [email, role, deleted, suspended], or None
  profiles,   \* people with a profile row, and the address with it
  signIns,    \* authentication_events: [who, session, activity, late], activity while it is
              \* held; late is history: the account was already deleted
  ledger,     \* webhook_events: unseen, claimed or processed
  approvals,  \* admin_approvals
  trail,      \* audit_log: <<action, whose account>>
  usage,      \* the operations asked for, and whether one at a time
  req         \* requests in flight, and how the finished ones ended

mirror == <<users, profiles, signIns>>
vars   == <<users, profiles, signIns, ledger, approvals, trail, usage, req>>

Roles == {"USER", "ADMIN"}

\* The address a tombstone holds instead of the person's: distinct for every account.
tombstoneEmail(p) == <<"deleted", p>>

Row == [email : Emails \cup {tombstoneEmail(p) : p \in People}, role : Roles, deleted : BOOLEAN,
        suspended : People \cup {None}]

ASSUME AccountsAssumption ==
  /\ IsFiniteSet(People)
  /\ \A p \in People : tombstoneEmail(p) \notin Emails
  /\ None \notin People \cup Emails \cup Deliveries \cup Roles /\ None \notin Row

\* What the provider tells and what people's tokens say is of its kind, and at least one
\* administrator is there from the start.
ASSUME ProviderAssumption ==
  /\ \A d \in Deliveries :
       /\ Events[d].type \in {"user.upserted", "user.deleted", "session.recorded"}
       /\ Events[d].who \in People /\ Events[d].email \in Emails \cup {None}
       /\ Events[d].type = "user.upserted" => Events[d].email \in Emails
  /\ \A u \in Usages : u.serial \in BOOLEAN /\ u.who \subseteq People /\ \A p \in u.who : u.emails[p] \subseteq Emails
  /\ \A p \in People : Founders[p] \in Emails \cup {None}
  /\ \A p, q \in People : Founders[p] # None /\ Founders[p] = Founders[q] => p = q
  /\ \E p \in People : Founders[p] # None

Idle == [at |-> "idle", op |-> "none", who |-> None, email |-> None, arg |-> None, role |-> None,
         user |-> None, before |-> FALSE, out |-> "none"]

Waits(r)    == req[r].at \notin {"idle", "done"}
MayStart(r) == req[r].at = "idle" /\ (usage.serial => \A q \in Requests : ~Waits(q))

\* A request served for a session, or a delivery of the provider.
Start(r, at, op, who, email, arg, role) ==
  /\ MayStart(r) /\ op \in usage.ops
  /\ req' = [req EXCEPT ![r] = [Idle EXCEPT !.at = at, !.op = op, !.who = who,
                                            !.email = email, !.arg = arg, !.role = role]]

Go(r, at)       == req' = [req EXCEPT ![r].at = at]
GoWith(r, at, u) == req' = [req EXCEPT ![r].at = at, ![r].user = u]
\* What a finished request keeps is what its caller was told.
Answer(r, out)  ==
  req' = [req EXCEPT ![r] = [Idle EXCEPT !.at = "done", !.op = req[r].op, !.who = req[r].who,
                                         !.arg = req[r].arg, !.out = out]]

Record(action, p) == trail' = trail \cup {<<action, p>>}

\* Where a request continues once its account is resolved.
Resolved(r) == IF req[r].op = "webhook" THEN "mark" ELSE "authorise"
-----------------------------------------------------------------------------
(* The directory *)

\* The unique index on users.email.
EmailTaken(e, p) == \E q \in People \ {p} : users[q] # None /\ users[q].email = e

findByClerkUserId(p) == users[p]
findById(p)          == users[p]

upsert(r) ==
  LET found == findByClerkUserId(req[r].who) IN
  /\ req[r].at = "upsert"
  /\ IF found # None THEN GoWith(r, "resolved", found) ELSE Go(r, "create")
  /\ UNCHANGED <<mirror, ledger, approvals, trail, usage>>

\* The insert, which a concurrent insert of the same person or another person's
\* address refuses.
create(r) ==
  LET p == req[r].who
      row == [email |-> req[r].email, role |-> "USER", deleted |-> FALSE, suspended |-> None]
  IN
  /\ req[r].at = "create"
  /\ IF users[p] = None /\ ~EmailTaken(req[r].email, p)
     THEN /\ users' = [users EXCEPT ![p] = row]
          /\ GoWith(r, "provisioned", row)
     ELSE Go(r, "raced") /\ UNCHANGED users
  /\ UNCHANGED <<profiles, signIns, ledger, approvals, trail, usage>>

raced(r) ==
  LET found == findByClerkUserId(req[r].who) IN
  /\ req[r].at = "raced"
  /\ IF found # None THEN GoWith(r, "resolved", found) ELSE Answer(r, "conflict")
  /\ UNCHANGED <<mirror, ledger, approvals, trail, usage>>

provisioned(r) ==
  /\ req[r].at = "provisioned"
  /\ Record("account.provisioned", req[r].who)
  /\ Go(r, "resolved")
  /\ UNCHANGED <<mirror, ledger, approvals, usage>>

\* A session of a deleted account is refused; a delivery about one has nothing left
\* to do.
resolveSession(r) ==
  /\ req[r].at = "resolved"
  /\ IF req[r].user.deleted
     THEN IF req[r].op = "webhook" THEN Go(r, "mark") ELSE Answer(r, "unauthorized")
     ELSE Go(r, IF req[r].user.email = req[r].email THEN Resolved(r) ELSE "correct")
  /\ UNCHANGED <<mirror, ledger, approvals, trail, usage>>

\* The address is written to the row whatever became of it since it was read; an
\* address somebody else holds leaves the row as it was.
correctEmail(r) ==
  LET p == req[r].who IN
  /\ req[r].at = "correct"
  /\ IF EmailTaken(req[r].email, p)
     THEN Go(r, Resolved(r)) /\ UNCHANGED users
     ELSE /\ users' = [users EXCEPT ![p].email = req[r].email]
          /\ GoWith(r, "corrected", users'[p])
  /\ UNCHANGED <<profiles, signIns, ledger, approvals, trail, usage>>

corrected(r) ==
  /\ req[r].at = "corrected"
  /\ Record("account.email_changed", req[r].who)
  /\ Go(r, Resolved(r))
  /\ UNCHANGED <<mirror, ledger, approvals, usage>>
-----------------------------------------------------------------------------
(* Authorisation *)

AllowsSuspended == {"delete", "export"}
AdminRoutes     == {"suspend", "reinstate", "propose", "approve", "cancel", "view"}

\* A request carrying a session: the token is verified against the provider's key
\* before anything is read.
canActivate(r, op, p, e, arg, role) ==
  /\ p \in usage.who /\ e \in usage.emails[p]
  /\ Start(r, "upsert", op, p, e, arg, role)
  /\ UNCHANGED <<mirror, ledger, approvals, trail, usage>>

refuseIfSuspended(r) == req[r].user.suspended # None /\ req[r].op \notin AllowsSuspended

\* Whether the second-factor chain proves the administrator is a choice of their own.
authorise(r) ==
  /\ req[r].at = "authorise"
  /\ \/ /\ refuseIfSuspended(r) \/ (req[r].op \in AdminRoutes /\ req[r].user.role # "ADMIN")
        /\ Answer(r, "forbidden")
     \/ /\ ~refuseIfSuspended(r)
        /\ req[r].op \in AdminRoutes
        /\ req[r].user.role = "ADMIN"
        /\ Answer(r, "forbidden") \/ Go(r, req[r].op)
     \/ /\ ~refuseIfSuspended(r) /\ req[r].op \notin AdminRoutes
        /\ Go(r, req[r].op)
  /\ UNCHANGED <<mirror, ledger, approvals, trail, usage>>
-----------------------------------------------------------------------------
(* Profiles *)

saveMine(r) ==
  /\ req[r].at = "save"
  /\ req' = [req EXCEPT ![r].at = "saveWrite", ![r].before = req[r].who \in profiles]
  /\ UNCHANGED <<mirror, ledger, approvals, trail, usage>>

save(r) ==
  /\ req[r].at = "saveWrite"
  /\ profiles' = profiles \cup {req[r].who}
  /\ Go(r, "saveAudit")
  /\ UNCHANGED <<users, signIns, ledger, approvals, trail, usage>>

saveAudit(r) ==
  /\ req[r].at = "saveAudit"
  /\ Record(IF req[r].before THEN "profile.updated" ELSE "profile.created", req[r].who)
  /\ Answer(r, "saved")
  /\ UNCHANGED <<mirror, ledger, approvals, usage>>

\* The export reads everything, then says that it did.
exportFor(r) ==
  /\ req[r].at = "export"
  /\ IF findById(req[r].who) = None THEN Answer(r, "not found") ELSE Go(r, "exportAudit")
  /\ UNCHANGED <<mirror, ledger, approvals, trail, usage>>

exportAudit(r) ==
  /\ req[r].at = "exportAudit"
  /\ Record("account.exported", req[r].who)
  /\ Answer(r, "exported")
  /\ UNCHANGED <<mirror, ledger, approvals, usage>>

\* What a stranger is shown: nothing of an account that is gone or suspended.
findActiveById(p) == findById(p) # None /\ ~findById(p).deleted /\ findById(p).suspended = None
findPublic(p)     == findActiveById(p) /\ p \in profiles
-----------------------------------------------------------------------------
(* Erasure: every module erases what it holds, then the sign-ins lose their     *)
(* activity, then the row becomes a tombstone.                                  *)

requestDeletion(r) ==
  LET u == findById(req[r].who) IN
  /\ req[r].at = "delete"
  /\ IF u = None \/ u.deleted THEN Answer(r, "deleted") ELSE GoWith(r, "erase", u)
  /\ UNCHANGED <<mirror, ledger, approvals, trail, usage>>

eraseFor(r) ==
  /\ req[r].at = "erase"
  /\ req' = [req EXCEPT ![r].at = "eraseProfile", ![r].before = req[r].who \in profiles]
  /\ UNCHANGED <<mirror, ledger, approvals, trail, usage>>

erase(r) ==
  /\ req[r].at = "eraseProfile"
  /\ profiles' = profiles \ {req[r].who}
  /\ Go(r, IF req[r].before THEN "eraseAudit" ELSE "eraseOthers")
  /\ UNCHANGED <<users, signIns, ledger, approvals, trail, usage>>

eraseAudit(r) ==
  /\ req[r].at = "eraseAudit"
  /\ Record("profile.erased", req[r].who)
  /\ Go(r, "eraseOthers")
  /\ UNCHANGED <<mirror, ledger, approvals, usage>>

\* The erasers of the catalogue and of quotes, either of which may throw.
eraseOthers(r) ==
  /\ req[r].at = "eraseOthers"
  /\ Go(r, "redact") \/ Answer(r, "failed")
  /\ UNCHANGED <<mirror, ledger, approvals, trail, usage>>

eraseActivity_skipped(r) ==
  /\ req[r].at = "redact"
  /\ Go(r, "tombstone")
  /\ UNCHANGED <<mirror, ledger, approvals, trail, usage>>

eraseActivity(r) ==
  /\ req[r].at = "redact"
  /\ signIns' = {IF s.who = req[r].who THEN [s EXCEPT !.activity = FALSE] ELSE s : s \in signIns}
  /\ Go(r, "tombstone")
  /\ UNCHANGED <<users, profiles, ledger, approvals, trail, usage>>

eraseAndTombstone(r) ==
  /\ req[r].at = "tombstone"
  /\ users' = [users EXCEPT ![req[r].who].deleted = TRUE,
                            ![req[r].who].email = tombstoneEmail(req[r].who)]
  /\ Go(r, "deleteAudit")
  /\ UNCHANGED <<profiles, signIns, ledger, approvals, trail, usage>>

deleteAudit(r) ==
  /\ req[r].at = "deleteAudit"
  /\ Record("account.deletion_requested", req[r].who)
  /\ IF req[r].op = "webhook" THEN Go(r, "mark") ELSE Answer(r, "deleted")
  /\ UNCHANGED <<mirror, ledger, approvals, usage>>
-----------------------------------------------------------------------------
(* The provider's events, delivered at least once and in no order.              *)

applyEvent(r, d) ==
  /\ Start(r, "claim", "webhook", Events[d].who, Events[d].email, d, None)
  /\ UNCHANGED <<mirror, ledger, approvals, trail, usage>>

claim_checked(r) ==
  /\ req[r].at = "claim"
  /\ IF ledger[req[r].arg] # "processed"
     THEN /\ ledger' = [ledger EXCEPT ![req[r].arg] = "claimed"]
          /\ Go(r, Events[req[r].arg].type)
     ELSE Answer(r, "duplicate") /\ UNCHANGED ledger
  /\ UNCHANGED <<mirror, approvals, trail, usage>>

claim(r) ==
  /\ req[r].at = "claim"
  /\ IF ledger[req[r].arg] = "unseen"
     THEN /\ ledger' = [ledger EXCEPT ![req[r].arg] = "claimed"]
          /\ Go(r, Events[req[r].arg].type)
     ELSE Answer(r, "duplicate") /\ UNCHANGED ledger
  /\ UNCHANGED <<mirror, approvals, trail, usage>>

apply_unmarked(r) ==
  LET u == findByClerkUserId(req[r].who) IN
  /\ \/ req[r].at = "user.upserted" /\ Go(r, "upsert")
     \/ req[r].at = "user.deleted"
        /\ IF u = None \/ u.deleted THEN Go(r, "mark") ELSE GoWith(r, "erase", u)
     \/ req[r].at = "session.recorded"
        /\ IF u = None THEN Answer(r, "ignored") ELSE Go(r, "signIn")
  /\ UNCHANGED <<mirror, ledger, approvals, trail, usage>>

apply(r) ==
  LET u == findByClerkUserId(req[r].who) IN
  /\ \/ req[r].at = "user.upserted" /\ Go(r, "upsert")
     \/ req[r].at = "user.deleted"
        /\ IF u = None \/ u.deleted THEN Go(r, "mark") ELSE GoWith(r, "erase", u)
     \/ req[r].at = "session.recorded"
        /\ IF u = None THEN Go(r, "mark") ELSE Go(r, "signIn")
  /\ UNCHANGED <<mirror, ledger, approvals, trail, usage>>

\* One row for each session and event, made once: a second delivery changes nothing.
recordAuthenticationEvent(r) ==
  /\ req[r].at = "signIn"
  /\ signIns' = IF \E s \in signIns : s.session = Events[req[r].arg].session
                THEN signIns
                ELSE signIns \cup {[who |-> req[r].who, session |-> Events[req[r].arg].session,
                                    activity |-> TRUE, late |-> users[req[r].who].deleted]}
  /\ Go(r, "mark")
  /\ UNCHANGED <<users, profiles, ledger, approvals, trail, usage>>

markProcessed(r) ==
  /\ req[r].at = "mark"
  /\ ledger' = [ledger EXCEPT ![req[r].arg] = "processed"]
  /\ Answer(r, "applied")
  /\ UNCHANGED <<mirror, approvals, trail, usage>>

\* An exception, or the process dying: what was written stays written.
fail(r) ==
  /\ "fail" \in usage.ops
  /\ Waits(r)
  /\ Answer(r, "failed")
  /\ UNCHANGED <<mirror, ledger, approvals, trail, usage>>
=============================================================================
