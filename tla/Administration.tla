--------------------------- MODULE Administration ---------------------------
(***************************************************************************)
(* What administrators do to accounts: suspending and reinstating, looking *)
(* at one, and changing a role, which takes two of them                    *)
(* (apps/api/src/identity).                                                *)
(***************************************************************************)
EXTENDS Accounts

Approval == [who : People, role : Roles, by : People, approvedBy : People \cup {None},
             cancelledBy : People \cup {None}, expired : BOOLEAN]

ASSUME AdministrationAssumption == None \notin Approval

Usable(p) == users[p] # None /\ users[p].role = "ADMIN" /\ ~users[p].deleted /\ users[p].suspended = None

countAdministrators == Cardinality({p \in People : Usable(p)})

\* Whether an action on an account as it was read needs the count at all.
NeedsCount(target, becoming) == becoming # "ADMIN" /\ target.role = "ADMIN"

refuseIfLastAdministrator_offByOne(r, next) ==
  IF countAdministrators < 1 THEN Answer(r, "refused") ELSE Go(r, next)

\* The count is read here; the write it allows is another statement.
refuseIfLastAdministrator(r, next) ==
  IF countAdministrators <= 1 THEN Answer(r, "refused") ELSE Go(r, next)

readOnly == UNCHANGED <<mirror, ledger, approvals, trail, usage>>

view(r) ==
  /\ req[r].at = "view"
  /\ Record("admin.user_viewed", req[r].arg)
  /\ Go(r, "viewRead")
  /\ UNCHANGED <<mirror, ledger, approvals, usage>>

adminViewFor(r) ==
  /\ req[r].at = "viewRead"
  /\ Answer(r, IF findById(req[r].arg) = None THEN "not found" ELSE "viewed")
  /\ readOnly
-----------------------------------------------------------------------------
requireSuspendable(p) == findById(p) # None /\ ~findById(p).deleted

suspend(r) ==
  LET t == req[r].arg IN
  /\ req[r].at = "suspend"
  /\ IF t = req[r].who \/ ~requireSuspendable(t) \/ findById(t).suspended # None
     THEN Answer(r, "refused")
     ELSE GoWith(r, IF NeedsCount(findById(t), None) THEN "suspendCount" ELSE "suspendWrite",
                 findById(t))
  /\ readOnly

suspendCount(r) ==
  /\ req[r].at = "suspendCount"
  /\ refuseIfLastAdministrator(r, "suspendWrite")
  /\ readOnly

reinstate(r) ==
  LET t == req[r].arg IN
  /\ req[r].at = "reinstate"
  /\ IF ~requireSuspendable(t) \/ findById(t).suspended = None
     THEN Answer(r, "refused")
     ELSE GoWith(r, "reinstateWrite", findById(t))
  /\ readOnly

setSuspension(r) ==
  /\ req[r].at \in {"suspendWrite", "reinstateWrite"}
  /\ users' = [users EXCEPT ![req[r].arg].suspended =
                              IF req[r].op = "suspend" THEN req[r].who ELSE None]
  /\ Go(r, "suspensionAudit")
  /\ UNCHANGED <<profiles, signIns, ledger, approvals, trail, usage>>

suspensionAudit(r) ==
  /\ req[r].at = "suspensionAudit"
  /\ Record(IF req[r].op = "suspend" THEN "account.suspended" ELSE "account.reinstated", req[r].arg)
  /\ Answer(r, "done")
  /\ UNCHANGED <<mirror, ledger, approvals, usage>>
-----------------------------------------------------------------------------
(* Role changes.  The argument of a proposal is the account, of a decision the  *)
(* proposal.                                                                    *)

approvalState(a) ==
  CASE a.approvedBy # None  -> "approved"
    [] a.cancelledBy # None -> "cancelled"
    [] a.expired            -> "expired"
    [] OTHER                -> "pending"

proposeRoleChange(r) ==
  LET t == findById(req[r].arg) IN
  /\ req[r].at = "propose"
  /\ IF t = None THEN Answer(r, "refused")
     ELSE IF t.deleted \/ t.role = req[r].role THEN Answer(r, "refused")
     ELSE GoWith(r, IF NeedsCount(t, req[r].role) THEN "proposeCount" ELSE "proposeWrite", t)
  /\ readOnly

proposeCount(r) ==
  /\ req[r].at = "proposeCount"
  /\ refuseIfLastAdministrator(r, "proposeWrite")
  /\ readOnly

propose(r, a) ==
  /\ req[r].at = "proposeWrite"
  /\ approvals[a] = None
  /\ approvals' = [approvals EXCEPT ![a] =
       [who |-> req[r].arg, role |-> req[r].role, by |-> req[r].who,
        approvedBy |-> None, cancelledBy |-> None, expired |-> FALSE]]
  /\ Go(r, "proposeAudit")
  /\ UNCHANGED <<mirror, ledger, trail, usage>>

proposeAudit(r) ==
  /\ req[r].at = "proposeAudit"
  /\ Record("admin.approval_proposed", req[r].arg)
  /\ Answer(r, "done")
  /\ UNCHANGED <<mirror, ledger, approvals, usage>>

\* No such proposal is a refusal; one already decided or expired is a conflict.
requirePending(a) ==
  IF approvals[a] = None THEN "refused"
  ELSE IF approvalState(approvals[a]) = "pending" THEN "pending" ELSE "conflict"

approve(r) ==
  /\ req[r].at = "approve"
  /\ IF requirePending(req[r].arg) # "pending" THEN Answer(r, requirePending(req[r].arg))
     ELSE IF approvals[req[r].arg].by = req[r].who THEN Answer(r, "refused")
     ELSE Go(r, "approveTarget")
  /\ readOnly

approveTarget(r) ==
  LET a == approvals[req[r].arg] t == findById(a.who) IN
  /\ req[r].at = "approveTarget"
  /\ IF t = None THEN Answer(r, "refused")
     ELSE IF t.deleted THEN Answer(r, "refused")
     ELSE GoWith(r, IF NeedsCount(t, a.role) THEN "approveCount" ELSE "approveWrite", t)
  /\ readOnly

approveCount(r) ==
  /\ req[r].at = "approveCount"
  /\ refuseIfLastAdministrator(r, "approveWrite")
  /\ readOnly

\* The rows the conditional update claims.
Claimable(a, by) ==
  a.approvedBy = None /\ a.cancelledBy = None /\ ~a.expired /\ a.by # by

approveAndApply_unclaimed(r) ==
  LET a == approvals[req[r].arg] IN
  /\ req[r].at = "approveWrite"
  /\ approvals' = [approvals EXCEPT ![req[r].arg].approvedBy = req[r].who]
  /\ users' = [users EXCEPT ![a.who].role = a.role]
  /\ Go(r, "approveAudit")
  /\ UNCHANGED <<profiles, signIns, ledger, trail, usage>>

approveAndApply(r) ==
  LET a == approvals[req[r].arg] IN
  /\ req[r].at = "approveWrite"
  /\ IF Claimable(a, req[r].who)
     THEN /\ approvals' = [approvals EXCEPT ![req[r].arg].approvedBy = req[r].who]
          /\ users' = [users EXCEPT ![a.who].role = a.role]
          /\ Go(r, "approveAudit")
     ELSE Answer(r, "conflict") /\ UNCHANGED <<approvals, users>>
  /\ UNCHANGED <<profiles, signIns, ledger, trail, usage>>

cancelApproval(r) ==
  /\ req[r].at = "cancel"
  /\ IF requirePending(req[r].arg) = "pending" THEN Go(r, "cancelWrite")
     ELSE Answer(r, requirePending(req[r].arg))
  /\ readOnly

\* A proposal that expired since it was read can still be withdrawn.
cancel(r) ==
  LET a == approvals[req[r].arg] IN
  /\ req[r].at = "cancelWrite"
  /\ IF a.approvedBy = None /\ a.cancelledBy = None
     THEN /\ approvals' = [approvals EXCEPT ![req[r].arg].cancelledBy = req[r].who]
          /\ Go(r, "cancelAudit")
     ELSE Answer(r, "conflict") /\ UNCHANGED approvals
  /\ UNCHANGED <<mirror, ledger, trail, usage>>

decisionAudit(r) ==
  /\ req[r].at \in {"approveAudit", "cancelAudit"}
  /\ Record(IF req[r].op = "approve" THEN "admin.approval_granted" ELSE "admin.approval_cancelled",
            approvals[req[r].arg].who)
  /\ Answer(r, "done")
  /\ UNCHANGED <<mirror, ledger, approvals, usage>>

\* APPROVAL_WINDOW_HOURS pass.
expire(a) ==
  /\ approvals[a] # None /\ "expire" \in usage.ops
  /\ ~approvals[a].expired
  /\ approvals' = [approvals EXCEPT ![a].expired = TRUE]
  /\ UNCHANGED <<mirror, ledger, trail, usage, req>>
=============================================================================
