------------------------------ MODULE Identity ------------------------------
(***************************************************************************)
(* The identity module as a whole: people and administrators at work,      *)
(* beside the provider's deliveries.                                       *)
(***************************************************************************)
EXTENDS Administration

Init ==
  /\ users = [p \in People |->
                IF Founders[p] = None THEN None
                ELSE [email |-> Founders[p], role |-> "ADMIN", deleted |-> FALSE, suspended |-> None]]
  /\ profiles = {} /\ signIns = {}
  /\ ledger = [d \in Deliveries |-> "unseen"]
  /\ approvals = [a \in Proposals |-> None]
  /\ trail = {}
  /\ usage \in Usages
  /\ req = [r \in Requests |-> Idle]

Asks(ops) == ops \cap usage.ops

NewRequest(r) ==
  /\ MayStart(r)
  /\ \/ \E d \in Deliveries : applyEvent(r, d)
     \/ \E p \in usage.who : \E e \in usage.emails[p] :
          \/ \E op \in Asks({"save", "delete", "export"}) : canActivate(r, op, p, e, None, None)
          \/ \E op \in Asks({"suspend", "reinstate", "view"}), t \in People :
               canActivate(r, op, p, e, t, None)
          \/ \E op \in Asks({"propose"}), t \in People, role \in Roles : canActivate(r, op, p, e, t, role)
          \/ \E op \in Asks({"approve", "cancel"}), a \in Proposals : canActivate(r, op, p, e, a, None)

DirectoryStep(r) ==
  \/ upsert(r) \/ create(r) \/ raced(r) \/ provisioned(r)
  \/ resolveSession(r) \/ correctEmail(r) \/ corrected(r) \/ authorise(r)

OwnStep(r) ==
  \/ saveMine(r) \/ save(r) \/ saveAudit(r) \/ exportFor(r) \/ exportAudit(r)
  \/ requestDeletion(r) \/ eraseFor(r) \/ erase(r) \/ eraseAudit(r) \/ eraseOthers(r)
  \/ eraseActivity(r) \/ eraseAndTombstone(r) \/ deleteAudit(r)

DeliveryStep(r) == claim(r) \/ apply(r) \/ recordAuthenticationEvent(r) \/ markProcessed(r)

AdminStep(r) ==
  \/ view(r) \/ adminViewFor(r)
  \/ suspend(r) \/ suspendCount(r) \/ reinstate(r) \/ setSuspension(r) \/ suspensionAudit(r)
  \/ proposeRoleChange(r) \/ proposeCount(r) \/ proposeAudit(r)
  \/ approve(r) \/ approveTarget(r) \/ approveCount(r) \/ approveAndApply(r)
  \/ cancelApproval(r) \/ cancel(r) \/ decisionAudit(r)
  \/ \E a \in Proposals : propose(r, a)

Next ==
  \/ \E r \in Requests :
       NewRequest(r) \/ DirectoryStep(r) \/ OwnStep(r) \/ DeliveryStep(r) \/ AdminStep(r) \/ fail(r)
  \/ \E a \in Proposals : expire(a)

Spec == Init /\ [][Next]_vars
-----------------------------------------------------------------------------
\* Every table holds rows of its shape, and no address is held twice: the row a
\* request writes to is there, whatever happened since it was read.
TypeOK ==
  /\ users \in [People -> Row \cup {None}]
  /\ \A p, q \in People :
       p # q /\ users[p] # None /\ users[q] # None => users[p].email # users[q].email
  /\ profiles \subseteq {p \in People : users[p] # None}
  /\ ledger \in [Deliveries -> {"unseen", "claimed", "processed"}]
  /\ approvals \in [Proposals -> Approval \cup {None}]

\* A role changes only in the step in which a second administrator's approval of that
\* very change takes effect, while the proposal is undecided and its window is open,
\* however requests to approve, cancel and correct the account interleave.
RoleChangesTakeTwo ==
  [][\A p \in People :
       users[p] # None /\ users'[p] # None /\ users'[p].role # users[p].role =>
         \E a \in Proposals :
           /\ approvals[a] # None
           /\ approvalState(approvals[a]) = "pending"
           /\ approvals[a].who = p /\ approvals[a].role = users'[p].role
           /\ approvals'[a].approvedBy \notin {None, approvals[a].by}]_vars

\* A proposal is approved or cancelled, once: whichever decision is written second
\* conflicts, and neither what was proposed nor who decided ever changes.
DecidedOnce ==
  [][\A a \in Proposals :
       approvals[a] # None =>
         /\ approvals'[a] # None
         /\ approvals'[a].by = approvals[a].by /\ approvals'[a].who = approvals[a].who
         /\ approvalState(approvals[a]) \in {"approved", "cancelled"} =>
              /\ approvals'[a].approvedBy = approvals[a].approvedBy
              /\ approvals'[a].cancelledBy = approvals[a].cancelledBy]_vars

Applying(r, d) ==
  req[r].op = "webhook" /\ req[r].arg = d /\ (req[r].at \notin {"claim", "done"} \/ req[r].out = "applied")

\* A delivery is applied by one of the requests that carry it, however many times the
\* provider repeats it and whenever the repetitions arrive.
AppliedOnce ==
  \A d \in Deliveries : \A r, q \in Requests : Applying(r, d) /\ Applying(q, d) => r = q

\* The ledger tells what became of a delivery: one left claimed is being applied or
\* was interrupted, and one marked processed was applied to its end.
LedgerIsTruthful ==
  \A d \in Deliveries :
    /\ ledger[d] = "claimed" =>
         \E r \in Requests : /\ req[r].op = "webhook" /\ req[r].arg = d
                             /\ Applying(r, d) \/ req[r].out \in {"failed", "conflict"}
    /\ ledger[d] = "processed" =>
         \E r \in Requests : req[r].op = "webhook" /\ req[r].arg = d /\ req[r].out = "applied"

HoldsSignIn(p, which) == \E s \in signIns : s.who = p /\ s.activity /\ s.late \in which

Holds(p, which) == p \in profiles \/ users[p].email # tombstoneEmail(p) \/ HoldsSignIn(p, which)

Deleted == {p \in People : users[p] # None /\ users[p].deleted}

\* An account marked deleted holds nothing of the person: no profile, no address of
\* theirs, no device or network address on a sign-in.
DeletedHoldsNothing == \A p \in Deleted : ~Holds(p, BOOLEAN)

\* It does when requests and deliveries are served one at a time, but for the sign-ins
\* recorded after the deletion: a failure part-way, at any step of the erasure, leaves an
\* account that is not marked deleted, and the deletion asked for again goes through all
\* of it.
DeletedHoldsNothingInTurn == usage.serial => \A p \in Deleted : ~Holds(p, {FALSE})

\* When administrators act one at a time, suspensions and role changes always leave
\* somebody who can administer the platform.
AdministrableInTurn ==
  usage.serial /\ Asks({"delete", "webhook"}) = {} => \E p \in People : Usable(p)

=============================================================================
