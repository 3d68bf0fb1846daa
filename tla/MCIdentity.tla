----------------------------- MODULE MCIdentity -----------------------------
EXTENDS Identity, TLC

CONSTANTS ann, bob, cat, e1, e2, e3, e4, d1, d2, d3

mcFounders == ann :> e1 @@ bob :> e2 @@ cat :> None

Event(type, who, email, session) ==
  [type |-> type, who |-> who, email |-> email, session |-> session]

mcEvents ==
  d1 :> Event("user.upserted", cat, e3, None) @@ d2 :> Event("user.deleted", cat, None, None)
  @@ d3 :> Event("session.recorded", cat, None, "s1")

Own == ann :> {e1} @@ bob :> {e2} @@ cat :> {e3}
New == ann :> {e1} @@ bob :> {e2} @@ cat :> {e1, e4}

\* One person's requests beside the provider's deliveries; administrators in several
\* tabs; and everything one request at a time.
mcUsages ==
  { [serial |-> FALSE, ops |-> {"save", "delete", "webhook", "fail"}, who |-> {cat}, emails |-> New],
    [serial |-> FALSE, ops |-> {"propose", "approve", "cancel", "expire"}, who |-> {ann, bob}, emails |-> Own],
    [serial |-> FALSE, ops |-> {"suspend", "reinstate", "fail"}, who |-> {ann, bob}, emails |-> Own],
    [serial |-> TRUE, ops |-> {"suspend", "reinstate", "view", "propose", "approve", "cancel"},
     who |-> {ann, bob}, emails |-> Own],
    [serial |-> TRUE, ops |-> {"save", "delete", "export", "webhook", "fail"}, who |-> {cat}, emails |-> New] }

mcSymmetry == Permutations(Requests)
=============================================================================
