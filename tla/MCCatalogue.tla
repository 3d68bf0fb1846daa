---------------------------- MODULE MCCatalogue ----------------------------
EXTENDS Catalogue, TLC

\* Version 1 asks an optional question.  Version 2 drops it, requires an answer to
\* another one and offers transport.
mcFirst == [keys |-> {"k"}, required |-> {}, transports |-> {}]
mcConfigurations == {[keys |-> {"j"}, required |-> {"j"}, transports |-> {"van"}]}

Full(answers, transport) ==
  [described |-> TRUE, daily |-> TRUE, answers |-> answers, transport |-> transport]
Bare == [described |-> FALSE, daily |-> FALSE, answers |-> {}, transport |-> None]

mcForms ==
  { [version |-> 1, content |-> Full({"k"}, None), postcode |-> "here"],
    [version |-> 1, content |-> Full({}, None), postcode |-> "there"],
    [version |-> 1, content |-> Bare, postcode |-> None],
    [version |-> 2, content |-> Full({"j"}, "van"), postcode |-> "here"] }

OneForm == {[version |-> 1, content |-> Full({"k"}, None), postcode |-> "here"]}

BareForm == {[version |-> 1, content |-> Bare, postcode |-> None]}

ThreeForms == {f \in mcForms : f.version = 1}

\* An owner who waits for each reply, beside administrators and beside renters; the
\* same owner in two tabs; photographs and erasure; and what publication and erasure depend on.
mcUsages ==
  { [serial |-> TRUE, forms |-> mcForms,
     ops |-> {"create", "edit", "publish", "moderate", "reconfigure"}],
    [serial |-> TRUE, forms |-> ThreeForms, ops |-> {"create", "edit", "publish", "book", "erase"}],
    [serial |-> FALSE, forms |-> mcForms, ops |-> {"create", "edit", "publish", "reconfigure"}],
    [serial |-> FALSE, forms |-> BareForm, ops |-> {"create", "add", "remove", "reorder", "erase"}],
    [serial |-> FALSE, forms |-> OneForm, ops |-> {"create", "publish", "moderate", "book", "erase"}],
    [serial |-> FALSE, forms |-> OneForm, ops |-> {"create", "publish", "pause", "declare", "flip"}] }

mcSymmetry == Permutations(PhotoIds) \cup Permutations(Requests)
============================================================================
