---------------------------- MODULE MCOperations -----------------------------
(* The instance of Operations that TLC checks. *)
EXTENDS Operations, TLC

CommandLine ==
  [env |-> "production", tag |-> 0, form |-> "sha", rollback |-> FALSE, status |-> FALSE, help |-> FALSE,
   unknown |-> FALSE, timeout |-> 120, revert |-> TRUE, rehearsal |-> FALSE, docker |-> TRUE,
   envFile |-> TRUE, network |-> TRUE]

\* Every deploy and rollback, with and without --no-rollback, and one command line for each refusal.
MCInvocations ==
  {[CommandLine EXCEPT !.tag = t] : t \in 1..LastTag}
    \cup {[CommandLine EXCEPT !.rollback = TRUE, !.revert = r] : r \in BOOLEAN}
    \cup {[CommandLine EXCEPT !.tag = LastTag, !.revert = FALSE],
          [CommandLine EXCEPT !.tag = 1, !.form = "short"],
          [CommandLine EXCEPT !.tag = 1, !.rollback = TRUE],
          [CommandLine EXCEPT !.tag = 1, !.env = "live"],
          [CommandLine EXCEPT !.tag = 1, !.rehearsal = TRUE],
          [CommandLine EXCEPT !.tag = 1, !.docker = FALSE],
          [CommandLine EXCEPT !.tag = 1, !.unknown = TRUE],
          [CommandLine EXCEPT !.help = TRUE], [CommandLine EXCEPT !.status = TRUE]}

\* Nothing orders the commanders, nor the requests.
MCSymmetry == Permutations(Commanders) \cup Permutations(Requests)
============================================================================
