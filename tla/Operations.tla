----------------------------- MODULE Operations -----------------------------
(***************************************************************************)
(* What runs on the box: the processes with the gates their requests pass, *)
(* and the commands that put one release of them in place of another.      *)
(* They share no state: a behaviour is one process, or a line of commands. *)
(***************************************************************************)
EXTENDS Gates, Release

VARIABLE watch

operationsVars == <<watch, platformVars, releaseVars>>

\* One of the initial states of what is not watched.
PlatformAtRest == service = "api" /\ route = "limited"
ReleaseAtRest == serial

OperationsInit ==
  /\ PlatformInit /\ ReleaseInit
  /\ watch \in {"process", "release"}
  /\ watch = "process" \/ PlatformAtRest
  /\ watch = "release" \/ ReleaseAtRest

WatchProcess == watch = "process" /\ PlatformNext /\ UNCHANGED <<watch, releaseVars>>
WatchRelease == watch = "release" /\ ReleaseNext /\ UNCHANGED <<watch, platformVars>>

OperationsNext == WatchProcess \/ WatchRelease

OperationsSpec == OperationsInit /\ [][OperationsNext]_operationsVars

=============================================================================
