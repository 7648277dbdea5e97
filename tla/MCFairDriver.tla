---------------------------- MODULE MCFairDriver ----------------------------
(* Small instances of FairDriver for TLC. *)
EXTENDS FairDriver

\* One slot in each scope.
Apart == [e \in Effects |-> e]

\* Everything in one scope.
OneScope == [e \in Effects |-> 1]

AnyRoster == SUBSET Scopes \ {{}}
=============================================================================
