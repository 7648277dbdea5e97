---------------------------- MODULE MCCordisCalls ----------------------------
(* An instance of CordisCalls for TLC. *)
EXTENDS CordisCalls, TLC

CONSTANTS h1, h2

\* One executor that fails more often, and two that overlap.
FaultsOfTeams == {h1} :> 3 @@ {h1, h2} :> 1
=============================================================================
