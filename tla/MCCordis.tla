------------------------------ MODULE MCCordis ------------------------------
(* An instance of Cordis for TLC. *)
EXTENDS Cordis, TLC

CONSTANTS root, left, right, user, k1, k2

\* The root owns a provider and its consumer, and the consumer owns a rival of the provider.
Tree == root :> NoOne @@ left :> root @@ user :> root @@ right :> user
Needs == root :> {} @@ left :> {} @@ right :> {} @@ user :> {k1}
Offers == root :> <<>> @@ left :> <<k2, k1>> @@ right :> <<k2>> @@ user :> <<>>
Ids == root :> 1 @@ left :> 2 @@ right :> 3 @@ user :> 4
Turns == root :> 1 @@ left :> 3 @@ right :> 1 @@ user :> 2
=============================================================================
