------------------------------- MODULE MCPlane -------------------------------
(* Instances of Plane for TLC: the scopes and manifests of a few installs. *)
EXTENDS Plane, TLC

CONSTANTS top, sub, base, rival, user, part, k1, k2

\* Consumers: base and rival both provide the key that user, in a scope below,
\* requires.
TwoScopes == {top, sub}
TopAndSub == top :> NoOne @@ sub :> top
Market == {base, rival, user}
MarketScope == base :> top @@ rival :> top @@ user :> sub
MarketOwner == [i \in Market |-> NoOne]
MarketRequires == base :> {} @@ rival :> {} @@ user :> {k1}
MarketProvides == base :> <<k1>> @@ rival :> <<k1>> @@ user :> <<>>
Rivals == Permutations({base, rival})

\* Bound: only the consumer's fiber is ever marked failed.
UserFails == \A i \in {base, rival} : ~fiber[i].failed

\* Owners: base provides two keys and owns part, which has an artifact only, in one scope.
OneScope == {top}
TopOnly == top :> NoOne
Family == {base, part}
FamilyScope == [i \in Family |-> top]
FamilyOwner == base :> NoOne @@ part :> base
FamilyRequires == [i \in Family |-> {}]
FamilyProvides == base :> <<k1, k2>> @@ part :> <<>>
=============================================================================
