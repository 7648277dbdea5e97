----------------------------- MODULE MCRunLoop -----------------------------
(* Small instances of RunLoop for TLC. *)
EXTENDS RunLoop, TLC

B(s, c, t, w) == [steps |-> s, calls |-> c, tokens |-> t, wall |-> w]

\* One run: a bounded and an unlimited budget, and the 0-token start.
SingleBudgets == {B(3, 2, 3, 1), B(1, 1, Unlimited, 1), B(2, 1, 0, 1)}
NoGrants == {}

\* A parent that can pay for two children, one that can pay for a small one, and
\* grants that fit only sometimes.
ParentBudgets == {B(4, 2, 4, 2), B(2, 1, 3, 1)}
ChildGrants == {B(1, 1, 1, 1), B(2, 1, 2, 1)}

\* Children are interchangeable: no definition tells one from another.
ChildSymmetry == Permutations(Runs \ Roots)
=============================================================================
