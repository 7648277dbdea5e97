---------------------------- MODULE MCHostWorker ----------------------------
(* Small instances of HostWorker for TLC. *)
EXTENDS HostWorker, TLC

\* Hosts are interchangeable: no definition tells one from another.
HostSymmetry == Permutations(Hosts)
=============================================================================
