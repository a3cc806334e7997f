---- MODULE MCFindings ----
(* The instance: hosts are interchangeable. *)
EXTENDS Findings, TLC

HostSymmetry == Permutations(Hosts)
====
