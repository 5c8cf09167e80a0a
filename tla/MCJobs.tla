------------------------------- MODULE MCJobs -------------------------------
(* Instances of Jobs for TLC. *)
EXTENDS Jobs, TLC

JobSymmetry == Permutations(Jobs)
=============================================================================
