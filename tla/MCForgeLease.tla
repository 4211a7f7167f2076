---------------------------- MODULE MCForgeLease ----------------------------
(* ForgeLease for TLC: pods are interchangeable.                           *)
EXTENDS ForgeLease, TLC

PodSymmetry == Permutations(Pod)
=============================================================================
