---------------------------- MODULE MCMyClient ----------------------------
(* MyClient for TLC: callers are interchangeable, they only own ids. *)
EXTENDS MyClient, TLC

CallerSymmetry == Permutations(Callers)
=============================================================================
