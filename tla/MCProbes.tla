------------------------------- MODULE MCProbes -------------------------------
(***************************************************************************)
(* Probes on a token with one private key and one certificate, and room for *)
(* the objects of the largest probe.                                        *)
(***************************************************************************)
EXTENDS Probes

CONSTANTS c1, c2, k, x, t1, t2, t3, t4

MCStored == [h \in {k, x} |-> IF h = k THEN "private" ELSE "certificate"]
MCPrograms == {signVerifyProfile, keyWrappingProfile, RunTests} \cup Primitives
Alike == Permutations({t1, t2, t3, t4}) \cup Permutations({c1, c2})
================================================================================
