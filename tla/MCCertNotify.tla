----------------------------- MODULE MCCertNotify -----------------------------
(***************************************************************************)
(* CertNotify with days of two units and thresholds of one and two days:    *)
(* two certificates under one label, both on the token at first or only one *)
(* that is replaced by the other.  When the clock stops one is expired by a *)
(* day and the other in its last.                                           *)
(***************************************************************************)
EXTENDS CertNotify

C(hsm, ref, notAfter) == [hsm |-> hsm, ref |-> ref, notAfter |-> notAfter]
MCCerts == {C("h1", "web", 5), C("h1", "web", 1)}

NoMishaps == [k \in MishapKinds |-> 0]
AllMishaps == [k \in MishapKinds |-> 1]
Replacing == [NoMishaps EXCEPT !.replace = 1]

\* The token has one certificate; the only other one is its successor.
Old == C("h1", "web", 1)
RenewedCerts == {Old, C("h1", "web", 6)}
RenewedSpec == Init /\ present = {Old} /\ [][Next]_vars
================================================================================
