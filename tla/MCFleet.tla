-------------------------------- MODULE MCFleet --------------------------------
(***************************************************************************)
(* Two agents, each with a token of its own; the first sees both.           *)
(***************************************************************************)
EXTENDS Fleet, TLC

CONSTANTS a1, a2, n1, n2, s1, s2, f, p1, p2

MCNameOf == a1 :> n1 @@ a2 :> n2
MCSlotsOf == a1 :> <<s1, s2>> @@ a2 :> <<s2>>
MCContents == s1 :> {[keys |-> {f}, days |-> 5], [keys |-> {}, days |-> 7]}
           @@ s2 :> {[keys |-> {f}, days |-> 5]}
Alike == Permutations({p1, p2})
================================================================================
