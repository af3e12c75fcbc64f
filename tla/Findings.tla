------------------------------- MODULE Findings -------------------------------
(***************************************************************************)
(* What all producers of findings share: the severities and their ranks,    *)
(* the stable order of a list of findings and the health score.  The rules  *)
(* of a token, the rules of a KMIP server, the providers and the advisories *)
(* all end here.                                                            *)
(***************************************************************************)
EXTENDS Integers, Sequences, SequencesExt, FiniteSets

Order == <<"critical", "high", "medium", "low", "info">>
Rank(severity) == CHOOSE r \in DOMAIN Order : Order[r] = severity

DefaultScoring == [critical |-> 25, high |-> 10, medium |-> 5, low |-> 2, info |-> 0]

\* What the loop over the findings takes off for each severity, and never below zero.
ScoreBy(penalty, list) ==
    LET off(severity) == penalty[severity] * Cardinality({i \in DOMAIN list : list[i].severity = severity})
        left == 100 - (off("critical") + off("high") + off("medium") + off("low") + off("info"))
    IN  IF left < 0 THEN 0 ELSE left

Score(list) == ScoreBy(DefaultScoring, list)

\* The entries of a list at some of its places, in their order, and all of them as a set.
At(list, places) ==
    LET upTo[i \in 0..Len(list)] ==
            IF i = 0 THEN <<>>
            ELSE IF i \in places THEN Append(upTo[i - 1], list[i]) ELSE upTo[i - 1]
    IN  upTo[Len(list)]
Found(list) == {list[i] : i \in DOMAIN list}

\* Mutant: the ranks compared the other way round.
InsertedMildFirst(sorted, f) ==
    InsertAt(sorted, Cardinality({i \in DOMAIN sorted : Rank(sorted[i].severity) >= Rank(f.severity)}) + 1, f)

\* A finding goes after those of its severity and the more severe.
Inserted(sorted, f) ==
    InsertAt(sorted, Cardinality({i \in DOMAIN sorted : Rank(sorted[i].severity) <= Rank(f.severity)}) + 1, f)

\* sort.SliceStable by rank
BySeverity(list) == FoldLeft(Inserted, <<>>, list)

=============================================================================
