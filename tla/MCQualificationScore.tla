----------------------- MODULE MCQualificationScore -----------------------
(***************************************************************************)
(* The scoring of benchmark results, checked over every count up to a most *)
(* and every target, and over short rosters.                               *)
(***************************************************************************)
EXTENDS QualificationScore, SequencesExt

Most == 60
Counts == {c \in (0..12) \X (0..12) : c[2] <= c[1]} \cup {<<n, p>> : n \in {58, 59, 60}, p \in {0, 30, 57, 58}}

(* The numbers a score promises are the least that decide the role         *)
(* (qualification.mjs:289-349): so many further results do, none fewer, and*)
(* "no finite solution" is said only when no count up to the largest does. *)
ASSUME SearchIsLeast ==
    \A c \in Counts, tenths \in 0..10 :
        LET n == c[1]
            passes == c[2]
            more == ExtraPasses(n, passes, tenths, Most)
            fails == ExtraFailures(n, passes, tenths, Most)
            qualifies(e) == ScoreStatus(n + e, passes + e, tenths) = "qualified"
            ruledOut(e) == ScoreStatus(n + e, passes, tenths) = "not_qualified"
        IN  /\ IF more.reason = "no_finite_solution" THEN \A e \in 0..Most - n : ~qualifies(e)
               ELSE qualifies(more.count) /\ \A e \in 0..more.count - 1 : ~qualifies(e)
            /\ IF fails.reason = "no_finite_solution" THEN \A e \in 0..Most - n : ~ruledOut(e)
               ELSE ruledOut(fails.count) /\ \A e \in 0..fails.count - 1 : ~ruledOut(e)

(* A status follows the results at every count up to the most.             *)
ASSUME StatusFollowsResults ==
    \A c \in Counts, tenths \in 0..10 : c[1] > 0 => StatusFollows(c[1], c[2], tenths)

(* A record that stands counts every observed attempt once: no result can  *)
(* be told twice, and no count can differ from the results it names.       *)
ScoredResults == [invocation : {"i", "j"}, attempt : {"a", "b"}, passed : BOOLEAN]
ScoredEntries ==
    {[challenge |-> c, n |-> Len(r), passes |-> p, results |-> r] :
        c \in {"x", "y"}, p \in 0..2, r \in BoundedSeq(ScoredResults, 2)}
ASSUME AttemptsCountOnce ==
    \A first \in ScoredEntries, second \in {e \in ScoredEntries : Len(e.results) = 1} :
        LET entries == <<first, second>>
            observed == {<<r.invocation, r.attempt>> : r \in Range(first.results) \cup Range(second.results)}
            stated == [RoleScore(entries, 8, Most) EXCEPT !.passes = first.passes + second.passes]
        IN  RoleScoreValid(stated, Most) =>
                /\ stated.n = Cardinality(observed) /\ first.challenge # second.challenge
                /\ stated.passes = Cardinality({o \in observed : \E r \in Range(first.results) \cup Range(second.results) :
                                                   <<r.invocation, r.attempt>> = o /\ r.passed})

(* A roster asks for every repetition of every challenge, once.            *)
Lists == {<<"x">>, <<"y">>, <<"x", "y">>, <<"x", "x">>}
Expectations == [challenge : {"x", "y"}, repetitions : {<<1>>, <<2>>, <<1, 2>>, <<2, 1>>}]
Rosters ==
    {[challenges |-> [i \in DOMAIN ids |-> [id |-> ids[i], visible |-> <<"v">>, heldOut |-> held]],
      invocations |-> <<[id |-> "i", path |-> "p", repeat |-> r, expected |-> e],
                        [id |-> j, path |-> "q", repeat |-> r, expected |-> e]>>] :
        ids \in Lists, held \in {<<>>, <<"h">>, <<"h", "h">>}, r \in 0..2, j \in {"i", "j"}, e \in BoundedSeq(Expectations, 2)}
ASSUME RostersAreComplete ==
    \A roster \in Rosters : RosterValid(roster) =>
        LET ids == {roster.challenges[i].id : i \in DOMAIN roster.challenges}
            asked == UNION {UNION {{<<roster.invocations[i].id, roster.invocations[i].expected[k].challenge, r>> :
                                        r \in Range(roster.invocations[i].expected[k].repetitions)} :
                                   k \in DOMAIN roster.invocations[i].expected} : i \in DOMAIN roster.invocations}
        IN  asked = UNION {{<<roster.invocations[i].id, id, r>> : id \in ids, r \in 1..roster.invocations[i].repeat} :
                               i \in DOMAIN roster.invocations}
=============================================================================
