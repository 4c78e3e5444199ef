------------------------ MODULE QualificationScore ------------------------
(***************************************************************************)
(* How benchmark results are scored (src/qualification.mjs): the roster of *)
(* what was to be run, the results of each challenge, and a role's score   *)
(* with the status its Wilson interval gives against the role's target and *)
(* the number of further passes, or failures, that would decide it.        *)
(*                                                                         *)
(* Targets are tenths.  The interval is never computed: its ends stand on  *)
(* a side of the target when the target lies outside the set of shares the *)
(* count does not reject, and 625 * 1.96^2 = 2401.                         *)
(***************************************************************************)
EXTENDS Integers, Sequences, FiniteSets, Functions

Rejects(n, passes, tenths) == 625 * (10 * passes - tenths * n) * (10 * passes - tenths * n)
Spread(n, tenths) == 2401 * n * tenths * (10 - tenths)

(* wilsonInterval: the lower end is at least the target; the upper end is  *)
(* below it.  With no result the interval is everything.                   *)
LowerAtLeast(n, passes, tenths) ==
    \/ tenths = 0
    \/ n > 0 /\ 10 * passes > tenths * n /\ Rejects(n, passes, tenths) >= Spread(n, tenths)
UpperUnder(n, passes, tenths) ==
    n > 0 /\ 10 * passes < tenths * n /\ Rejects(n, passes, tenths) > Spread(n, tenths)

(* statusFor                                                               *)
ScoreStatus(n, passes, tenths) ==
    IF n > 0 /\ LowerAtLeast(n, passes, tenths) THEN "qualified"
    ELSE IF n > 0 /\ UpperUnder(n, passes, tenths) THEN "not_qualified"
    ELSE "insufficient_evidence"

(* The next count to try, the largest at the end of the room there is.     *)
Doubled(high, room) == IF high > room \div 2 THEN room ELSE 2 * high

(* The search both minima use: double until the count is enough, then halve*)
(* the interval; 0 when the room ends first.                               *)
Search(enough, room) ==
    LET first[high \in 1..room + 1] ==
            IF high \in enough THEN high
            ELSE IF high >= room THEN 0 ELSE first[Doubled(high, room)]
        least[low \in 0..room, high \in 0..room] ==
            LET middle == low + (high - low) \div 2 IN
            IF low + 1 >= high THEN high
            ELSE IF middle \in enough THEN least[low, middle] ELSE least[middle, high]
    IN  IF first[1] = 0 THEN 0 ELSE least[0, first[1]]

Found(count) == [count |-> count, reason |-> IF count = 0 THEN "no_finite_solution" ELSE "none"]

(* minimumExtraPasses: a lower end never reaches one.                      *)
ExtraPasses(n, passes, tenths, most) ==
    IF n > 0 /\ LowerAtLeast(n, passes, tenths) THEN [count |-> 0, reason |-> "already_qualified"]
    ELSE IF tenths = 10 THEN Found(0)
    ELSE Found(Search({e \in 1..most - n : LowerAtLeast(n + e, passes + e, tenths)}, most - n))

(* minimumExtraFailures: an upper end is never below zero.                 *)
ExtraFailures(n, passes, tenths, most) ==
    IF n > 0 /\ UpperUnder(n, passes, tenths) THEN [count |-> 0, reason |-> "already_not_qualified"]
    ELSE IF tenths = 0 THEN Found(0)
    ELSE Found(Search({e \in 1..most - n : UpperUnder(n + e, passes, tenths)}, most - n))

(* normalizePerChallenge, resultEntry: each challenge once, each observed  *)
(* attempt once in the whole record.                                       *)
PerChallengeValid(entries) ==
    /\ IsInjective([i \in DOMAIN entries |-> entries[i].challenge])
    /\ \A i \in DOMAIN entries : LET results == entries[i].results IN
        /\ entries[i].n = Len(results)
        /\ entries[i].passes = Cardinality({k \in DOMAIN results : results[k].passed})
        /\ \A k \in DOMAIN results, j \in DOMAIN entries : \A l \in DOMAIN entries[j].results :
              <<i, k>> # <<j, l>> => \/ entries[j].results[l].invocation # results[k].invocation
                                     \/ entries[j].results[l].attempt # results[k].attempt

Total(entries, field) == FoldFunction(LAMBDA entry, sum : entry[field] + sum, 0, entries)

(* buildRoleScore                                                          *)
RoleScore(entries, tenths, most) ==
    LET n == Total(entries, "n")
        passes == Total(entries, "passes")
    IN  [n |-> n, passes |-> passes, target |-> tenths, status |-> ScoreStatus(n, passes, tenths),
         extraPasses |-> ExtraPasses(n, passes, tenths, most),
         extraFailures |-> ExtraFailures(n, passes, tenths, most), perChallenge |-> entries]

(* validateRoleScore: what a record says of a role is what its results say.*)
RoleScoreValid(score, most) ==
    PerChallengeValid(score.perChallenge) /\ score = RoleScore(score.perChallenge, score.target, most)

(* validateQualificationRoster: every invocation was to run every challenge*)
(* of the roster, each repetition in order.                                *)
RosterValid(roster) ==
    /\ roster.challenges # <<>> /\ IsInjective([i \in DOMAIN roster.challenges |-> roster.challenges[i].id])
    /\ \A i \in DOMAIN roster.challenges :
          roster.challenges[i].visible # <<>> /\ roster.challenges[i].heldOut # <<>>
          /\ IsInjective(roster.challenges[i].visible) /\ IsInjective(roster.challenges[i].heldOut)
    /\ roster.invocations # <<>>
    /\ IsInjective([i \in DOMAIN roster.invocations |-> roster.invocations[i].id])
    /\ IsInjective([i \in DOMAIN roster.invocations |-> roster.invocations[i].path])
    /\ \A i \in DOMAIN roster.invocations : LET expected == roster.invocations[i].expected IN
        /\ roster.invocations[i].repeat >= 1
        /\ Len(expected) = Len(roster.challenges)
        /\ IsInjective([k \in DOMAIN expected |-> expected[k].challenge])
        /\ \A k \in DOMAIN expected :
              /\ expected[k].challenge \in {roster.challenges[c].id : c \in DOMAIN roster.challenges}
              /\ expected[k].repetitions = [r \in 1..roster.invocations[i].repeat |-> r]
-----------------------------------------------------------------------------
(* A role's status follows its results (qualification.mjs 256-280): one    *)
(* more pass never takes a role from qualified nor rules it out, and one   *)
(* more failure never qualifies it nor takes it back from ruled out.       *)
StatusFollows(n, passes, tenths) ==
    /\ ScoreStatus(n, passes, tenths) = "qualified" => ScoreStatus(n + 1, passes + 1, tenths) = "qualified"
    /\ ScoreStatus(n, passes, tenths) = "not_qualified" => ScoreStatus(n + 1, passes, tenths) = "not_qualified"
    /\ ScoreStatus(n + 1, passes, tenths) = "qualified" => ScoreStatus(n, passes, tenths) = "qualified"
    /\ ScoreStatus(n + 1, passes + 1, tenths) = "not_qualified" => ScoreStatus(n, passes, tenths) = "not_qualified"
=============================================================================
