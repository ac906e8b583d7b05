------------------------------ MODULE Thresholds ------------------------------
\* The decision over simulated weeks: lockin/core/policy.py and
\* lockin/core/winprob.py.
\*
\* A sample is a function over the simulations, a probability the number of
\* half-wins among them (a tie is half a win), and a score a whole number of
\* some unit of a fantasy point, so that a threshold and the score it is
\* compared with are compared exactly; the code's floating-point means and its
\* 1e-9 of slack before rounding up to the grid are that arithmetic.
EXTENDS Integers, FiniteSets, FiniteSetsExt

CONSTANTS
    Sims,       \* the simulations of a week
    Step,       \* SCORE_STEP: scores are multiples of it
    NoScore,    \* the threshold +inf: no score clears it
    AnyScore    \* the threshold -inf: every score clears it

ASSUME SimsAssumption == IsFiniteSet(Sims) /\ Sims # {}
ASSUME StepAssumption == Step \in Nat \ {0}
ASSUME ThresholdsAssumption ==
    NoScore \notin Int /\ AnyScore \notin Int /\ NoScore # AnyScore

Sample == [Sims -> Int]

------------------------------------------------------------------------------
\* Stopping: a threshold for each game, walked in order. A path is one
\* simulation's or one real week's scores by day.

Clears(score, threshold) ==
    /\ threshold # NoScore
    /\ threshold = AnyScore \/ score > threshold

SumOf(f) == MapThenSumSet(LAMBDA x : f[x], DOMAIN f)

Mean(sample) == SumOf(sample) \div Cardinality(Sims)

Later(days, d) == {e \in days : e > d}

\* Backward induction over the days left, on the draws of each of them.
ContinuationValue(draws, days) ==
    LET value[d \in days] ==
            IF Later(days, d) = {} THEN Mean(draws[d])
            ELSE LET riding == value[Min(Later(days, d))]
                 IN  Mean([s \in Sims |->
                        IF draws[d][s] > riding THEN draws[d][s] ELSE riding])
    IN  IF days = {} THEN AnyScore ELSE value[Min(days)]

BasePolicyThresholds(draws, days) ==
    [d \in days |-> IF Later(days, d) = {} THEN NoScore
                    ELSE ContinuationValue(draws, Later(days, d))]

\* As above, banking the last game that clears.
ApplyBasePolicyLate(draws, days, thresholds) ==
    [s \in Sims |->
        LET fires == {d \in days : Clears(draws[d][s], thresholds[d])}
        IN  draws[IF fires = {} THEN Max(days) ELSE Max(fires)][s]]

ApplyBasePolicy(draws, days, thresholds) ==
    [s \in Sims |->
        LET fires == {d \in days : Clears(draws[d][s], thresholds[d])}
        IN  draws[IF fires = {} THEN Max(days) ELSE Min(fires)][s]]

\* What a finished week counts; a threshold may be missing, a score of a game
\* he missed is 0.
ReplayLocks(scores, played, days, thresholds) ==
    {d \in days \cap DOMAIN thresholds :
        played[d] /\ Clears(scores[d], thresholds[d])}

Ride(scores, played, days) == IF played[Max(days)] THEN scores[Max(days)] ELSE 0

Replay(scores, played, days, thresholds) ==
    LET locks == ReplayLocks(scores, played, days, thresholds)
    IN  CASE days = {} -> 0
          [] days # {} /\ locks = {} -> Ride(scores, played, days)
          [] OTHER -> scores[Min(locks)]

------------------------------------------------------------------------------
\* Winning: `rest` is what the team counts without the player, `future` what he
\* goes on to count if his score is passed.

WinProbability(mine, theirs) ==
    2 * Cardinality({s \in Sims : mine[s] > theirs[s]})
      + Cardinality({s \in Sims : mine[s] = theirs[s]})

PassWorth(rest, future, opponent) ==
    WinProbability([s \in Sims |-> rest[s] + future[s]], opponent)

LockWorth(rest, score, opponent) ==
    WinProbability([s \in Sims |-> rest[s] + score], opponent)

EvaluateLock(rest, future, score, opponent) ==
    LockWorth(rest, score, opponent) > PassWorth(rest, future, opponent)

OnGrid(x) == -((-x) \div Step) * Step

Deficit(rest, opponent) == [s \in Sims |-> opponent[s] - rest[s]]

\* A threshold's candidates: the grid scores at and just above each deficit.
Candidates(deficit) ==
    {OnGrid(deficit[s]) : s \in Sims} \cup {OnGrid(deficit[s]) + Step : s \in Sims}

Beaten(deficit, score) ==
    2 * Cardinality({s \in Sims : deficit[s] < score})
      + Cardinality({s \in Sims : deficit[s] = score})

\* As below, taking an indifferent score.
BetterOrEven(rest, future, opponent) ==
    LET deficit == Deficit(rest, opponent)
    IN  {c \in Candidates(deficit) :
            Beaten(deficit, c) >= PassWorth(rest, future, opponent)}

Better(rest, future, opponent) ==
    LET deficit == Deficit(rest, opponent)
    IN  {c \in Candidates(deficit) :
            Beaten(deficit, c) > PassWorth(rest, future, opponent)}

LockThreshold(rest, future, opponent) ==
    LET better == Better(rest, future, opponent)
    IN  IF better = {} THEN NoScore ELSE Min(better)

\* A score at or above the break-even: what a standing rule tells the manager.
AtLeast(score, threshold) == threshold # NoScore /\ score >= threshold
===============================================================================
