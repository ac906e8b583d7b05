------------------------------- MODULE Rollout -------------------------------
\* A week walked under the rollout policy (lockin/rollout.py), by the morning
\* digest that advises on it (lockin/digest.py) and by the backtest that
\* replays it once it is over (lockin/backtest.py).
\*
\* The two dates of the code are kept apart throughout: what is observed
\* (knownThrough) and the first night a lock may be taken (actFrom). The paths
\* a player's remaining games are drawn from are external and fixed in advance:
\* what the projection makes of the past is not modelled, nor are the cache of
\* draws (a draw asked for twice is the same) and the opponent's starters' own
\* hazard correction. Players are numbers, ordered as their ids are.
EXTENDS Thresholds, Sequences, SequencesExt

CONSTANTS
    Mine, Theirs,       \* the starters of a roster and of its opponent
    LastDay,            \* bound: the days of a week
    Fixtures,           \* bound: the fixture lists a week is given
    Scores,             \* bound: what a played game is worth
    Out,                \* a game he did not play, or has not yet
    Tables,             \* bound: the draws of a projection, [player -> day -> sample]
    Debuts,             \* bound: from which morning a player can be projected
    ForwardNights,      \* the nights standing rules are printed for
    Polled              \* does an ingest read the opponent's locks?

Players == Mine \cup Theirs
Days == 1..LastDay
Mornings == 1..(LastDay + 1)

ASSUME RolloutAssumption ==
    /\ IsFiniteSet(Mine) /\ IsFiniteSet(Theirs)
    /\ Mine \subseteq Nat /\ Theirs \subseteq Nat /\ Mine \cap Theirs = {}
    /\ LastDay \in Nat \ {0} /\ ForwardNights \in Nat
    /\ \A x \in Scores : x \in Nat /\ x % Step = 0
    /\ Out \notin Scores
    /\ Fixtures \subseteq [Players -> (SUBSET Days) \ {{}}]
    /\ Debuts \subseteq [Players -> Nat]
    /\ Polled \in BOOLEAN
    \* no score is negative (winprob.py apply_base_policy), and the means of the
    \* backward induction are whole numbers of units
    /\ Tables \subseteq [Players -> [Days -> [Sims -> Nat]]]
    /\ \A t \in Tables : \A p \in Players : \A d \in Days : \A s \in Sims :
          t[p][d][s] % (Cardinality(Sims) ^ (LastDay - 1)) = 0

VARIABLES
    fixtures,   \* whose game is on which day
    outcome,    \* what each game came to, Out until it is played
    draws,      \* the projection's draws
    debut,      \* the first morning each player can be projected
    today,      \* the morning: days before it are observed
    bank,       \* who has banked which day's game, on both rosters
    printed     \* what each morning's digest said

vars == <<fixtures, outcome, draws, debut, today, bank, printed>>

------------------------------------------------------------------------------
\* A player's week.

Played(p, d) == outcome[p][d] # Out
Score(p, d) == IF Played(p, d) THEN outcome[p][d] ELSE 0
\* As below, with the day after the last one observed.
SeenTonight(p, known) == {d \in fixtures[p] : d <= known + 1}

Seen(p, known) == {d \in fixtures[p] : d <= known}
Ahead(p, known) == {d \in fixtures[p] : d > known}
FinalScore(p) == Score(p, Max(fixtures[p]))

Projectable(p, asOf) == asOf >= debut[p]

\* A player whose projection is asked for and fails.
Unprojected(p, known) == Ahead(p, known) # {} /\ ~Projectable(p, known + 1)

\* The opponent's assumed thresholds, one for each game played but the last.
GreedyThresholds(p) ==
    [d \in {d \in fixtures[p] : /\ Played(p, d)
                                /\ Ahead(p, d) # {}
                                /\ Projectable(p, d + 1)}
        |-> ContinuationValue(draws[p], Ahead(p, d))]

\* What he goes on to count. Whom it cannot project the backtest rides to his
\* final game's recorded score (ride_unprojectable); a digest raises instead,
\* which is ColdStart of its own morning and WalkFails of one it walks.
Contribution(p, known, actFrom) ==
    LET left == Ahead(p, known)
        base == BasePolicyThresholds(draws[p], left)
    IN  IF left = {} \/ ~Projectable(p, known + 1)
        THEN [s \in Sims |-> FinalScore(p)]
        ELSE ApplyBasePolicy(draws[p], left,
                [d \in left |-> IF d < actFrom THEN NoScore ELSE base[d]])

AtOnce(p, known) == Contribution(p, known, known + 1)

------------------------------------------------------------------------------
\* The opponent's total: banked games as constants, the rest simulated.

\* Locks are a function from the players who are banked to the days of their games.
NoLocks == [p \in {} |-> 0]

\* What a morning's poll tells of the banked: those whose window has closed,
\* and whose latest game does not tie with the one banked.
KnownBank(known, held) ==
    {p \in DOMAIN held :
        LET since == {d \in Seen(p, known) : d > held[p]}
        IN  since # {} /\ Score(p, Max(since)) # Score(p, held[p])}

StandInKnown(p, known) ==
    LET last == Max(Seen(p, known))
        limit == GreedyThresholds(p)
    IN  IF /\ Seen(p, known) # {} /\ Played(p, last) /\ Ahead(p, known) # {}
           /\ last \in DOMAIN limit /\ Clears(Score(p, last), limit[last])
        THEN [s \in Sims |-> Score(p, last)]
        ELSE AtOnce(p, known)

StandInLocks(p, known) ==
    ReplayLocks([d \in Days |-> Score(p, d)], [d \in Days |-> Played(p, d)],
                Seen(p, known), GreedyThresholds(p))

StandIn(p, known) ==
    LET locks == StandInLocks(p, known)
    IN  IF locks # {} THEN [s \in Sims |-> Score(p, Min(locks))] ELSE AtOnce(p, known)

\* `held` is what has been banked, which only a poll sees.
OpponentTotals(known, polled, held) ==
    LET each == [p \in Theirs |->
            IF polled
            THEN IF p \in KnownBank(known, held) THEN [s \in Sims |-> Score(p, held[p])]
                 ELSE StandInKnown(p, known)
            ELSE StandIn(p, known)]
    IN  [s \in Sims |-> SumOf([p \in Theirs |-> each[p][s]])]

------------------------------------------------------------------------------
\* One lock or pass, and the rule for a night: `each` is what every starter not
\* banked goes on to count.

Banked(locked) == SumOf([p \in DOMAIN locked |-> Score(p, locked[p])])
Unlocked(locked) == Mine \ DOMAIN locked

Rest(p, locked, each) ==
    [s \in Sims |-> Banked(locked) + SumOf([q \in Unlocked(locked) \ {p} |-> each[q][s]])]

DecisionFor(p, score, known, locked, opponent) ==
    LET each == [q \in Unlocked(locked) |-> AtOnce(q, known)]
        rest == Rest(p, locked, each)
    IN  [lock |-> EvaluateLock(rest, each[p], score, opponent),
         breakEven |-> LockThreshold(rest, each[p], opponent)]

\* As below, the player's own night bankable in the branch that passes it.
StandingThresholdsRebanked(night, known, locked, opponent) ==
    LET each == [q \in Unlocked(locked) |-> Contribution(q, known, night)]
        asked == {p \in Unlocked(locked) : night \in fixtures[p] /\ Ahead(p, night) # {}}
    IN  [p \in asked |-> LockThreshold(Rest(p, locked, each), each[p], opponent)]

StandingThresholds(night, known, locked, opponent) ==
    LET teammate == [q \in Unlocked(locked) |-> Contribution(q, known, night)]
        asked == {p \in Unlocked(locked) : night \in fixtures[p] /\ Ahead(p, night) # {}}
    IN  [p \in asked |->
            LockThreshold(Rest(p, locked, teammate), Contribution(p, known, night + 1),
                          opponent)]

------------------------------------------------------------------------------
\* walk_locks: every lock the rollout policy would take, day by day, and the
\* strongest candidate of a day first.

\* As below, whether or not his next game has tipped.
WindowClosesEver(p, d, through) == Ahead(p, d) # {}

WindowCloses(p, d, through) == Ahead(p, d) # {} /\ Min(Ahead(p, d)) <= through

Todays(d, through, locked) ==
    {p \in Unlocked(locked) : d \in fixtures[p] /\ Played(p, d) /\ WindowCloses(p, d, through)}

Weakest(players, d) ==
    CHOOSE p \in players : \A q \in players :
        \/ Score(p, d) < Score(q, d)
        \/ Score(p, d) = Score(q, d) /\ p <= q

BankIfBetter(p, d, held, opponent) ==
    IF DecisionFor(p, Score(p, d), d, held, opponent).lock
    THEN [q \in DOMAIN held \cup {p} |-> IF q = p THEN d ELSE held[q]]
    ELSE held

\* One call after another, on what the calls before it left; the fold takes the
\* player it chooses last.
InTurn(d, held, todays, opponent) ==
    MapThenFoldSet(LAMBDA p, before : BankIfBetter(p, d, before, opponent), held,
                   LAMBDA p : p, LAMBDA players : Weakest(players, d), todays)

\* As below, against the opponent's total of the whole week.
WalkDayAfterTheFact(d, through, locked) ==
    InTurn(d, locked, Todays(d, through, locked), OpponentTotals(LastDay, FALSE, NoLocks))

WalkDay(d, through, locked) ==
    InTurn(d, locked, Todays(d, through, locked), OpponentTotals(d, FALSE, NoLocks))

WalkTo(k, through) ==
    FoldLeft(LAMBDA held, d : WalkDay(d, through, held), NoLocks, [d \in 1..k |-> d])

\* Through the last day every window that can close has closed: the walk
\* without a date.
WalkLocks(through) == WalkTo(through, through)

\* A digest's walk stops on the first day whose calls ask for a player it
\* cannot project.
Raises(d, through, locked) ==
    /\ Todays(d, through, locked) # {}
    /\ \/ \E p \in Unlocked(locked) : Unprojected(p, d)
       \/ \E p \in Theirs : StandInLocks(p, d) = {} /\ Unprojected(p, d)

\* As below, riding whom it cannot project as the backtest does.
WalkNeverFails(through) == FALSE

WalkFails(through) == \E d \in 1..through : Raises(d, through, WalkTo(d - 1, through))

------------------------------------------------------------------------------
\* The digest of a morning, live or looked back on.

Abstained == [abstained |-> TRUE]
Failed == [failed |-> TRUE]

ColdStart(m) == \E p \in Players : Unprojected(p, m - 1)

\* Where a live digest has its locks from: all that are made, given with
\* --locked, or those a poll of this morning tells.
Supplied(held) == [p \in DOMAIN held \cap Mine |-> held[p]]
Inferred(m, held) == [p \in KnownBank(m - 1, held) \cap Mine |-> held[p]]

Modes == {"supplied", "inferred"}

Callable(m, locked) ==
    {p \in Unlocked(locked) : /\ Seen(p, m - 1) # {} /\ Ahead(p, m - 1) # {}
                              /\ Played(p, Max(Seen(p, m - 1)))}

Nights(m, locked) ==
    LET left == {d \in Days : d >= m /\ \E p \in Unlocked(locked) : d \in fixtures[p]}
    IN  {n \in left : Cardinality({d \in left : d < n}) < ForwardNights}

Totals(m, locked) ==
    LET each == [p \in Unlocked(locked) |-> AtOnce(p, m - 1)]
    IN  [s \in Sims |->
            Banked(locked) + SumOf([p \in Unlocked(locked) |-> each[p][s]])]

Says(m, locked, opponent) ==
    [banked |-> locked,
     calls |-> [p \in Callable(m, locked) |->
                  LET d == Max(Seen(p, m - 1))
                      decision == DecisionFor(p, Score(p, d), m - 1, locked, opponent)
                  IN  [day |-> d, score |-> Score(p, d),
                       lock |-> decision.lock, breakEven |-> decision.breakEven]],
     rules |-> [n \in Nights(m, locked) |->
                  StandingThresholds(n, m - 1, locked, opponent)],
     pWin |-> WinProbability(Totals(m, locked), opponent)]

Live(mode, m, held) ==
    IF ColdStart(m) THEN Abstained
    ELSE Says(m, IF mode = "supplied" THEN Supplied(held) ELSE Inferred(m, held),
              OpponentTotals(m - 1, Polled, held))

\* The replay of a date for which no poll counts (one of that morning is read
\* as a live digest reads it) walks to its locks, or fails.
Replayed(m) ==
    IF ColdStart(m) THEN Abstained
    ELSE IF WalkFails(m - 1) THEN Failed
    ELSE Says(m, WalkLocks(m - 1), OpponentTotals(m - 1, FALSE, NoLocks))

\* The backtest's locks on the games before a morning, decided once the week is
\* over.
Graded(m) ==
    LET locked == WalkLocks(LastDay)
    IN  [p \in {q \in DOMAIN locked : locked[q] < m} |-> locked[p]]

------------------------------------------------------------------------------
Init ==
    /\ fixtures \in Fixtures
    /\ outcome = [p \in Players |-> [d \in Days |-> Out]]
    /\ draws \in Tables
    /\ debut \in Debuts
    /\ today = 1
    /\ bank = NoLocks
    /\ printed = [m \in {} |-> 0]

\* The morning's digest, with either source of locks, and what a replay of its
\* date would say at once.
Morning ==
    /\ today \notin DOMAIN printed
    /\ printed' = [m \in 1..today |->
                      IF m < today THEN printed[m]
                      ELSE [held |-> bank,
                            live |-> [mode \in Modes |-> Live(mode, m, bank)],
                            replayed |-> Replayed(m), graded |-> Graded(m)]]
    /\ UNCHANGED <<fixtures, outcome, draws, debut, today, bank>>

\* A manager banks his player's latest game before the next one tips.
Lock(p) ==
    /\ today \in DOMAIN printed
    /\ p \notin DOMAIN bank
    /\ Seen(p, today - 1) # {} /\ Ahead(p, today - 1) # {}
    /\ Played(p, Max(Seen(p, today - 1)))
    /\ bank' = [q \in DOMAIN bank \cup {p} |->
                   IF q = p THEN Max(Seen(p, today - 1)) ELSE bank[q]]
    /\ UNCHANGED <<fixtures, outcome, draws, debut, today, printed>>

\* The day's games are played.
Night ==
    /\ today \in Days /\ today \in DOMAIN printed
    /\ \E came \in [{p \in Players : today \in fixtures[p]} -> Scores \cup {Out}] :
          outcome' = [p \in Players |-> [outcome[p] EXCEPT ![today] =
                         IF p \in DOMAIN came THEN came[p] ELSE @]]
    /\ today' = today + 1
    /\ UNCHANGED <<fixtures, draws, debut, bank, printed>>

Next ==
    \/ Morning
    \/ \E p \in Players : Lock(p)
    \/ Night

Spec == Init /\ [][Next]_vars

------------------------------------------------------------------------------
\* Properties.

TypeOK ==
    /\ fixtures \in Fixtures
    /\ outcome \in [Players -> [Days -> Scores \cup {Out}]]
    /\ draws \in Tables /\ debut \in Debuts
    /\ today \in Mornings
    /\ DOMAIN bank \subseteq Players
    /\ \A p \in DOMAIN bank : bank[p] \in fixtures[p] /\ Played(p, bank[p])
    /\ DOMAIN printed \in {1..(today - 1), 1..today}

\* A date's replay reads nothing later than the date: run again after any
\* later night, with the games played since, it banks, calls and rules as it
\* did, and where a player on the way could not be projected it fails as it
\* did. (rollout.py walk_locks, opponent_totals and contribution cut every list
\* of games at known_through, and raise InsufficientHistory.)
ReplayReadsOnlyItsPast ==
    today \notin DOMAIN printed => \A m \in DOMAIN printed : printed[m].replayed = Replayed(m)

\* The backtest's decision on a game is the one that could have been taken
\* that night, and no game played later changes it, as long as every player
\* with games ahead could be projected on the nights up to it. (backtest.py
\* run_backtest. Where one could not, ride_unprojectable counts his final
\* game's recorded score in everyone's decision: the condition is needed.)
GradedIsBlind ==
    today \notin DOMAIN printed =>
        \A m \in DOMAIN printed :
            (\A d \in 1..(m - 1) : \A p \in Players : ~Unprojected(p, d))
                => printed[m].graded = Graded(m)

\* The nights between a morning and a rule's night, when nothing but this
\* player's games can move the call: his opponent is idle, no one of his
\* starters not banked plays that night, and who played before it still plays
\* after.
Undisturbed(p, banked, m, n) ==
    /\ \A q \in Theirs : fixtures[q] \cap m..n = {}
    /\ \A q \in Mine \ ({p} \cup DOMAIN banked) :
          /\ n \notin fixtures[q]
          /\ fixtures[q] \cap m..n # {} => Ahead(q, n) # {}

\* A standing rule survives the missed check-ins it is printed for: read on
\* any later morning whose digest has the same players banked, whichever way
\* either digest has them and whatever locks no poll tells yet were made on
\* either side, it asks of his game what that morning's own call asks.
\* (rollout.py standing_thresholds, "idle" nights, against decision_for; the
\* locks of digest.py build.)
StandingRuleHolds ==
    \A m, later \in DOMAIN printed : \A mode, other \in Modes : \A p \in Mine :
        LET was == printed[m].live[mode]
            now == printed[later].live[other]
            n == later - 1
        IN  (/\ m < later /\ was # Abstained /\ now # Abstained
             /\ was.banked = now.banked
             /\ n \in DOMAIN was.rules /\ p \in DOMAIN was.rules[n]
             /\ p \in DOMAIN now.calls
             /\ Undisturbed(p, was.banked, m, n))
            => was.rules[n][p] = now.calls[p].breakEven

\* A call and its break-even never part: LOCK exactly when the score is at or
\* above it, and so for any score he might have had instead. (winprob.py
\* lock_threshold "must agree with evaluate_lock exactly".)
CallsAgreeWithRules ==
    \A m \in DOMAIN printed : \A mode \in Modes : printed[m].live[mode] # Abstained =>
        \A p \in DOMAIN printed[m].live[mode].calls :
            LET call == printed[m].live[mode].calls[p]
            IN  call.lock <=> AtLeast(call.score, call.breakEven)

\* A replay takes none of the calls the morning it replays still offered: a
\* game it assumes banked is never the one a live digest of that date calls.
\* (walk_locks with through_day; review finding 2.)
ReplayLeavesOpenWindows ==
    \A m \in DOMAIN printed : \A mode \in Modes :
        LET live == printed[m].live[mode]
            replayed == printed[m].replayed
        IN  (live # Abstained /\ replayed \notin {Abstained, Failed}) =>
                \A p \in DOMAIN live.calls \cap DOMAIN replayed.banked :
                    replayed.banked[p] # live.calls[p].day

\* apply_base_policy walks a simulated week as replay walks a real one: the
\* thresholds a path was drawn for make the same lock on it.
BaseIsReplay ==
    DOMAIN printed = {} => \A p \in Players : \A known \in 0..(LastDay - 1) : \A s \in Sims :
        LET left == Ahead(p, known)
            base == BasePolicyThresholds(draws[p], left)
            path == [d \in Days |-> draws[p][d][s]]
        IN  left # {} =>
              ApplyBasePolicy(draws[p], left, base)[s]
                 = Replay(path, [d \in Days |-> path[d] # 0], left, base)
==============================================================================
