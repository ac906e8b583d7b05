------------------------------ MODULE Hindsight ------------------------------
(***************************************************************************)
(* A week judged once it is final: the digests of its mornings, and the     *)
(* manager's decisions, against what the final counted scores say he banked *)
(* (lockin/shadow.py, lockin/locks.py run_inference, lockin/managers.py     *)
(* evaluate_managers).                                                      *)
(*                                                                         *)
(* The week is lived a day at a time: a morning, in which windows are open, *)
(* the evening, once the day's games have tipped, and the night's results.  *)
(* LiveWeek has a morning in detail; here a digest is what the judge is     *)
(* given of it, its row and its BANKED list. Weeks follow each other, and   *)
(* the gate asks about the last two.                                        *)
(*                                                                         *)
(* Abstracted: the opponent and the forecasts, a call's changes between     *)
(* runs, the win probability a decision is graded by, and counts and labels *)
(* where a set will do.                                                     *)
(***************************************************************************)
EXTENDS LockInference, Sequences

CONSTANTS
    Players,   \* the roster's starters
    NDays,     \* days of a week, 7 in a real one: bounds the model
    Scores,    \* what a played game may be worth
    MaxRuns,   \* digest rows of one week: bounds the model
    MaxOdd,    \* those of them not read from a poll: bounds the model
    MaxWeeks,  \* weeks of the season: bounds the model
    GateWeeks  \* GATE_WEEKS, 2

ASSUME NDaysAssumption == NDays \in Nat \ {0}
ASSUME ScoresAssumption == Scores \subseteq Int
ASSUME BoundsAssumption == {MaxRuns, MaxOdd, MaxWeeks} \subseteq Nat
ASSUME GateWeeksAssumption == GateWeeks \in Nat \ {0}

Days   == 1..NDays
Monday == 1

VARIABLES
    schedule, \* schedule[p]: the days of the week p has a game
    matchup,  \* the roster has an opponent this week
    today,    \* the date: NDays + 1 once the week is over
    tipped,   \* today's games have tipped
    results,  \* results[p]: the games of nights past, as finished
    held,     \* held[p]: the days p was in a starting slot at the tip
    lock,     \* lock[p]: the day of the game locked, NoGame while unlocked
    runs,     \* digest_runs of the week, with their banked rows
    final,    \* the final poll, NotFinal until the league has scored the week
    past      \* the weeks before: what the report keeps of each

world == <<schedule, matchup, today, tipped, results, held, lock>>
vars  == <<world, runs, final, past>>

-----------------------------------------------------------------------------
\* The week as it was.

\* His games of the nights before `day`, and the days of those alone.
Before(p, day) == {d \in DOMAIN results[p] : d < day}
OnNow(p)       == tipped /\ today \in schedule[p]

\* Sleeper's players_points for p: in the evening, a running game's `partial`.
Counted(p, evening, partial) ==
    IF lock[p] # NoGame THEN results[p][lock[p]].score
    ELSE IF evening /\ today \in schedule[p]
         THEN (IF today \in held[p] THEN partial ELSE 0)
    ELSE IF DOMAIN results[p] = {} \/ LastDay(results[p]) \notin held[p] THEN 0
    ELSE RideScore(results[p])

\* A lock a poll of that morning could show: a game of his has come since.
Knowable(p, day) == lock[p] # NoGame /\ \E d \in Before(p, day) : d > lock[p]

\* He was in his slot at every tip.
HeldSlot(p) == DOMAIN results[p] \subseteq held[p]

\* A zero he counts is then a zero he earned, or he played for none.
PlainZeros(p) ==
    HeldSlot(p) \/ \A d \in DOMAIN results[p] : results[p][d].played => results[p][d].score # 0

-----------------------------------------------------------------------------
\* A digest_runs row. `live`: made on the morning it describes, and not marked
\* retrospective.
NoBank == [p \in {} |-> 0]
Row(live, asOf, source, abstained, exempt, banked) ==
    [live |-> live, asOf |-> asOf, source |-> source, abstained |-> abstained,
     exempt |-> exempt, banked |-> banked]

NoGames  == [d \in {} |-> 0]
NotFinal == [scored |-> FALSE, whole |-> FALSE, counted |-> NoBank, missing |-> {}]

Init ==
    /\ schedule \in [Players -> SUBSET Days]
    /\ matchup \in BOOLEAN
    /\ today = Monday
    /\ tipped = FALSE
    /\ results = [p \in Players |-> NoGames]
    /\ held = [p \in Players |-> {}]
    /\ lock = [p \in Players |-> NoGame]
    /\ runs = {}
    /\ final = NotFinal
    /\ past = <<>>

\* The world: tips, results, the manager.
Tip(inSlot) ==
    /\ today \in Days /\ ~tipped
    /\ \E p \in Players : today \in schedule[p]
    /\ tipped' = TRUE
    /\ held' = [p \in Players |-> IF today \in schedule[p] /\ p \in inSlot
                                  THEN held[p] \cup {today} ELSE held[p]]
    /\ UNCHANGED <<schedule, matchup, today, results, lock, runs, final, past>>

Night(outcome) ==
    /\ today \in Days
    /\ tipped \/ \A p \in Players : today \notin schedule[p]
    /\ today' = today + 1
    /\ tipped' = FALSE
    /\ results' = [p \in Players |->
           [d \in DOMAIN results[p] \cup ({today} \cap schedule[p]) |->
               IF d = today THEN outcome[p] ELSE results[p][d]]]
    /\ UNCHANGED <<schedule, matchup, held, lock, runs, final, past>>

\* His latest game, played and in a slot; the window shuts at his next tip.
LockGame(p) ==
    /\ lock[p] = NoGame
    /\ DOMAIN results[p] # {} /\ ~OnNow(p) /\ ~final.scored
    /\ LastDay(results[p]) \in held[p]
    /\ results[p][LastDay(results[p])].played
    /\ lock' = [lock EXCEPT ![p] = LastDay(results[p])]
    /\ UNCHANGED <<schedule, matchup, today, tipped, results, held, runs, final, past>>

-----------------------------------------------------------------------------
\* The digests.
Odd == {r \in runs : r.source # "inferred"}

Recorded(row) ==
    /\ today \in Days
    /\ Cardinality(runs) < MaxRuns
    /\ row.source = "inferred" \/ Cardinality(Odd) < MaxOdd
    /\ runs' = runs \cup {row}
    /\ UNCHANGED <<world, final, past>>

\* A run declines, for whatever reason.
RunAbstains == Recorded(Row(TRUE, today, "none", TRUE, FALSE, NoBank))

\* A poll shows the roster has no matchup: there is nothing to decide.
RunNoMatchup ==
    /\ ~matchup
    /\ Recorded(Row(TRUE, today, "none", FALSE, TRUE, NoBank))

\* The state is read from a poll, of this morning or of this evening with
\* running games in it. A starter that cannot be read makes the run decline.
RunInferred(evening, partial) ==
    LET value(p) == Counted(p, evening, partial)
        read(v)  == {p \in Players :
                        DOMAIN results[p] # {} /\ Reading(value(p), results[p]) = v}
    IN  /\ matchup
        /\ evening => tipped
        /\ read("unresolved") = {}
        /\ Recorded(Row(TRUE, today, "inferred", FALSE, FALSE,
                        [p \in read("banked") |-> value(p)]))

\* --locked: the manager says what he has banked.
RunSupplied ==
    /\ matchup
    /\ Recorded(Row(TRUE, today, "supplied", FALSE, FALSE,
           [p \in {q \in Players : lock[q] # NoGame} |-> results[p][lock[p]].score]))

\* A replay of a morning gone by.
Replay(day) ==
    /\ day < today
    /\ Recorded(Row(FALSE, day, "assumed", FALSE, FALSE, NoBank))

\* The league scores the week. Its final poll may have dropped a starter, or list
\* one without a score; it is whole only when every slot is accounted for.
Score(starters, missing, whole) ==
    /\ today = NDays + 1 /\ ~final.scored
    /\ missing \subseteq starters
    /\ whole => starters = Players
    /\ final' = [scored |-> TRUE, whole |-> whole, missing |-> missing,
                 counted |-> [p \in starters |->
                                 IF p \in missing THEN 0 ELSE Counted(p, FALSE, 0)]]
    /\ UNCHANGED <<world, runs, past>>

-----------------------------------------------------------------------------
\* locks.run_inference: a starter's final value, read against his whole week. A
\* missing score is read as a zero.
Starters    == DOMAIN final.counted
Inferred(p) == InferLock(final.counted[p], results[p])

\* shadow.truths: the days he may have banked early, when that can be told.
Truth(read, days) == [read |-> read, days |-> days]

NoEarlyLock == {"rode_to_end", "single_game", "no_games"}

\* Mutant: a tie with his last game is taken for a ride.
TruthOfTied(p) ==
    CASE p \in final.missing -> Truth(FALSE, {})
      [] p \notin final.missing /\ Inferred(p).status = "locked_early" ->
             Truth(TRUE, {Inferred(p).matched})
      [] p \notin final.missing /\ Inferred(p).status = "ambiguous" ->
             Truth(TRUE, IF Inferred(p).early = "yes" THEN Inferred(p).candidates ELSE {})
      [] p \notin final.missing /\ Inferred(p).status \in NoEarlyLock -> Truth(TRUE, {})
      [] OTHER -> Truth(FALSE, {})

\* Missing final evidence is not a counted zero.
TruthOf(p) ==
    CASE p \in final.missing -> Truth(FALSE, {})
      [] p \notin final.missing /\ Inferred(p).status = "locked_early" ->
             Truth(TRUE, {Inferred(p).matched})
      [] p \notin final.missing /\ Inferred(p).status = "ambiguous"
                                /\ Inferred(p).early = "yes" ->
             Truth(TRUE, Inferred(p).candidates)
      [] p \notin final.missing /\ Inferred(p).status \in NoEarlyLock -> Truth(TRUE, {})
      [] OTHER -> Truth(FALSE, {})

\* A lock shows once he has played again: two of his games by then.
LockCanShow(p, day) == \E d, e \in Before(p, day) : d # e

Unsettled      == [sure |-> FALSE, banked |-> FALSE, score |-> 0]
Nothing        == [sure |-> TRUE,  banked |-> FALSE, score |-> 0]
Showing(score) == [sure |-> TRUE,  banked |-> TRUE,  score |-> score]

\* Mutant: a lock is expected to show the morning after it was made.
ExpectedAtOnce(p, day) ==
    LET days == TruthOf(p).days
    IN  IF ~LockCanShow(p, day) THEN Nothing
        ELSE IF ~TruthOf(p).read THEN Unsettled
        ELSE IF \A d \in Before(p, day), e \in days : d < e THEN Nothing
        ELSE IF \E d \in Before(p, day) : \A e \in days : d >= e
             THEN Showing(final.counted[p])
        ELSE Unsettled

\* What a poll read on the morning of `day` should show of a starter. His tied
\* games may lie on either side of the morning.
Expected(p, day) ==
    LET days == TruthOf(p).days
    IN  IF ~LockCanShow(p, day) THEN Nothing
        ELSE IF ~TruthOf(p).read THEN Unsettled
        ELSE IF \A d \in Before(p, day), e \in days : d <= e THEN Nothing
        ELSE IF \E d \in Before(p, day) : \A e \in days : d > e
             THEN Showing(final.counted[p])
        ELSE Unsettled

-----------------------------------------------------------------------------
\* shadow._live_runs and _state: each BANKED list read from a poll, starter by
\* starter. One it banked who is no starter any more should not be there.

\* Mutant: a morning replayed later counts as one that was lived.
LiveRunsReplayed == runs

LiveRuns   == {r \in runs : r.live}
Inferring  == {r \in LiveRuns : r.source = "inferred"}
Judged     == {x \in Inferring \X Players : x[2] \in Starters \cup DOMAIN x[1].banked}
Have(r, p) == IF p \in DOMAIN r.banked THEN Showing(r.banked[p]) ELSE Nothing
Want(r, p) == IF p \in Starters THEN Expected(p, r.asOf) ELSE Nothing

Unverified == {x \in Judged : ~Want(x[1], x[2]).sure}
Checked    == Judged \ Unverified
Misses     == {x \in Checked : Have(x[1], x[2]) # Want(x[1], x[2])}

\* shadow._mornings: what a morning owes, and what its runs gave. Monday, and a
\* morning on which no lock can show, owe a run and no reading.
Morning(day)       == {r \in LiveRuns : r.asOf = day}
Exempted(day)      == \E r \in Morning(day) : r.exempt /\ ~r.abstained
InferredOn(day)    == \E r \in Morning(day) : r.source = "inferred" /\ ~r.abstained
Checkable(day)     == \E p \in Starters : Expected(p, day).sure
NothingToShow(day) == Starters # {} /\ \A p \in Starters : ~LockCanShow(p, day)

MorningOwes(day) ==
    /\ ~(InferredOn(day) /\ Checkable(day))
    /\ ~Exempted(day)
    /\ Morning(day) = {} \/ (day # Monday /\ ~NothingToShow(day))

\* Tracking began this week, after its Monday.
TrackedBefore == \E w \in DOMAIN past : past[w].ran
Partial       == ~TrackedBefore /\ \A r \in LiveRuns : r.asOf > Monday

\* WeekSummary.clean
Clean ==
    /\ LiveRuns # {}
    /\ Checked # {} \/ \E day \in Days : Exempted(day)
    /\ ~Partial
    /\ final.whole
    /\ \A day \in Days : ~MorningOwes(day)
    /\ Misses = {}
    /\ Unverified = {}

-----------------------------------------------------------------------------
\* ShadowReport.weeks: unbroken from the first with a live run.
FirstTracked(weeks, w) == weeks[w].ran /\ \A v \in 1..(w - 1) : ~weeks[v].ran
Tracked(weeks) ==
    {w \in DOMAIN weeks : \E v \in 1..w : FirstTracked(weeks, v)}

\* Mutant: what has been tracked is clean, however short it is.
GatePassedShort(weeks) ==
    /\ Tracked(weeks) # {}
    /\ \A w \in Tracked(weeks) : w > Len(weeks) - GateWeeks => weeks[w].clean

\* ShadowReport.gate
GatePassed(weeks) ==
    /\ Cardinality(Tracked(weeks)) >= GateWeeks
    /\ \A w \in Tracked(weeks) : w > Len(weeks) - GateWeeks => weeks[w].clean

\* The week went well in fact: a live run on every morning, and every list read
\* from a poll exactly the locks that were made and could show.
Real(r, p) ==
    IF Knowable(p, r.asOf) THEN Showing(results[p][lock[p]].score) ELSE Nothing

WentWell ==
    /\ \A day \in Days : \E r \in runs : r.live /\ r.asOf = day
    /\ \A r \in runs, p \in Players :
          r.live /\ r.source = "inferred" => Have(r, p) = Real(r, p)

\* `well` is kept for the properties only.
ThisWeek == [ran |-> LiveRuns # {}, clean |-> Clean,
             well |-> (\A p \in Players : PlainZeros(p)) => WentWell]

NextWeek ==
    /\ final.scored
    /\ Len(past) + 1 < MaxWeeks
    /\ past' = Append(past, ThisWeek)
    /\ schedule' \in [Players -> SUBSET Days]
    /\ matchup' \in BOOLEAN
    /\ today' = Monday
    /\ tipped' = FALSE
    /\ results' = [p \in Players |-> NoGames]
    /\ held' = [p \in Players |-> {}]
    /\ lock' = [p \in Players |-> NoGame]
    /\ runs' = {}
    /\ final' = NotFinal

-----------------------------------------------------------------------------
\* shadow.verdict: was the call made on the game of `day` followed?
Verdict(action, day, truth) ==
    IF ~truth.read THEN "unknown"
    ELSE IF truth.days # {} /\ \A d \in truth.days : d < day THEN "moot"
    ELSE IF (\E d, e \in truth.days : d # e) /\ \E d \in truth.days : d <= day THEN "unknown"
    ELSE IF (day \in truth.days) = (action = "LOCK") THEN "followed"
    ELSE "overridden"

\* managers.evaluate_managers: the nights he could lock and had a game to ride
\* for, judged from the position he had put himself in.
Position(p, d)  == Cardinality({e \in DOMAIN results[p] : e <= d})
ChoseLock(p, d) == /\ Inferred(p).status = "locked_early"
                   /\ Position(p, Inferred(p).matched) = Position(p, d)
Resolvable(p)   == Inferred(p).status \in {"locked_early", "rode_to_end"}

\* Mutant: the walk does not follow what the manager did.
DecisionsUnfollowed(p) ==
    {d \in DOMAIN results[p] : /\ Resolvable(p)
                               /\ results[p][d].played
                               /\ \E e \in DOMAIN results[p] : e > d}

Decisions(p) ==
    {d \in DOMAIN results[p] : /\ Resolvable(p)
                               /\ results[p][d].played
                               /\ \E e \in DOMAIN results[p] : e > d
                               /\ \A e \in DOMAIN results[p] : e < d => ~ChoseLock(p, e)}

-----------------------------------------------------------------------------
Outcomes == {[played |-> TRUE, score |-> s] : s \in Scores}
            \cup {[played |-> FALSE, score |-> 0]}

Next ==
    \/ \E inSlot \in SUBSET Players : Tip(inSlot)
    \/ \E outcome \in [{p \in Players : today \in schedule[p]} -> Outcomes] : Night(outcome)
    \/ \E p \in Players : LockGame(p)
    \/ RunAbstains
    \/ RunNoMatchup
    \/ RunSupplied
    \/ \E evening \in BOOLEAN, partial \in Scores : RunInferred(evening, partial)
    \/ \E day \in Days : Replay(day)
    \/ \E starters, missing \in SUBSET Players, whole \in BOOLEAN :
            Score(starters, missing, whole)
    \/ NextWeek

Spec == Init /\ [][Next]_vars

-----------------------------------------------------------------------------
BankOK(f) == DOMAIN f \subseteq Players /\ \A p \in DOMAIN f : f[p] \in Int

\* The shape of every variable; a lock is on a game that has finished.
TypeOK ==
    /\ schedule \in [Players -> SUBSET Days]
    /\ matchup \in BOOLEAN
    /\ today \in 1..(NDays + 1)
    /\ tipped \in BOOLEAN
    /\ \A p \in Players :
          /\ DOMAIN results[p] \subseteq schedule[p]
          /\ \A d \in DOMAIN results[p] : results[p][d] \in Game
          /\ lock[p] \in DOMAIN results[p] \cup {NoGame}
    /\ held \in [Players -> SUBSET Days]
    /\ \A r \in runs : r.asOf \in 1..today /\ BankOK(r.banked)
    /\ BankOK(final.counted)
    /\ \A w \in DOMAIN past : past[w] \in [ran : BOOLEAN, clean : BOOLEAN, well : BOOLEAN]

\* shadow._state, WeekSummary.clean: a week the report calls clean did go well,
\* though the judge saw none of it but the rows and the final scores: no wrong
\* list slips through, not one read off an evening poll, nor behind a tie.
CleanWentWell ==
    final.scored /\ Clean /\ (\A p \in Players : PlainZeros(p)) => WentWell

\* ShadowReport.gate: when the cross-check may stop, the last two weeks went
\* well, whatever happened in the weeks before and however tracking began.
GateIsEarned ==
    final.scored /\ GatePassed(Append(past, ThisWeek)) =>
        /\ Len(past) + 1 >= GateWeeks
        /\ \A w \in DOMAIN Append(past, ThisWeek) :
              w > Len(past) + 1 - GateWeeks => Append(past, ThisWeek)[w].well

\* shadow._state: a miss is never a false alarm. What the report holds against a
\* list was wrong in it, for every starter who held his slot: ties and missing
\* scores leave it unverified.
NoFalseMiss ==
    final.scored =>
        \A x \in Misses :
            x[2] \in Starters /\ HeldSlot(x[2]) => Have(x[1], x[2]) # Real(x[1], x[2])

\* shadow.verdict: a verdict that is not "unknown" is right, for every game of a
\* starter that could have been called.
VerdictIsTrue ==
    final.scored =>
        \A p \in Starters : HeldSlot(p) =>
        \A d, e \in DOMAIN results[p], action \in {"LOCK", "PASS"} :
            LET verdict == Verdict(action, d, TruthOf(p))
            IN  d < e =>
                /\ verdict = "moot" => lock[p] # NoGame /\ lock[p] < d
                /\ verdict = "followed" => (lock[p] = d) = (action = "LOCK")
                /\ verdict = "overridden" => (lock[p] = d) = (action = "PASS")

\* managers.evaluate_managers: a manager is charged only with decisions he faced,
\* and with what he did in each.
ChargedAsFaced ==
    final.scored =>
        \A p \in Starters \ final.missing : HeldSlot(p) =>
        \A d \in Decisions(p) :
            /\ lock[p] = NoGame \/ lock[p] >= d
            /\ ChoseLock(p, d) <=> lock[p] = d
=============================================================================
