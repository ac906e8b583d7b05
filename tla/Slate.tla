--------------------------------- MODULE Slate ---------------------------------
(***************************************************************************)
(* One player's week as the digest sees it, while the NBA moves games, calls *)
(* them off and plays them, he changes team, and Sleeper's rows come late:   *)
(* which games have been played, which are still to come, when the next one  *)
(* tips, and whether last night can be taken as final (lockin/slate.py,      *)
(* fixture_state and classify_fixtures of lockin/ingest/sleeper.py,          *)
(* lockin/ingest/nba.py, digest.unfinished_slate).                          *)
(*                                                                         *)
(* External to the repository, modelled from how the code reads them: the    *)
(* NBA and its feed, and the rows Sleeper lists. Sleeper keeps a fixture     *)
(* under the date it was first filed, with every player unplayed, and lists  *)
(* the replay as another one; a fixture is here a game and a date.           *)
(*                                                                         *)
(* Abstracted: scores (a row is blank, partial or full), times of day, the   *)
(* box scores of other weeks, and two ingests at once (module SharedStore).  *)
(***************************************************************************)
EXTENDS Integers, FiniteSets

CONSTANTS
    Games,       \* games of his week, of his teams or the All-Star Game
    Teams,       \* NBA teams he may belong to
    AllStars,    \* the team of the All-Star Game, no NBA team
    NDays,       \* days of the week, 7 in a real one: bounds the model
    MaxUpsets,   \* games moved and changes of team in the week: bounds the model
    MaxIngests   \* ingests started in the week: bounds the model

ASSUME TeamsAssumption == AllStars \notin Teams
ASSUME BoundsAssumption ==
    NDays \in Nat \ {0} /\ MaxUpsets \in Nat /\ MaxIngests \in Nat

Days     == 1..NDays
NoDay    == 0                  \* a date outside this week, or no tipoff
Fixtures == Games \X Days

\* The NBA's game status.
Scheduled == 1
Live      == 2
Final     == 3

VARIABLES
    teamOf,     \* teamOf[g]: which of his teams plays g
    date,       \* date[g]: the day the NBA files g under, NoDay outside the week
    filed,      \* filed[g]: the days it was filed under before it was moved
    timed,      \* games the NBA names a tipoff for
    off,        \* games called off and not yet filed anew
    status,     \* status[g]: where g has got
    team,       \* his team today
    joined,     \* the day he joined it, NoDay for before this week
    upsets,     \* games moved and changes of team so far
    part,       \* games he was on the team for at the tip
    veteran,    \* teams he has a row with from an earlier week
    today,      \* the NBA date
    slateFinal, \* 07:00 UTC has passed today
    ingest,     \* the step of the ingest in hand, and the date it classifies against
    ingests,    \* how many were started
    run,        \* the newest ingest_runs row, the morning whose stats it asked for
    dbTeam,     \* players.team
    box,        \* box[f]: his box_scores row for the fixture
    lines,      \* fixtures for which somebody's stat line is stored
    sched,      \* nba_schedule: a game's date, the day its tipoff is on, its status
    state       \* game_links.state

nba    == <<teamOf, date, filed, timed, off, status>>
player == <<team, joined, part, veteran>>
clock  == <<today, slateFinal, upsets>>
tables == <<run, dbTeam, box, lines, sched, state>>
ingesting == <<ingest, ingests>>
vars   == <<nba, player, clock, ingesting, tables>>

IsReal(g) == teamOf[g] \in Teams

-----------------------------------------------------------------------------
\* The world: the NBA, the player's team, the clock.

\* A team plays once a day at most.
Free(g, d) == \A h \in Games \ {g} : teamOf[h] = teamOf[g] => date[h] # d

\* A game is filed under another day, with its tipoff or with none as yet.
Move(g, d, withTime) ==
    /\ IsReal(g) /\ status[g] = Scheduled
    /\ upsets < MaxUpsets
    /\ d = NoDay \/ (d > today /\ Free(g, d))
    /\ d # date[g] /\ d \notin filed[g]
    /\ date'  = [date EXCEPT ![g] = d]
    /\ filed' = [filed EXCEPT ![g] = @ \cup ({date[g]} \ {NoDay})]
    /\ timed' = IF withTime THEN timed \cup {g} ELSE timed \ {g}
    /\ off'   = off \ {g}
    /\ upsets' = upsets + 1
    /\ UNCHANGED <<teamOf, status, player, today, slateFinal, ingesting, tables>>

CallOff(g) ==
    /\ IsReal(g) /\ status[g] = Scheduled /\ date[g] = today
    /\ off' = off \cup {g}
    /\ UNCHANGED <<teamOf, date, filed, timed, status, player, clock, ingesting, tables>>

NameTime(g) ==
    /\ timed' = timed \cup {g}
    /\ UNCHANGED <<teamOf, date, filed, off, status, player, clock, ingesting, tables>>

Tip(g) ==
    /\ slateFinal /\ date[g] = today
    /\ status[g] = Scheduled /\ g \notin off
    /\ status' = [status EXCEPT ![g] = Live]
    /\ part'   = IF teamOf[g] \in {team, AllStars} THEN part \cup {g} ELSE part
    /\ UNCHANGED <<teamOf, date, filed, timed, off, team, joined, veteran,
                   clock, ingesting, tables>>

Finish(g) ==
    /\ status[g] = Live
    /\ status' = [status EXCEPT ![g] = Final]
    /\ UNCHANGED <<teamOf, date, filed, timed, off, player, clock, ingesting, tables>>

\* He joins another team, once in the week, on a day he has not played.
Trade(to) ==
    /\ to # team /\ joined = NoDay /\ upsets < MaxUpsets
    /\ \A g \in part : date[g] # today /\ status[g] # Live
    /\ team'   = to
    /\ joined' = today
    /\ upsets' = upsets + 1
    /\ UNCHANGED <<nba, part, veteran, today, slateFinal, ingesting, tables>>

Midnight ==
    /\ slateFinal /\ today < NDays
    /\ \A g \in Games : date[g] = today /\ status[g] = Scheduled => g \in off
    /\ today' = today + 1
    /\ slateFinal' = FALSE
    /\ UNCHANGED <<nba, player, upsets, ingesting, tables>>

\* 07:00 UTC: "the hour by which a night's games have certainly finished".
SlateCompletes ==
    /\ ~ slateFinal
    /\ \A g \in Games : status[g] # Live
    /\ slateFinal' = TRUE
    /\ UNCHANGED <<nba, player, upsets, today, ingesting, tables>>

-----------------------------------------------------------------------------
\* The ingest.

\* The fixtures in a stats payload: games begun, and those of a date gone by that
\* were not played on it. Tonight's and last night's may be late, and games ahead
\* may be listed or not.
Carried(f, late, ahead) ==
    LET g == f[1]
        d == f[2]
    IN  \/ d = date[g] /\ status[g] # Scheduled /\ g \notin late
        \/ d = date[g] /\ status[g] = Scheduled /\ (ahead \/ d < today)
        \/ d \in filed[g] /\ d < today

\* He has a row in it: he was on the team at the tip; or he is on it now, and was
\* on the date of a game that was not played.
Lists(f) == IF f[2] = date[f[1]] /\ status[f[1]] # Scheduled THEN f[1] \in part
            ELSE teamOf[f[1]] = AllStars \/ (teamOf[f[1]] = team /\ joined <= f[2])

\* Its rows have stat lines, those of a game under way as far as it has got.
HasLines(f, blank) ==
    f[2] = date[f[1]] /\ status[f[1]] # Scheduled /\ f[1] \notin blank

RowOf(f, blank) ==
    IF ~ HasLines(f, blank) THEN "blank"
    ELSE IF status[f[1]] = Live THEN "partial" ELSE "full"

\* Games begun tonight or last night. Their lines may still be on their way, unless
\* an earlier payload had them.
Recent  == {g \in Games : status[g] # Scheduled /\ date[g] >= today - 1}
Awaited == {g \in Recent : <<g, date[g]>> \notin lines}

\* ingest_players, ingest_week_stats and the checkpoint: the rows listed are
\* replaced, those no longer listed stay, and a new fixture has no state yet.
StoreStats(late, blank, ahead) ==
    LET carried == {f \in Fixtures : Carried(f, late, ahead)}
    IN  /\ ingest.step = "idle" /\ ingests < MaxIngests
        /\ ingest'  = [step |-> "stats", day |-> today]
        /\ ingests' = ingests + 1
        /\ run'     = [status |-> "running", statsOn |-> IF slateFinal THEN today ELSE NoDay]
        /\ dbTeam'  = team
        /\ box'     = [f \in Fixtures |-> IF f \in carried /\ Lists(f) THEN RowOf(f, blank)
                                          ELSE box[f]]
        /\ lines'   = (lines \ carried) \cup {f \in carried : HasLines(f, blank)}
        /\ state'   = [f \in Fixtures |-> IF state[f] = "none" /\ f \in carried THEN "new"
                                          ELSE state[f]]
        /\ UNCHANGED <<nba, player, clock, sched>>

\* ingest_schedule: every NBA game on the day it is filed under now. A tipoff is
\* only ever replaced by another.
Upserted(g, lagging) ==
    [date   |-> date[g],
     tip    |-> IF g \in timed THEN date[g] ELSE sched[g].tip,
     status |-> IF g \in lagging THEN Live ELSE status[g]]

\* ingest_scoreboard: a tipoff still missing is filled in from the day's scoreboard.
Swept(row, found) == IF row.tip = NoDay /\ found THEN [row EXCEPT !.tip = row.date] ELSE row

NotScheduled == [date |-> NoDay, tip |-> NoDay, status |-> Scheduled]

\* link_games: by date and pair of teams.
Linked(f, table) == IsReal(f[1]) /\ table[f[1]].date = f[2]

\* Mutant: a moved game is one whose stats are missing.
FixtureStateUnmoved(f, table, day) ==
    IF f \in lines THEN "final"
    ELSE IF f[2] < day THEN "unknown" ELSE "scheduled"

\* fixture_state, with what classify_fixtures makes of an exhibition: no link, no
\* status, no schedule to consult.
FixtureState(f, table, day) ==
    LET nbaStatus == table[f[1]].status
    IN  CASE f \in lines -> IF Linked(f, table) /\ nbaStatus = Live
                            THEN "in_progress" ELSE "final"
          [] f \notin lines /\ Linked(f, table) ->
                 IF nbaStatus = Final THEN "unknown"
                 ELSE IF nbaStatus = Live THEN "in_progress"
                 ELSE IF f[2] < day THEN "unknown" ELSE "scheduled"
          [] f \notin lines /\ ~ Linked(f, table) ->
                 IF IsReal(f[1]) \/ f[2] < day THEN "postponed" ELSE "scheduled"

\* ingest_schedule, mark_exhibitions, link_games, ingest_scoreboard, link_games,
\* classify_fixtures and finish, in one transaction.
StoreSchedule(lagging, swept) ==
    /\ ingest.step = "stats"
    /\ sched' = [g \in Games |-> IF IsReal(g) THEN Swept(Upserted(g, lagging), g \in swept)
                                 ELSE NotScheduled]
    /\ state' = [f \in Fixtures |-> IF state[f] = "none" THEN "none"
                                    ELSE FixtureState(f, sched', ingest.day)]
    /\ run'    = [run EXCEPT !.status = "complete"]
    /\ ingest' = [step |-> "idle", day |-> NoDay]
    /\ UNCHANGED <<nba, player, clock, ingests, dbTeam, box, lines>>

IngestDies ==
    /\ ingest.step # "idle"
    /\ ingest' = [step |-> "idle", day |-> NoDay]
    /\ UNCHANGED <<nba, player, clock, ingests, tables>>

-----------------------------------------------------------------------------
\* The slate a live digest builds, the morning after KnownThrough.

KnownThrough == today - 1

\* digest.stats_evidence, of this morning's run.
StatsEvidence == run.status = "complete" /\ run.statsOn = today

\* Mutant: a game put off counts as one he sat out.
IsFinalFixtureUnlessStuck(f) == state[f] \notin {"in_progress", "unknown"}

\* projections.FINAL_FIXTURE: a state never classified reads as final.
IsFinalFixture(f) == state[f] \in {"final", "new"}

\* His games in the panel: final fixtures, no exhibition.
Observed == {f \in Fixtures : /\ box[f] # "none"
                              /\ f[2] <= KnownThrough
                              /\ IsReal(f[1])
                              /\ IsFinalFixture(f)}

\* team_of on a live morning: the team Sleeper has him on, when it names one, as
\* it does here.
TeamOf == dbTeam

\* The NBA's games of his team for the rest of the week.
ScheduledAhead == {g \in Games : teamOf[g] = TeamOf /\ sched[g].date > KnownThrough}

\* WeekSlate.next_tipoff, NoDay when the schedule has no time for it.
NextAhead   == {g \in ScheduledAhead : \A h \in ScheduledAhead : sched[g].date <= sched[h].date}

\* Fixtures of his on record whose outcome is not.
Stuck == {d \in Days : d <= KnownThrough /\ \E g \in Games :
             box[<<g, d>>] # "none" /\ state[<<g, d>>] \in {"in_progress", "unknown"}}

\* Mutant: a new man is asked about a night he was not there for.
BelongsAnyway == TRUE

\* He has a row with his team from before last night.
Belongs == \/ TeamOf \in veteran
           \/ \E f \in Fixtures : /\ box[f] # "none"
                                  /\ teamOf[f[1]] = TeamOf
                                  /\ f[2] < KnownThrough

\* Mutant: the schedule is not asked.
DueLastNightNever == FALSE

\* His team played last night, by the NBA's calendar.
DueLastNight == \E g \in Games : teamOf[g] = TeamOf /\ sched[g].date = KnownThrough

\* week_slate's unsettled dates: what is stuck, and a game of last night with no
\* result for him at all.
Unsettled ==
    Stuck \cup {d \in Days : /\ d = KnownThrough
                             /\ DueLastNight /\ Belongs
                             /\ \A f \in Observed : f[2] # KnownThrough}

\* The digest has read the slate and not declined.
Proceeds == slateFinal /\ StatsEvidence /\ Unsettled = {}

-----------------------------------------------------------------------------
Init ==
    /\ teamOf \in [Games -> Teams \cup {AllStars}]
    /\ date \in [Games -> Days]
    /\ \A g, h \in Games : g # h /\ teamOf[g] = teamOf[h] => date[g] # date[h]
    /\ filed = [g \in Games |-> {}]
    /\ timed = Games
    /\ off = {}
    /\ status = [g \in Games |-> Scheduled]
    /\ team \in Teams
    /\ joined = NoDay
    /\ upsets = 0
    /\ part = {}
    /\ veteran \in {{}, {team}}
    /\ today = 1
    /\ slateFinal = TRUE
    /\ ingest = [step |-> "idle", day |-> NoDay]
    /\ ingests = 0
    /\ run = [status |-> "complete", statsOn |-> NoDay]
    /\ dbTeam = team
    /\ box = [f \in Fixtures |-> "none"]
    /\ lines = {}
    /\ sched = [g \in Games |->
           IF IsReal(g)
           THEN [date |-> date[g], tip |-> IF g \in timed THEN date[g] ELSE NoDay,
                 status |-> Scheduled]
           ELSE NotScheduled]
    /\ state = [f \in Fixtures |-> "none"]

Next ==
    \/ \E g \in Games : \/ \E d \in Days \cup {NoDay}, withTime \in BOOLEAN : Move(g, d, withTime)
                        \/ CallOff(g)
                        \/ NameTime(g)
                        \/ Tip(g)
                        \/ Finish(g)
    \/ \E to \in Teams : Trade(to)
    \/ Midnight
    \/ SlateCompletes
    \/ \E late \in SUBSET Awaited, ahead \in BOOLEAN :
            \E blank \in SUBSET (Awaited \ late) : StoreStats(late, blank, ahead)
    \/ \E lagging \in SUBSET Recent :
            \E swept \in SUBSET (Games \ timed) : StoreSchedule(lagging, swept)
    \/ IngestDies

Spec == Init /\ [][Next]_vars

-----------------------------------------------------------------------------
States == {"none", "new", "final", "in_progress", "scheduled", "postponed", "unknown"}

TypeOK ==
    /\ teamOf \in [Games -> Teams \cup {AllStars}]
    /\ date \in [Games -> Days \cup {NoDay}]
    /\ filed \in [Games -> SUBSET Days]
    /\ timed \subseteq Games
    /\ off \subseteq Games
    /\ status \in [Games -> {Scheduled, Live, Final}]
    /\ team \in Teams
    /\ joined \in Days \cup {NoDay}
    /\ upsets \in 0..MaxUpsets
    /\ part \subseteq Games
    /\ veteran \subseteq Teams
    /\ today \in Days
    /\ slateFinal \in BOOLEAN
    /\ ingest \in [step : {"idle", "stats"}, day : Days \cup {NoDay}]
    /\ ingests \in 0..MaxIngests
    /\ run \in [status : {"running", "complete"}, statsOn : Days \cup {NoDay}]
    /\ dbTeam \in Teams
    /\ box \in [Fixtures -> {"none", "blank", "partial", "full"}]
    /\ lines \subseteq Fixtures
    /\ sched \in [Games -> [date : Days \cup {NoDay}, tip : Days \cup {NoDay},
                            status : {Scheduled, Live, Final}]]
    /\ state \in [Fixtures -> States]

\* A game the digest counts as played was played on that date, to its end, and
\* his row of it is whole. (A row listed ahead for a team he has left since stays
\* blank, see the README.)
ObservedIsPlayed ==
    Proceeds => \A f \in Observed :
        LET g == f[1]
            d == f[2]
        IN  /\ status[g] = Final /\ date[g] = d
            /\ g \in part => box[f] = "full"

\* No game he played is missing from a slate the digest goes by: not last night's
\* with his team of before, the one date whose missing result only the calendar can
\* tell (and a row for another game of that date, of a team he left, hides it).
NothingPlayedIsLost ==
    Proceeds => \A g \in part :
        /\ IsReal(g) /\ date[g] <= KnownThrough
        /\ date[g] = KnownThrough =>
               /\ teamOf[g] = dbTeam /\ Belongs
               /\ \A h \in Games \ {g} : box[<<h, KnownThrough>>] = "none"
        => <<g, date[g]>> \in Observed

\* The digest is held up only by a game he was on the team for, by one called off
\* that the NBA had not filed anew, or by one of a team he has left or returned to.
\* Not by a game moved, nor by one his team played before he joined it.
HeldUpByHisOwn ==
    StatsEvidence => \A d \in Unsettled : \E g \in Games :
        \/ d = sched[g].date /\ sched[g].status = Scheduled
        \/ /\ d = date[g]
           /\ \/ g \in part
              \/ teamOf[g] # team
              \/ d = KnownThrough /\ teamOf[g] \in veteran

\* "His next tipoff: when this window closes and the call stops meaning anything"
\* (lockin/digest.py): the tipoff named for his next game is on that game's date.
DeadlineIsHisTip ==
    Proceeds => \A g \in NextAhead : sched[g].tip \in {NoDay, sched[g].date}
=============================================================================
