------------------------------ MODULE SlateProofs ------------------------------
(***************************************************************************)
(* Proofs about module Slate, for any games, teams, length of week and       *)
(* number of upsets and ingests: a digest that goes ahead counts as played   *)
(* what was played, misses nothing that was, and is held up only by a game   *)
(* that could be his.                                                       *)
(*                                                                         *)
(* The strengthening says what the world allows (Calendar, Rosters), what a  *)
(* committed row, line or schedule entry is evidence of (Rows, Lines, Known) *)
(* and what an ingest whose stats were asked for after 07:00 UTC has left    *)
(* behind (Runs, Fetched, Classified).                                      *)
(***************************************************************************)
EXTENDS Slate, TLAPS

Played(g) == status[g] # Scheduled

\* A game was played on the date it is filed under, and is over by the hour the
\* night's slate is taken as final.
Calendar ==
    \A g \in Games :
        /\ Played(g) => date[g] \in 1..today
        /\ status[g] = Live => date[g] = IF slateFinal THEN today ELSE today - 1
        /\ date[g] \notin filed[g]

\* He played the games of his team since he joined it, and of another team only
\* before that.
Rosters ==
    /\ joined <= today
    /\ \A g \in part :
          /\ Played(g)
          /\ IsReal(g) => IF teamOf[g] = team THEN joined <= date[g] ELSE joined # NoDay
    /\ \A g \in Games : Played(g) /\ teamOf[g] = team /\ joined < date[g] => g \in part

\* A row of his is of his team since he joined it, and of one he was there for once
\* the game is played; before any trade there are no others.
Rows ==
    \A f \in Fixtures : box[f] # "none" =>
        /\ joined = NoDay /\ IsReal(f[1]) => teamOf[f[1]] = team
        /\ teamOf[f[1]] = team => joined <= f[2]
        /\ teamOf[f[1]] = team /\ f[2] = date[f[1]] /\ Played(f[1]) => f[1] \in part

\* Lines are of games begun, on their date.
Lines == \A f \in lines : f[2] = date[f[1]] /\ Played(f[1])

\* A game the schedule has as begun is one, on its date.
Known ==
    \A g \in Games : sched[g].status # Scheduled => Played(g) /\ sched[g].date = date[g]

\* The newest run, and the ingest in hand, which is its.
Runs ==
    /\ run.statsOn <= today
    /\ run.statsOn = today => slateFinal
    /\ ingest.step = "stats" =>
          /\ run.status = "running"
          /\ run.statsOn # NoDay => ingest.day = run.statsOn

\* Stats asked for once the slate was final have every game he played before that
\* night, and in full those of the night that they have at all.
Fetched ==
    run.statsOn # NoDay => \A g \in part :
        /\ date[g] < run.statsOn /\ <<g, date[g]>> \in lines => box[<<g, date[g]>>] = "full"
        /\ date[g] < run.statsOn - 1 => <<g, date[g]>> \in lines /\ state[<<g, date[g]>>] # "none"

\* A complete run classified every fixture by the schedule it stored, which has the
\* games played by then on their dates.
Classified ==
    run.status = "complete" /\ run.statsOn # NoDay =>
        /\ \A f \in Fixtures :
               state[f] = "none" \/ state[f] = FixtureState(f, sched, run.statsOn)
        /\ \A g \in Games :
               IsReal(g) /\ Played(g) /\ date[g] < run.statsOn => sched[g].date = date[g]

IInv ==
    /\ TypeOK
    /\ Calendar
    /\ Rosters
    /\ Rows
    /\ Lines
    /\ Known
    /\ Runs
    /\ Fetched
    /\ Classified

-----------------------------------------------------------------------------
LEMMA InitInv == Init => IInv
<1> SUFFICES ASSUME Init PROVE IInv
    OBVIOUS
<1>1. /\ \A g \in Games : status[g] = Scheduled /\ filed[g] = {}
      /\ \A f \in Fixtures : box[f] = "none" /\ state[f] = "none"
      /\ part = {} /\ lines = {} /\ joined = 0 /\ today = 1
      /\ \A g \in Games : sched[g].status = Scheduled
    <2>1. /\ \A g \in Games : status[g] = Scheduled
          /\ \A g \in Games : filed[g] = {}
        BY DEF Init
    <2>2. /\ \A f \in Fixtures : box[f] = "none"
          /\ \A f \in Fixtures : state[f] = "none"
        BY DEF Init
    <2>3. part = {} /\ lines = {} /\ joined = 0 /\ today = 1
        BY DEF Init, NoDay
    <2>4. \A g \in Games : sched[g].status = Scheduled
        BY DEF Init, NotScheduled
    <2> QED
        BY <2>1, <2>2, <2>3, <2>4
<1>2. TypeOK
    <2>1. 1 \in Days /\ today = 1 /\ MaxUpsets \in Nat /\ MaxIngests \in Nat
        BY BoundsAssumption DEF Days, Init
    <2>2. sched \in [Games -> [date : Days \cup {NoDay}, tip : Days \cup {NoDay},
                               status : {Scheduled, Live, Final}]]
        BY DEF Init, NotScheduled
    <2>3. ingest \in [step : {"idle", "stats"}, day : Days \cup {NoDay}]
        BY DEF Init
    <2>4. run \in [status : {"running", "complete"}, statsOn : Days \cup {NoDay}]
        BY DEF Init
    <2> QED
        BY <2>1, <2>2, <2>3, <2>4 DEF Init, TypeOK, States, NoDay
<1>3. Calendar /\ Rosters /\ Rows /\ Lines /\ Known
    <2>1. \A g \in Games : ~ Played(g) /\ status[g] # Live
        BY <1>1 DEF Played, Scheduled, Live
    <2>2. Calendar
        BY <1>1, <2>1 DEF Calendar
    <2>3. Rosters
        BY <1>1, <2>1 DEF Rosters
    <2>4. Rows /\ Lines /\ Known
        BY <1>1 DEF Rows, Lines, Known
    <2> QED
        BY <2>2, <2>3, <2>4
<1>4. Runs /\ Fetched /\ Classified
    <2>1. run.statsOn = 0 /\ ingest.step = "idle"
        BY DEF Init, NoDay
    <2> QED
        BY <1>1, <2>1 DEF Runs, Fetched, Classified, NoDay
<1> QED
    BY <1>2, <1>3, <1>4 DEF IInv

\* The classification of a fixture is of the schedule, the lines and the teams.
LEMMA SameState ==
    ASSUME UNCHANGED <<teamOf, lines, sched, run>>
    PROVE  \A f : FixtureState(f, sched, run.statsOn)' = FixtureState(f, sched, run.statsOn)
BY DEF FixtureState, Linked, IsReal

-----------------------------------------------------------------------------
\* The world's steps.

\* What the world may do that leaves the tables evidence of what they were: a game
\* begins today and keeps its date then, and time passes.
LEMMA TablesStay ==
    ASSUME IInv, UNCHANGED <<teamOf, ingesting, tables>>,
           today \in Int, today' \in Int,
           \/ today' = today /\ (slateFinal => slateFinal')
           \/ today' > today,
           \A g \in Games : Played(g) => Played(g)' /\ date'[g] = date[g],
           \A g \in Games : Played(g)' => Played(g) \/ date'[g] = today,
           part \subseteq part', \A g \in part' \ part : date'[g] = today
    PROVE  Lines' /\ Known' /\ Runs' /\ Fetched' /\ Classified'
<1>1. /\ UNCHANGED <<run, ingest, box, lines, sched, state>>
      /\ run.statsOn \in Int /\ lines \subseteq Fixtures /\ part \subseteq Games
    BY DEF tables, ingesting, IInv, TypeOK, Days, NoDay
<1>2. Lines'
    BY <1>1 DEF IInv, Lines, Fixtures
<1>3. Known'
    BY <1>1 DEF IInv, Known
<1>4. Runs'
    BY <1>1 DEF IInv, Runs
<1>5. Fetched'
    <2> SUFFICES ASSUME run.statsOn # NoDay, NEW g \in part'
                 PROVE  /\ date'[g] < run.statsOn /\ <<g, date'[g]>> \in lines
                               => box[<<g, date'[g]>>] = "full"
                        /\ date'[g] < run.statsOn - 1
                               => <<g, date'[g]>> \in lines /\ state[<<g, date'[g]>>] # "none"
        BY <1>1 DEF Fetched
    <2>1. CASE g \in part
        <3>1. date'[g] = date[g]
            BY <1>1, <2>1 DEF IInv, Rosters
        <3> QED
            BY <2>1, <3>1 DEF IInv, Fetched
    <2>2. CASE g \notin part
        <3>1. date'[g] = today /\ run.statsOn <= today
            BY <2>2 DEF IInv, Runs
        <3> QED
            BY <1>1, <3>1
    <2> QED
        BY <2>1, <2>2
<1>6. Classified'
    <2> SUFFICES ASSUME run.status = "complete", run.statsOn # NoDay
                 PROVE  /\ \A f \in Fixtures :
                               state[f] = "none" \/ state[f] = FixtureState(f, sched, run.statsOn)'
                        /\ \A g \in Games : (IsReal(g) /\ Played(g) /\ date[g] < run.statsOn)'
                               => sched[g].date = date'[g]
        BY <1>1 DEF Classified, Fixtures, Days
    <2>1. \A f \in Fixtures : state[f] = "none" \/ state[f] = FixtureState(f, sched, run.statsOn)'
        BY <1>1, SameState DEF IInv, Classified
    <2>2. ASSUME NEW g \in Games, (IsReal(g) /\ Played(g) /\ date[g] < run.statsOn)'
          PROVE  sched[g].date = date'[g]
        <3>1. run.statsOn <= today
            BY DEF IInv, Runs
        <3>2. Played(g)
            BY <1>1, <2>2, <3>1
        <3>3. IsReal(g) /\ date'[g] = date[g] /\ date[g] < run.statsOn
            BY <1>1, <2>2, <3>2 DEF IsReal
        <3> QED
            BY <3>2, <3>3 DEF IInv, Classified
    <2> QED
        BY <2>1, <2>2
<1> QED
    BY <1>2, <1>3, <1>4, <1>5, <1>6

\* A move or a name for a tipoff is of a game not begun.
LEMMA MoveInv ==
    ASSUME NEW g \in Games, NEW d \in Days \cup {NoDay}, NEW withTime \in BOOLEAN, IInv,
           Move(g, d, withTime)
    PROVE  IInv'
<1>1. /\ UNCHANGED <<teamOf, status, player, today, slateFinal, ingesting, tables>>
      /\ status[g] = Scheduled /\ d # date[g] /\ d \notin filed[g]
      /\ \A h \in Games \ {g} : date'[h] = date[h] /\ filed'[h] = filed[h]
      /\ date'[g] = d /\ filed'[g] = filed[g] \cup ({date[g]} \ {NoDay})
    BY DEF Move, IInv, TypeOK
<1>2. TypeOK'
    BY BoundsAssumption DEF Move, IInv, TypeOK, player, ingesting, tables
<1>3. \A h \in Games : Played(h)' <=> Played(h)
    BY <1>1 DEF Played
<1>4. \A h \in Games : Played(h) => date'[h] = date[h]
    BY <1>1 DEF Played
<1>5. Calendar'
    BY <1>1, <1>3, <1>4 DEF IInv, Calendar, Played, Scheduled, Live
<1>6. Rosters'
    BY <1>1, <1>3, <1>4 DEF IInv, Rosters, TypeOK, player, IsReal
<1>7. Rows'
    BY <1>1, <1>3, <1>4 DEF IInv, Rows, TypeOK, player, tables, IsReal, Fixtures
<1>8. Lines' /\ Known' /\ Runs' /\ Fetched' /\ Classified'
    BY <1>1, <1>3, <1>4, TablesStay DEF IInv, TypeOK, player, Days
<1> QED
    BY <1>2, <1>5, <1>6, <1>7, <1>8 DEF IInv

LEMMA StillInv ==
    ASSUME NEW g \in Games, IInv, CallOff(g) \/ NameTime(g)
    PROVE  IInv'
<1>1. UNCHANGED <<teamOf, date, filed, status, player, clock, ingesting, tables>>
    BY DEF CallOff, NameTime
<1>2. TypeOK'
    BY <1>1 DEF CallOff, NameTime, IInv, TypeOK, player, clock, ingesting, tables
<1>3. Calendar' /\ Rosters' /\ Rows'
    BY <1>1 DEF IInv, Calendar, Rosters, Rows, Played, IsReal, player, clock, tables
<1>4. Lines' /\ Known' /\ Runs' /\ Fetched' /\ Classified'
    BY <1>1, TablesStay DEF IInv, TypeOK, player, clock, Days, Played
<1> QED
    BY <1>2, <1>3, <1>4 DEF IInv

\* Who tips tonight is of the team he is on.
LEMMA TipInv ==
    ASSUME NEW g \in Games, IInv, Tip(g)
    PROVE  IInv'
<1>1. /\ UNCHANGED <<teamOf, date, filed, team, joined, veteran, clock, ingesting, tables>>
      /\ slateFinal /\ date[g] = today /\ status[g] = Scheduled /\ status'[g] = Live
      /\ \A h \in Games \ {g} : status'[h] = status[h]
      /\ part' = IF teamOf[g] \in {team, AllStars} THEN part \cup {g} ELSE part
    BY DEF Tip, IInv, TypeOK
<1>2. TypeOK'
    BY <1>1 DEF Tip, IInv, TypeOK, clock, ingesting, tables
<1>3. \A h \in Games : Played(h)' <=> Played(h) \/ h = g
    BY <1>1 DEF Played, Scheduled, Live
<1>4. today \in Days /\ joined <= today
    BY DEF IInv, TypeOK, Rosters
<1>5. Calendar'
    BY <1>1, <1>3, <1>4 DEF IInv, Calendar, clock, Days
<1>6. Rosters'
    <2>1. IsReal(g) => teamOf[g] # AllStars
        BY TeamsAssumption DEF IsReal
    <2>2. ASSUME NEW h \in part'
          PROVE  Played(h)' /\ (IsReal(h)' => IF teamOf[h] = team THEN joined <= date[h]
                                                                 ELSE joined # NoDay)
        <3>1. CASE h = g
            BY <1>1, <1>3, <1>4, <2>1, <2>2, <3>1 DEF IInv, Rosters, IsReal
        <3>2. CASE h # g
            BY <1>1, <1>3, <2>2, <3>2 DEF IInv, Rosters, IsReal, TypeOK
        <3> QED
            BY <3>1, <3>2
    <2>3. ASSUME NEW h \in Games, Played(h)', teamOf[h] = team, joined < date[h] PROVE h \in part'
        BY <1>1, <1>3, <2>3 DEF IInv, Rosters
    <2> QED
        BY <1>1, <1>4, <2>2, <2>3 DEF Rosters, clock
<1>7. Rows'
    <2> SUFFICES ASSUME NEW f \in Fixtures, box[f] # "none"
                 PROVE  /\ joined = NoDay /\ IsReal(f[1]) => teamOf[f[1]] = team
                        /\ teamOf[f[1]] = team => joined <= f[2]
                        /\ teamOf[f[1]] = team /\ f[2] = date[f[1]] /\ Played(f[1])'
                               => f[1] \in part'
        BY <1>1 DEF Rows, IsReal, tables, Fixtures, Days
    <2>1. f[1] \in Games
        BY DEF Fixtures
    <2> QED
        BY <1>1, <1>3, <2>1 DEF IInv, Rows
<1>8. Lines' /\ Known' /\ Runs' /\ Fetched' /\ Classified'
    BY <1>1, <1>3, <1>4, TablesStay DEF clock, Days
<1> QED
    BY <1>2, <1>5, <1>6, <1>7, <1>8 DEF IInv

LEMMA FinishInv ==
    ASSUME NEW g \in Games, IInv, Finish(g)
    PROVE  IInv'
<1>1. /\ UNCHANGED <<teamOf, date, filed, player, clock, ingesting, tables>>
      /\ status[g] = Live /\ status'[g] = Final
      /\ \A h \in Games \ {g} : status'[h] = status[h]
    BY DEF Finish, IInv, TypeOK
<1>2. TypeOK'
    BY <1>1 DEF Finish, IInv, TypeOK, player, clock, ingesting, tables
<1>3. \A h \in Games : Played(h)' <=> Played(h)
    BY <1>1 DEF Played, Scheduled, Live, Final
<1>4. Calendar' /\ Rosters' /\ Rows'
    <2>1. Calendar'
        BY <1>1, <1>3 DEF IInv, Calendar, clock, Live, Final
    <2>2. Rosters'
        BY <1>1, <1>3 DEF IInv, Rosters, TypeOK, IsReal, player, clock
    <2>3. Rows'
        <3>1. \A f \in Fixtures : f[1] \in Games
            BY DEF Fixtures
        <3> QED
            BY <1>1, <1>3, <3>1 DEF IInv, Rows, IsReal, player, tables, Fixtures, Days
    <2> QED
        BY <2>1, <2>2, <2>3
<1>5. Lines' /\ Known' /\ Runs' /\ Fetched' /\ Classified'
    BY <1>1, <1>3, TablesStay DEF IInv, TypeOK, player, clock, Days
<1> QED
    BY <1>2, <1>4, <1>5 DEF IInv

\* Before the one trade he has no row and no game of another team.
LEMMA TradeInv ==
    ASSUME NEW to \in Teams, IInv, Trade(to)
    PROVE  IInv'
<1>1. /\ UNCHANGED <<nba, part, veteran, today, slateFinal, ingesting, tables>>
      /\ to # team /\ joined = NoDay /\ team' = to /\ joined' = today
    BY DEF Trade
<1>2. TypeOK'
    BY <1>1, BoundsAssumption DEF Trade, IInv, TypeOK, nba, ingesting, tables
<1>3. today \in Nat \ {0}
    BY DEF IInv, TypeOK, Days
<1>4. \A g \in Games : Played(g)' <=> Played(g)
    BY <1>1 DEF nba, Played
<1>5. Calendar'
    BY <1>1, <1>4 DEF IInv, Calendar, nba
<1>6. Rosters'
    <2>1. \A g \in part : IsReal(g) => teamOf[g] = team
        BY <1>1 DEF IInv, Rosters
    <2>2. \A g \in Games : Played(g) => date[g] \in 1..today
        BY DEF IInv, Calendar
    <2> QED
        BY <1>1, <1>3, <1>4, <2>1, <2>2 DEF IInv, Rosters, TypeOK, nba, IsReal, NoDay
<1>7. Rows'
    <2>1. \A f \in Fixtures : box[f] # "none" => teamOf[f[1]] # to
        BY <1>1 DEF IInv, Rows, IsReal
    <2> QED
        BY <1>1, <1>3, <2>1 DEF Rows, nba, tables, NoDay
<1>8. Lines' /\ Known' /\ Runs' /\ Fetched' /\ Classified'
    BY <1>1, <1>3, <1>4, TablesStay DEF nba
<1> QED
    BY <1>2, <1>5, <1>6, <1>7, <1>8 DEF IInv

LEMMA ClockInv ==
    ASSUME IInv, Midnight \/ SlateCompletes
    PROVE  IInv'
<1>1. /\ UNCHANGED <<nba, player, upsets, ingesting, tables>>
      /\ \/ slateFinal /\ today < NDays /\ today' = today + 1 /\ slateFinal' = FALSE
         \/ /\ ~ slateFinal /\ today' = today /\ slateFinal' = TRUE
            /\ \A g \in Games : status[g] # Live
    BY DEF Midnight, SlateCompletes
<1>2. TypeOK'
    <2>1. today' \in Days /\ slateFinal' \in BOOLEAN
        <3>1. today \in Days /\ (today' = today \/ (today < NDays /\ today' = today + 1))
            BY <1>1 DEF IInv, TypeOK
        <3>2. today' \in Days
            BY <3>1, BoundsAssumption DEF Days
        <3>3. slateFinal' \in BOOLEAN
            BY <1>1
        <3> QED
            BY <3>2, <3>3
    <2>2. UNCHANGED <<nba, player, upsets, ingesting, tables>>
        BY <1>1
    <2> QED
        BY <2>1, <2>2 DEF IInv, TypeOK, nba, player, ingesting, tables
<1>3. today \in Nat /\ today' \in Nat /\ today <= today'
    BY <1>1 DEF IInv, TypeOK, Days
<1>4. \A g \in Games : Played(g)' <=> Played(g)
    BY <1>1 DEF nba, Played
<1>5. Calendar'
    BY <1>1, <1>3, <1>4 DEF IInv, Calendar, nba
<1>6. Rosters'
    <2>1. joined \in Int
        BY DEF IInv, TypeOK, Days, NoDay
    <2> QED
        BY <1>1, <1>3, <1>4, <2>1 DEF IInv, Rosters, TypeOK, nba, player, IsReal
<1>7. Rows'
    <2>1. \A f \in Fixtures : f[1] \in Games
        BY DEF Fixtures
    <2> QED
        BY <1>1, <1>4, <2>1 DEF IInv, Rows, IsReal, nba, player, tables, Fixtures, Days
<1>8. Lines' /\ Known' /\ Runs' /\ Fetched' /\ Classified'
    BY <1>1, <1>3, <1>4, TablesStay DEF nba, player
<1> QED
    BY <1>2, <1>5, <1>6, <1>7, <1>8 DEF IInv

-----------------------------------------------------------------------------
\* The ingest's steps.

\* The payload lists him only for games he was there for, or may yet be.
LEMMA ListedRow ==
    ASSUME IInv, NEW f \in Fixtures, Lists(f)
    PROVE  /\ joined = NoDay /\ IsReal(f[1]) => teamOf[f[1]] = team
           /\ teamOf[f[1]] = team => joined <= f[2]
           /\ teamOf[f[1]] = team /\ f[2] = date[f[1]] /\ Played(f[1]) => f[1] \in part
<1>1. f[1] \in Games /\ team \in Teams /\ team # AllStars
    BY TeamsAssumption DEF Fixtures, IInv, TypeOK
<1>2. CASE f[2] = date[f[1]] /\ status[f[1]] # Scheduled
    <2>1. f[1] \in part
        BY <1>2 DEF Lists
    <2> QED
        BY <1>1, <1>2, <2>1 DEF IInv, Rosters, IsReal
<1>3. CASE ~ (f[2] = date[f[1]] /\ status[f[1]] # Scheduled)
    <2>1. teamOf[f[1]] = AllStars \/ (teamOf[f[1]] = team /\ joined <= f[2])
        BY <1>3, Zenon DEF Lists
    <2> QED
        BY <1>1, <1>3, <2>1, TeamsAssumption DEF IsReal, Played
<1> QED
    BY <1>2, <1>3

\* Stats asked for once the slate was final: a game of before last night is there
\* with its lines, and one of last night that has lines now has them in full.
LEMMA PayloadOf ==
    ASSUME IInv, slateFinal, NEW late \in SUBSET Awaited, NEW blank \in SUBSET (Awaited \ late),
           NEW ahead \in BOOLEAN, NEW g \in part, date[g] < today
    PROVE  /\ <<g, date[g]>> \in Fixtures
           /\ Carried(<<g, date[g]>>, late, ahead) /\ HasLines(<<g, date[g]>>, blank) =>
                  Lists(<<g, date[g]>>) /\ RowOf(<<g, date[g]>>, blank) = "full"
           /\ <<g, date[g]>> \in lines => Carried(<<g, date[g]>>, late, ahead)
           /\ date[g] < today - 1 =>
                  Carried(<<g, date[g]>>, late, ahead) /\ HasLines(<<g, date[g]>>, blank)
<1> DEFINE f == <<g, date[g]>>
<1>1. /\ g \in Games /\ status[g] # Scheduled /\ status[g] # Live
      /\ date[g] \in Days /\ today \in Days
    <2>1. g \in Games /\ Played(g)
        BY DEF IInv, TypeOK, Rosters
    <2>2. date[g] \in 1..today /\ (status[g] = Live => date[g] = today) /\ today \in Days
        BY <2>1 DEF IInv, Calendar, TypeOK
    <2> QED
        BY <2>1, <2>2, BoundsAssumption DEF Played, Days
<1>2. f \in Fixtures /\ f[1] = g /\ f[2] = date[g]
    BY <1>1 DEF Fixtures
<1>3. Carried(f, late, ahead) <=> g \notin late \/ date[g] \in filed[g]
    BY <1>1, <1>2 DEF Carried
<1>4. HasLines(f, blank) <=> g \notin blank
    BY <1>1, <1>2 DEF HasLines
<1>5. Lists(f)
    BY <1>1, <1>2 DEF Lists
<1>6. HasLines(f, blank) => RowOf(f, blank) = "full"
    BY <1>1, <1>2 DEF RowOf
<1>7. g \in Awaited => f \notin lines /\ date[g] >= today - 1
    BY DEF Awaited, Recent
<1>8. date[g] < today - 1 => g \notin Awaited
    BY <1>1, <1>7 DEF Days
<1> HIDE DEF f
<1>9. f \in lines => Carried(f, late, ahead)
    BY <1>3, <1>7
<1>10. date[g] < today - 1 => Carried(f, late, ahead) /\ HasLines(f, blank)
    BY <1>3, <1>4, <1>8
<1> QED
    BY <1>2, <1>5, <1>6, <1>9, <1>10 DEF f

LEMMA StoreStatsInv ==
    ASSUME NEW late \in SUBSET Awaited, NEW blank \in SUBSET (Awaited \ late),
           NEW ahead \in BOOLEAN, IInv, StoreStats(late, blank, ahead)
    PROVE  IInv'
<1> DEFINE carried == {f \in Fixtures : Carried(f, late, ahead)}
<1>1. /\ UNCHANGED <<nba, player, clock, sched>>
      /\ ingest' = [step |-> "stats", day |-> today]
      /\ run' = [status |-> "running", statsOn |-> IF slateFinal THEN today ELSE NoDay]
      /\ dbTeam' = team
      /\ box' = [f \in Fixtures |-> IF f \in carried /\ Lists(f) THEN RowOf(f, blank) ELSE box[f]]
      /\ lines' = (lines \ carried) \cup {f \in carried : HasLines(f, blank)}
      /\ state' = [f \in Fixtures |-> IF state[f] = "none" /\ f \in carried THEN "new"
                                      ELSE state[f]]
    BY DEF StoreStats
<1>2. ingests' \in 0..MaxIngests
    BY BoundsAssumption DEF StoreStats, IInv, TypeOK
<1>3. /\ carried \subseteq Fixtures
      /\ \A f \in Fixtures : f \in carried <=> Carried(f, late, ahead)
    OBVIOUS
<1> HIDE DEF carried
<1>4. TypeOK'
    <2>1. box' \in [Fixtures -> {"none", "blank", "partial", "full"}]
        <3>1. \A f \in Fixtures : RowOf(f, blank) \in {"none", "blank", "partial", "full"}
            BY DEF RowOf
        <3> QED
            BY <1>1, <3>1 DEF IInv, TypeOK
    <2>2. lines' \subseteq Fixtures
        BY <1>1, <1>3 DEF IInv, TypeOK
    <2>3. state' \in [Fixtures -> States]
        BY <1>1 DEF IInv, TypeOK, States
    <2>4. today \in Days
        BY DEF IInv, TypeOK
    <2>5. run' \in [status : {"running", "complete"}, statsOn : Days \cup {NoDay}]
        BY <1>1, <2>4
    <2>6. ingest' \in [step : {"idle", "stats"}, day : Days \cup {NoDay}]
        BY <1>1, <2>4
    <2>7. UNCHANGED <<nba, player, clock, sched>> /\ dbTeam' = team
        BY <1>1
    <2> QED
        BY <1>2, <2>1, <2>2, <2>3, <2>5, <2>6, <2>7 DEF IInv, TypeOK, nba, player, clock
<1>5. Calendar' /\ Rosters' /\ Known'
    BY <1>1 DEF IInv, Calendar, Rosters, Known, Played, IsReal, nba, player, clock
<1>6. Rows'
    <2>1. ASSUME NEW f \in Fixtures, box'[f] # "none"
          PROVE  /\ joined = NoDay /\ IsReal(f[1]) => teamOf[f[1]] = team
                 /\ teamOf[f[1]] = team => joined <= f[2]
                 /\ teamOf[f[1]] = team /\ f[2] = date[f[1]] /\ Played(f[1]) => f[1] \in part
        <3>1. CASE Lists(f)
            BY <3>1, ListedRow
        <3>2. CASE ~ Lists(f)
            <4>1. box[f] # "none"
                BY <1>1, <2>1, <3>2
            <4> QED
                BY <4>1 DEF IInv, Rows
        <3> QED
            BY <3>1, <3>2
    <2> QED
        BY <1>1, <2>1 DEF Rows, nba, player, Played, IsReal, Fixtures, Days
<1>7. Lines'
    <2>1. ASSUME NEW f \in lines' PROVE f[2] = date[f[1]] /\ Played(f[1])
        BY <1>1, <2>1 DEF IInv, Lines, HasLines, Played
    <2> QED
        BY <1>1, <2>1 DEF Lines, nba, Played
<1>8. Runs'
    <2>1. run'.statsOn = (IF slateFinal THEN today ELSE NoDay) /\ run'.status = "running"
          /\ ingest'.day = today /\ today \in Days /\ today' = today /\ slateFinal' = slateFinal
        BY <1>1 DEF clock, IInv, TypeOK
    <2> QED
        BY <2>1 DEF Runs, Days, NoDay
<1>9. Fetched'
    <2> SUFFICES ASSUME run'.statsOn # NoDay, NEW g \in part, date[g] < run'.statsOn
                 PROVE  /\ <<g, date[g]>> \in lines' => box'[<<g, date[g]>>] = "full"
                        /\ date[g] < run'.statsOn - 1 =>
                               <<g, date[g]>> \in lines' /\ state'[<<g, date[g]>>] # "none"
        <3>1. run'.statsOn \in Int /\ \A g \in part : date[g] \in Int
            BY <1>1 DEF IInv, TypeOK, Days, NoDay
        <3> QED
            BY <1>1, <3>1 DEF Fetched, nba, player
    <2>1. slateFinal /\ run'.statsOn = today
        BY <1>1
    <2> DEFINE f == <<g, date[g]>>
    <2>2. /\ f \in Fixtures
          /\ f \in carried /\ HasLines(f, blank) => Lists(f) /\ RowOf(f, blank) = "full"
          /\ f \in lines => f \in carried
          /\ date[g] < today - 1 => f \in carried /\ HasLines(f, blank)
        BY <1>3, <2>1, PayloadOf
    <2> HIDE DEF f
    <2>3. f \in lines' => box'[f] = "full"
        BY <1>1, <2>2
    <2>4. date[g] < today - 1 => f \in lines' /\ state'[f] # "none"
        BY <1>1, <2>2
    <2> QED
        BY <2>1, <2>3, <2>4 DEF f
<1>10. Classified'
    BY <1>1 DEF Classified
<1> QED
    BY <1>4, <1>5, <1>6, <1>7, <1>8, <1>9, <1>10 DEF IInv

LEMMA FixtureStates ==
    ASSUME NEW f, NEW table, NEW day
    PROVE  FixtureState(f, table, day) \in States \ {"none", "new"}
BY DEF FixtureState, States

\* The schedule stored is the NBA's of this moment, but for a status that lags.
LEMMA StoreScheduleInv ==
    ASSUME NEW lagging \in SUBSET Recent, NEW swept, IInv, StoreSchedule(lagging, swept)
    PROVE  IInv'
<1>1. /\ UNCHANGED <<nba, player, clock, ingests, dbTeam, box, lines>>
      /\ ingest.step = "stats"
      /\ state' = [f \in Fixtures |-> IF state[f] = "none" THEN "none"
                                      ELSE FixtureState(f, sched', ingest.day)]
      /\ run' = [run EXCEPT !.status = "complete"]
      /\ ingest' = [step |-> "idle", day |-> NoDay]
    BY DEF StoreSchedule
<1>2. /\ run'.statsOn = run.statsOn /\ run'.status = "complete"
      /\ run' \in [status : {"running", "complete"}, statsOn : Days \cup {NoDay}]
    BY <1>1 DEF IInv, TypeOK
<1>3. ASSUME NEW g \in Games
      PROVE  /\ sched'[g] \in [date : Days \cup {NoDay}, tip : Days \cup {NoDay},
                               status : {Scheduled, Live, Final}]
             /\ IsReal(g) => sched'[g].date = date[g]
             /\ sched'[g].status # Scheduled => Played(g) /\ sched'[g].date = date[g]
    <2>1. CASE IsReal(g)
        <3> DEFINE row == Upserted(g, lagging)
        <3>1. sched'[g] = Swept(row, g \in swept)
            BY <2>1 DEF StoreSchedule
        <3>2. /\ row \in [date : Days \cup {NoDay}, tip : Days \cup {NoDay},
                          status : {Scheduled, Live, Final}]
              /\ row.date = date[g]
              /\ row.status # Scheduled => Played(g)
            BY DEF Upserted, IInv, TypeOK, Recent, Played
        <3> HIDE DEF row
        <3>3. /\ Swept(row, g \in swept) \in [date : Days \cup {NoDay}, tip : Days \cup {NoDay},
                                              status : {Scheduled, Live, Final}]
              /\ Swept(row, g \in swept).date = row.date
              /\ Swept(row, g \in swept).status = row.status
            BY <3>2 DEF Swept
        <3> QED
            BY <3>1, <3>2, <3>3
    <2>2. CASE ~ IsReal(g)
        <3>1. sched'[g] = NotScheduled
            BY <2>2 DEF StoreSchedule
        <3> QED
            BY <2>2, <3>1 DEF NotScheduled
    <2> QED
        BY <2>1, <2>2
<1>4. TypeOK'
    <2>1. sched' \in [Games -> [date : Days \cup {NoDay}, tip : Days \cup {NoDay},
                                status : {Scheduled, Live, Final}]]
        <3>1. sched' = [g \in Games |-> sched'[g]]
            BY DEF StoreSchedule
        <3> QED
            BY <1>3, <3>1
    <2>2. state' \in [Fixtures -> States]
        BY <1>1, FixtureStates DEF States
    <2>3. ingest' \in [step : {"idle", "stats"}, day : Days \cup {NoDay}]
        BY <1>1
    <2> QED
        BY <1>1, <1>2, <2>1, <2>2, <2>3 DEF IInv, TypeOK, nba, player, clock
<1>5. Calendar' /\ Rosters' /\ Rows' /\ Lines'
    BY <1>1 DEF IInv, Calendar, Rosters, Rows, Lines, Played, IsReal, nba, player, clock,
        Fixtures, Days
<1>6. Known'
    BY <1>1, <1>3 DEF Known, Played, nba
<1>7. Runs'
    BY <1>1, <1>2 DEF IInv, Runs, clock
<1>8. Fetched'
    <2>1. \A f \in Fixtures : state[f] # "none" => state'[f] # "none"
        BY <1>1, FixtureStates
    <2>2. \A g \in part : <<g, date[g]>> \in lines => <<g, date[g]>> \in Fixtures
        BY DEF IInv, TypeOK
    <2> QED
        BY <1>1, <1>2, <2>1, <2>2 DEF IInv, Fetched, nba, player
<1>9. Classified'
    <2> SUFFICES ASSUME run.statsOn # NoDay
                 PROVE  /\ \A f \in Fixtures :
                               state'[f] = "none" \/ state'[f] = FixtureState(f, sched, run.statsOn)'
                        /\ \A g \in Games : (IsReal(g) /\ Played(g) /\ date[g] < run.statsOn)'
                               => sched'[g].date = date'[g]
        BY <1>2 DEF Classified, Fixtures, Days
    <2>1. ingest.day = run'.statsOn
        BY <1>1, <1>2 DEF IInv, Runs
    <2>2. \A f : FixtureState(f, sched, run.statsOn)' = FixtureState(f, sched', ingest.day)
        BY <1>1, <2>1 DEF FixtureState, Linked, IsReal, nba
    <2> QED
        BY <1>1, <1>3, <2>2 DEF IsReal, nba
<1> QED
    BY <1>4, <1>5, <1>6, <1>7, <1>8, <1>9 DEF IInv

LEMMA IngestDiesInv ==
    ASSUME IInv, IngestDies
    PROVE  IInv'
<1>1. UNCHANGED <<nba, player, clock, ingests, tables>> /\ ingest' = [step |-> "idle", day |-> NoDay]
    BY DEF IngestDies
<1>2. TypeOK'
    <2>1. ingest' \in [step : {"idle", "stats"}, day : Days \cup {NoDay}]
        BY <1>1
    <2> QED
        BY <1>1, <2>1 DEF IInv, TypeOK, nba, player, clock, tables
<1>3. Calendar' /\ Rosters' /\ Rows' /\ Lines' /\ Known' /\ Fetched'
    BY <1>1 DEF IInv, Calendar, Rosters, Rows, Lines, Known, Fetched, Played, IsReal,
        nba, player, clock, tables, Fixtures, Days
<1>4. Runs'
    BY <1>1 DEF IInv, Runs, clock, tables
<1>5. Classified'
    BY <1>1, SameState DEF IInv, Classified, Played, IsReal, nba, tables, Fixtures, Days
<1> QED
    BY <1>2, <1>3, <1>4, <1>5 DEF IInv

LEMMA NextInv == IInv /\ [Next]_vars => IInv'
<1> SUFFICES ASSUME IInv, [Next]_vars PROVE IInv'
    OBVIOUS
<1>1. CASE UNCHANGED vars
    <2>1. UNCHANGED <<nba, player, clock, ingesting, tables>>
        BY <1>1 DEF vars
    <2>2. TypeOK'
        BY <2>1 DEF IInv, TypeOK, nba, player, clock, ingesting, tables
    <2>3. Calendar' /\ Rosters' /\ Rows'
        BY <2>1 DEF IInv, Calendar, Rosters, Rows, Played, IsReal, nba, player, clock, tables,
            Fixtures, Days
    <2>4. Lines' /\ Known' /\ Runs' /\ Fetched' /\ Classified'
        BY <2>1, TablesStay DEF IInv, TypeOK, nba, player, clock, Days, Played
    <2> QED
        BY <2>2, <2>3, <2>4 DEF IInv
<1>2. ASSUME NEW g \in Games,
             \/ \E d \in Days \cup {NoDay}, withTime \in BOOLEAN : Move(g, d, withTime)
             \/ CallOff(g) \/ NameTime(g) \/ Tip(g) \/ Finish(g)
      PROVE  IInv'
    BY <1>2, MoveInv, StillInv, TipInv, FinishInv
<1>3. CASE \E to \in Teams : Trade(to)
    BY <1>3, TradeInv
<1>4. CASE Midnight \/ SlateCompletes \/ IngestDies
    BY <1>4, ClockInv, IngestDiesInv
<1>5. CASE \E late \in SUBSET Awaited, ahead \in BOOLEAN :
               \E blank \in SUBSET (Awaited \ late) : StoreStats(late, blank, ahead)
    BY <1>5, StoreStatsInv
<1>6. CASE \E lagging \in SUBSET Recent :
               \E swept \in SUBSET (Games \ timed) : StoreSchedule(lagging, swept)
    BY <1>6, StoreScheduleInv
<1> QED
    BY <1>1, <1>2, <1>3, <1>4, <1>5, <1>6 DEF Next

-----------------------------------------------------------------------------
\* The strengthening holds of every behaviour, and with it the types.
THEOREM Invariance == Spec => []IInv
<1>1. Init => IInv
    BY InitInv
<1>2. IInv /\ [Next]_vars => IInv'
    BY NextInv
<1> QED
    BY <1>1, <1>2, PTL DEF Spec

\* Every variable of a slate keeps its type.
THEOREM Types == Spec => []TypeOK
<1>1. IInv => TypeOK
    BY DEF IInv
<1> QED
    BY <1>1, Invariance, PTL

\* This morning's evidence: the run is complete, its stats were asked for today, and
\* every fixture has the state its lines and the schedule give it.
LEMMA ThisMorning ==
    ASSUME IInv, StatsEvidence
    PROVE  /\ slateFinal /\ run.statsOn = today /\ today \in Nat \ {0}
           /\ \A f \in Fixtures :
                  state[f] = "none" \/ state[f] = FixtureState(f, sched, today)
           /\ \A g \in Games :
                  IsReal(g) /\ Played(g) /\ date[g] < today => sched[g].date = date[g]
<1>1. run.statsOn = today /\ run.status = "complete" /\ today \in Days
    BY DEF StatsEvidence, IInv, TypeOK
<1>2. today \in Nat \ {0} /\ today # NoDay
    BY <1>1 DEF Days, NoDay
<1> QED
    BY <1>1, <1>2 DEF IInv, Runs, Classified

\* A fixture whose state reads as final has its lines: it was played on its date.
LEMMA FinalHasLines ==
    ASSUME NEW f, NEW table, NEW day, FixtureState(f, table, day) \in {"final", "new"}
    PROVE  f \in lines
BY DEF FixtureState

\* A fixture under way or not accounted for is one the schedule has on that date.
LEMMA UnsettledState ==
    ASSUME NEW f, NEW table, NEW day, FixtureState(f, table, day) \in {"in_progress", "unknown"}
    PROVE  Linked(f, table)
BY DEF FixtureState

\* Whatever moves, is called off or is late, and wherever he is traded: a live digest
\* counts as played only games played to their end on that date, with his whole row.
THEOREM ObservedWerePlayed == Spec => []ObservedIsPlayed
<1>1. IInv => ObservedIsPlayed
    <2> SUFFICES ASSUME IInv, Proceeds, NEW f \in Observed
                 PROVE  /\ status[f[1]] = Final /\ date[f[1]] = f[2]
                        /\ f[1] \in part => box[f] = "full"
        BY DEF ObservedIsPlayed
    <2>1. /\ slateFinal /\ run.statsOn = today /\ today \in Nat \ {0}
          /\ \A h \in Fixtures : state[h] = "none" \/ state[h] = FixtureState(h, sched, today)
        BY ThisMorning DEF Proceeds
    <2>2. f \in Fixtures /\ f[1] \in Games /\ f[2] \in Int /\ f[2] < today /\ f = <<f[1], f[2]>>
          /\ state[f] \in {"final", "new"}
        BY <2>1 DEF Observed, IsFinalFixture, KnownThrough, Fixtures, Days
    <2>3. f \in lines
        BY <2>1, <2>2, FinalHasLines
    <2>4. date[f[1]] = f[2] /\ status[f[1]] # Scheduled
        BY <2>3 DEF IInv, Lines, Played
    <2>5. status[f[1]] = Final
        <3>1. status[f[1]] \in {Scheduled, Live, Final}
            BY <2>2 DEF IInv, TypeOK
        <3>2. status[f[1]] # Live
            BY <2>1, <2>2, <2>4 DEF IInv, Calendar
        <3> QED
            BY <2>4, <3>1, <3>2
    <2>6. f[1] \in part => box[f] = "full"
        BY <2>1, <2>2, <2>3, <2>4 DEF IInv, Fetched, NoDay
    <2> QED
        BY <2>4, <2>5, <2>6
<1> QED
    BY <1>1, Invariance, PTL

\* No game he played before last night is missing from a slate a digest goes by, nor
\* one of last night that the calendar gives his team, however late its result.
THEOREM PlayedIsObserved == Spec => []NothingPlayedIsLost
<1>1. IInv => NothingPlayedIsLost
    <2> SUFFICES ASSUME IInv, Proceeds, NEW g \in part, IsReal(g), date[g] <= KnownThrough,
                        date[g] = KnownThrough =>
                            /\ teamOf[g] = dbTeam /\ Belongs
                            /\ \A h \in Games \ {g} : box[<<h, KnownThrough>>] = "none"
                 PROVE  <<g, date[g]>> \in Observed
        BY DEF NothingPlayedIsLost
    <2> DEFINE f == <<g, date[g]>>
    <2>1. /\ slateFinal /\ run.statsOn = today /\ today \in Nat \ {0}
          /\ \A h \in Fixtures : state[h] = "none" \/ state[h] = FixtureState(h, sched, today)
          /\ \A h \in Games : IsReal(h) /\ Played(h) /\ date[h] < today => sched[h].date = date[h]
          /\ Unsettled = {}
        BY ThisMorning DEF Proceeds
    <2>2. g \in Games /\ Played(g) /\ date[g] \in Days
        <3>1. g \in Games /\ Played(g)
            BY DEF IInv, TypeOK, Rosters
        <3>2. date[g] \in 1..today /\ today \in Days
            BY <3>1 DEF IInv, Calendar, TypeOK
        <3> QED
            BY <3>1, <3>2, BoundsAssumption DEF Days
    <2>3. f \in Fixtures /\ f[1] = g /\ f[2] = date[g]
        BY <2>2 DEF Fixtures
    <2>4. CASE date[g] = KnownThrough
        <3>1. sched[g].date = KnownThrough
            BY <2>1, <2>2, <2>4 DEF KnownThrough
        <3>2. DueLastNight
            BY <2>2, <2>4, <3>1 DEF DueLastNight, TeamOf
        <3>3. KnownThrough \in Days /\ Belongs
            BY <2>2, <2>4
        <3>4. PICK h \in Observed : h[2] = KnownThrough
            BY <2>1, <3>2, <3>3 DEF Unsettled
        <3>5. h \in Fixtures /\ h = <<h[1], h[2]>> /\ h[1] \in Games /\ box[h] # "none"
            BY <3>4 DEF Observed, Fixtures
        <3>6. h[1] = g
            BY <2>4, <3>4, <3>5
        <3> QED
            BY <2>4, <3>4, <3>5, <3>6
    <2>5. CASE date[g] # KnownThrough
        <3>1. f \in lines /\ state[f] # "none" /\ box[f] = "full"
            BY <2>1, <2>2, <2>5 DEF IInv, Fetched, NoDay, KnownThrough, Days
        <3>2. state[f] \in {"final", "in_progress"}
            BY <2>1, <2>3, <3>1 DEF FixtureState
        <3>3. state[f] # "in_progress"
            <4>1. Stuck = {}
                BY <2>1 DEF Unsettled
            <4> QED
                BY <2>2, <3>1, <4>1 DEF Stuck
        <3> HIDE DEF f
        <3> QED
            BY <2>3, <3>1, <3>2, <3>3 DEF Observed, IsFinalFixture, f
    <2> QED
        BY <2>4, <2>5
<1> QED
    BY <1>1, Invariance, PTL

\* On this morning's evidence, a digest is held up only by a game that could be his: not
\* by one moved to another day, nor by one his team played before he joined it.
THEOREM HeldUpWithCause == Spec => []HeldUpByHisOwn
<1>1. IInv => HeldUpByHisOwn
    <2> SUFFICES ASSUME IInv, StatsEvidence, NEW d \in Unsettled
                 PROVE  \E g \in Games :
                            \/ d = sched[g].date /\ sched[g].status = Scheduled
                            \/ /\ d = date[g]
                               /\ \/ g \in part
                                  \/ teamOf[g] # team
                                  \/ d = KnownThrough /\ teamOf[g] \in veteran
        BY DEF HeldUpByHisOwn
    <2>1. /\ slateFinal /\ run.statsOn = today /\ today \in Nat \ {0}
          /\ \A h \in Fixtures : state[h] = "none" \/ state[h] = FixtureState(h, sched, today)
        BY ThisMorning
    <2>2. \A g \in Games : sched[g].status # Scheduled => Played(g) /\ sched[g].date = date[g]
        BY DEF IInv, Known
    <2>3. CASE d \in Stuck
        <3>1. PICK g \in Games : /\ d \in Days /\ box[<<g, d>>] # "none"
                                 /\ state[<<g, d>>] \in {"in_progress", "unknown"}
            BY <2>3 DEF Stuck
        <3> DEFINE f == <<g, d>>
        <3>2. f \in Fixtures /\ f[1] = g /\ f[2] = d
            BY <3>1 DEF Fixtures
        <3>3. sched[g].date = d
            BY <2>1, <3>1, <3>2, UnsettledState DEF Linked
        <3>4. sched[g].status # Scheduled => d = date[g] /\ (g \in part \/ teamOf[g] # team)
            BY <2>2, <3>1, <3>2, <3>3 DEF IInv, Rows
        <3> QED
            BY <3>3, <3>4
    <2>4. CASE d \notin Stuck
        <3>1. d = KnownThrough /\ DueLastNight /\ Belongs
            BY <2>4 DEF Unsettled
        <3>2. PICK g \in Games : teamOf[g] = dbTeam /\ sched[g].date = d
            BY <3>1 DEF DueLastNight, TeamOf
        <3>3. ASSUME sched[g].status # Scheduled, teamOf[g] = team, g \notin part
              PROVE  teamOf[g] \in veteran
            <4>1. Played(g) /\ date[g] = d
                BY <2>2, <3>2, <3>3
            <4>2. date[g] \in Int /\ joined \in Int
                BY DEF IInv, TypeOK, Days, NoDay
            <4>3. d <= joined
                BY <3>3, <4>1, <4>2 DEF IInv, Rosters
            <4>4. ~ \E f \in Fixtures : /\ box[f] # "none"
                                        /\ teamOf[f[1]] = TeamOf
                                        /\ f[2] < KnownThrough
                <5> SUFFICES ASSUME NEW f \in Fixtures, box[f] # "none", teamOf[f[1]] = TeamOf,
                                    f[2] < KnownThrough
                             PROVE  FALSE
                    OBVIOUS
                <5>1. joined <= f[2] /\ f[2] \in Int
                    BY <3>2, <3>3 DEF IInv, Rows, TeamOf, Fixtures, Days
                <5> QED
                    BY <3>1, <4>1, <4>2, <4>3, <5>1
            <4> QED
                BY <3>1, <3>2, <4>4 DEF Belongs, TeamOf
        <3> QED
            BY <2>2, <3>1, <3>2, <3>3
    <2> QED
        BY <2>3, <2>4
<1> QED
    BY <1>1, Invariance, PTL
=============================================================================
