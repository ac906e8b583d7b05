------------------------------- MODULE MCOpening -------------------------------
\* Two ingests and a digest open last season's file, an old one, a mixed one or
\* none, configured for last season, for this one, or for a mix of both.
EXTENDS Opening

MCSeasonOf == [old |-> 2025, new |-> 2026]
Config(league, season) == [league |-> league, season |-> season]
MCConfigs == {Config("old", 2025), Config("new", 2026), Config("new", 2025)}

Whole   == [a |-> 1, b |-> 2, c |-> 5]
Dropped == [b |-> 2, c |-> 5]
MCLineups == {Whole, Dropped}
MCScores  == 1..5

Poll(lineup) == [repair |-> FALSE, rows |-> lineup, lineup |-> lineup]
Repair(rows, lineup) == [repair |-> TRUE, rows |-> rows, lineup |-> lineup]

\* Two starters repaired in turn, and one dropped after a repair.
Histories ==
    {<<Poll(Whole),
       Repair([a |-> 3], [Whole EXCEPT !.a = 3]),
       Repair([b |-> 4], [Whole EXCEPT !.a = 3, !.b = 4])>>,
     <<Poll(Whole), Repair([a |-> 3], [Whole EXCEPT !.a = 3]), Poll(Dropped)>>}

\* A file of an older version, with or without advice, its fixture played or
\* postponed, and with settings of one season or of two.
OldFile(polls, advised, occurred, settings) ==
    [NoFile EXCEPT
        !.exists = TRUE, !.tables = TRUE, !.advice = "old", !.advised = advised,
        !.latest = "by player", !.polls = polls,
        !.fixture = [occurred |-> occurred, state |-> "null"],
        !.settings = settings,
        !.leagues = {s.league : s \in settings},
        !.seasons = {s.season : s \in settings}]

\* A file of this version, its league's.
Current ==
    [NoFile EXCEPT
        !.exists = TRUE, !.tables = TRUE, !.columns = Added, !.advice = "new",
        !.advised = {"before"}, !.latest = "by poll", !.polls = <<Poll(Whole)>>,
        !.fixture = [occurred |-> "yes", state |-> "final"], !.migrated = Migrations,
        !.identity = Config("old", 2025), !.settings = {Config("old", 2025)},
        !.leagues = {"old"}, !.seasons = {2025}]

OneSeasons == {Config("old", 2025)}
TwoSeasons == {Config("old", 2025), Config("new", 2026)}

MCFiles ==
    {NoFile, Current, OldFile(<<>>, {}, "null", {})}
    \cup {OldFile(polls, advised, "yes", OneSeasons) :
                polls \in Histories, advised \in {{}, {"before"}}}
    \cup {OldFile(<<Poll(Dropped)>>, {}, "no", TwoSeasons)}
================================================================================
