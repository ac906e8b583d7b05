-------------------------------- MODULE Opening --------------------------------
(***************************************************************************)
(* Every command opens the season's file, whatever state an older version   *)
(* or a crash left it in: it applies the schema, the columns and the data   *)
(* migrations that are missing, and then refuses a file of another league   *)
(* or season (lockin/store/db.py connect to session,                        *)
(* lockin/store/identity.py). Several may be opening it at once.            *)
(*                                                                         *)
(* External to the repository: SQLite. Outside a transaction each statement *)
(* commits by itself; a transaction that writes what it read too long ago   *)
(* is refused. Who waits for whom is SharedStore's subject: here the first  *)
(* of two transactions to commit is the one that does.                      *)
(*                                                                         *)
(* Abstracted: one roster-week stands for the polls, one fixture for the    *)
(* links, and only the columns a migration needs are named.                 *)
(***************************************************************************)
EXTENDS Integers, Sequences

CONSTANTS
    Ingests,     \* `lockin ingest` processes, each run once
    Digests,     \* `lockin digest` processes: any command but ingest
    Configs,     \* the leagues and seasons they are configured for
    SeasonOf,    \* SeasonOf[l]: the season of league l, as Sleeper returns it
    Added,       \* columns added since the first release
    Files,       \* the files they may find
    Scores,      \* what a player may have scored
    Lineups,     \* what a roster's week may be polled as: player |-> score
    NoIdentity   \* no row in db_identity

ASSUME ProcsAssumption == Ingests \cap Digests = {}
ASSUME ConfigsAssumption ==
    /\ SeasonOf \in [DOMAIN SeasonOf -> Int]
    /\ Configs \subseteq [league : DOMAIN SeasonOf, season : Int]
    /\ NoIdentity \notin [league : DOMAIN SeasonOf, season : Int]

Procs      == Ingests \cup Digests
Migrations == {"coherent-polls", "fixture-states"}

VARIABLES
    db,         \* the file: the schema it has, and its rows
    pc,         \* pc[p]: what p does next
    config,     \* config[p]: the league and season p was found configured for
    view,       \* view[p]: the file as p last read it
    done,       \* done[p]: the migrations p has read to be recorded
    disturbed   \* openings during which another process changed the file

vars == <<db, pc, config, view, done, disturbed>>

Players == UNION {DOMAIN lineup : lineup \in Lineups}

\* No file at all.
NoFile ==
    [exists |-> FALSE, tables |-> FALSE, columns |-> {}, advice |-> "none", advised |-> {},
     latest |-> "none", polls |-> <<>>, fixture |-> [occurred |-> "null", state |-> "null"],
     migrated |-> {}, identity |-> NoIdentity, settings |-> {}, leagues |-> {}, seasons |-> {}]

-----------------------------------------------------------------------------
\* What a file may be found to hold.

Leagues    == DOMAIN SeasonOf
Identities == [league : Leagues, season : Int]
Rosters    == UNION {[S -> Scores] : S \in SUBSET Players}
Polls      == [repair : BOOLEAN, rows : Rosters, lineup : Rosters]
Advisers   == Procs \cup UNION {file.advised : file \in Files}

Databases ==
    [exists : BOOLEAN, tables : BOOLEAN, columns : SUBSET Added,
     advice : {"none", "old", "new"}, advised : SUBSET Advisers,
     latest : {"none", "by player", "by poll"}, polls : Seq(Polls),
     fixture : [occurred : {"null", "no", "yes"}, state : {"null", "postponed", "final"}],
     migrated : SUBSET Migrations, identity : Identities \cup {NoIdentity},
     settings : SUBSET Identities, leagues : SUBSET Leagues, seasons : SUBSET Int]

\* f where it is defined, and g elsewhere.
Over(f, g) == [x \in DOMAIN f \cup DOMAIN g |-> IF x \in DOMAIN f THEN f[x] ELSE g[x]]

\* Every observation is whole, or, of an older version, a repair holds the rows it
\* corrected and saw the others as the observation before it did.
AreWhole(polls) == \A n \in DOMAIN polls : polls[n].rows = polls[n].lineup
AreOld(polls) ==
    \A n \in DOMAIN polls :
        polls[n].lineup = IF polls[n].repair /\ n > 1
                          THEN Over(polls[n].rows, polls[n - 1].lineup)
                          ELSE polls[n].rows

SeasonsOfRows(d) == {SeasonOf[l] : l \in d.leagues} \cup d.seasons

\* Its rows are of the season of its identity, or of its settings when they are of
\* one: a file adopted from them is taken at its word.
IsOfOneSeason(d) ==
    /\ d.identity # NoIdentity => SeasonsOfRows(d) \subseteq {d.identity.season}
    /\ d.identity = NoIdentity /\ d.settings = {} => SeasonsOfRows(d) = {}
    /\ d.identity = NoIdentity =>
          \A s \in d.settings : d.settings = {s} => SeasonsOfRows(d) \subseteq {s.season}

\* What every version has kept true of a file: its observations are whole once
\* it is recorded that they were completed, a fixture that was played has no other
\* state than final, and it is of one season.
IsSound(d) ==
    /\ IF "coherent-polls" \in d.migrated
       THEN d.latest = "by poll" /\ AreWhole(d.polls)
       ELSE AreOld(d.polls)
    /\ d.fixture.occurred = "yes" =>
          \/ d.fixture.state = "final"
          \/ d.fixture.state = "null" /\ "fixture-states" \notin d.migrated
    /\ IsOfOneSeason(d)

ASSUME FilesAssumption ==
    /\ Lineups \subseteq Rosters
    /\ \A d \in Files : d \in Databases /\ IsSound(d)

-----------------------------------------------------------------------------
\* schema.sql: what is not there is created, in today's shape; what is stays.
Created(d) ==
    [d EXCEPT !.tables  = TRUE,
              !.columns = IF d.tables THEN @ ELSE Added,
              !.advice  = IF @ = "none" THEN "new" ELSE @,
              !.latest  = IF @ = "none" THEN "by poll" ELSE @]

\* The copies with a repair completed from the poll before it as it was found.
CompletedFromFound(polls) ==
    [n \in DOMAIN polls |->
        IF polls[n].repair /\ n > 1
        THEN [polls[n] EXCEPT !.rows = Over(@, polls[n - 1].rows)]
        ELSE polls[n]]

\* _complete_partial_polls: a repair keeps the rows it corrected and takes the
\* others from the observation before it, itself complete by then.
Completed(polls) ==
    LET rows[n \in DOMAIN polls] ==
            IF polls[n].repair /\ n > 1
            THEN Over(polls[n].rows, rows[n - 1])
            ELSE polls[n].rows
    IN  [n \in DOMAIN polls |-> [polls[n] EXCEPT !.rows = rows[n]]]

\* _migrate_coherent_polls and _migrate_fixture_states, and their record.
Migrated(d, name) ==
    CASE name = "coherent-polls" ->
            [d EXCEPT !.polls = Completed(@), !.latest = "by poll", !.migrated = @ \cup {name}]
      [] name = "fixture-states" ->
            [d EXCEPT !.fixture.state =
                        IF @ # "null" THEN @
                        ELSE CASE d.fixture.occurred = "yes" -> "final"
                               [] d.fixture.occurred = "no"  -> "postponed"
                               [] OTHER                      -> "null",
                      !.migrated = @ \cup {name}]

\* weekly_matchups_latest: the latest poll's rows, or, as the view used to have
\* it, the latest row of every player there has been.
Latest(d) ==
    LET n == Len(d.polls)
        After(x) == {m \in 1..n : x \in DOMAIN d.polls[m].rows}
        Newest(x) == CHOOSE m \in After(x) : \A k \in After(x) : k <= m
    IN  IF n = 0 THEN <<>>
        ELSE IF d.latest = "by poll" THEN d.polls[n].rows
        ELSE [x \in {x \in Players : After(x) # {}} |-> d.polls[Newest(x)].rows[x]]

-----------------------------------------------------------------------------
\* identity.py

\* _legacy: whose a file without an identity is, when its league settings say.
Legacy(d) == IF \E s \in d.settings : d.settings = {s}
             THEN CHOOSE s \in d.settings : TRUE
             ELSE NoIdentity

\* A payload taken for the league and season configured, whatever it says.
AnyPayload(want) == TRUE

\* check_payload: Sleeper's league is the one configured, and of that season.
PayloadAgrees(want) == SeasonOf[want.league] = want.season

\* check: the identity a file has, or adopts from its settings, or is given by
\* an ingest when it has nothing, is the one configured. Any other command goes
\* on to league_payload, which finds nothing in an empty file.
Admits(d, want, claim) ==
    IF d.identity # NoIdentity THEN d.identity = want
    ELSE IF d.settings = {}    THEN claim
    ELSE Legacy(d) = want

-----------------------------------------------------------------------------
\* Opening: connect and apply_schema.

Ended      == {"done", "missing", "failed", "refused", "locked", "died"}
Opening(p) == pc[p] \notin Ended \cup {"idle", "identify", "session"}

Goes(p, step) == pc' = [pc EXCEPT ![p] = step]

\* What p held is gone with it.
Ends(p, how) ==
    /\ Goes(p, how)
    /\ config' = [config EXCEPT ![p] = NoIdentity]
    /\ view'   = [view EXCEPT ![p] = NoFile]
    /\ done'   = [done EXCEPT ![p] = {}]

\* The file becomes new, under the eyes of whoever else is opening it.
Commits(p, new) ==
    /\ db' = new
    /\ disturbed' = IF new = db THEN disturbed
                    ELSE disturbed \cup {q \in Procs \ {p} : Opening(q)}

Reads(p) == view' = [view EXCEPT ![p] = db]

\* Only an ingest creates the file.
Connect(p) ==
    /\ pc[p] = "idle"
    /\ IF db.exists \/ p \in Ingests
       THEN Commits(p, [db EXCEPT !.exists = TRUE]) /\ Goes(p, "schema")
       ELSE UNCHANGED <<db, disturbed>> /\ Goes(p, "missing")
    /\ UNCHANGED <<config, view, done>>

RunSchema(p) ==
    /\ pc[p] = "schema"
    /\ Commits(p, Created(db))
    /\ Goes(p, "columns")
    /\ UNCHANGED <<config, view, done>>

ReadColumns(p) ==
    /\ pc[p] = "columns"
    /\ Reads(p)
    /\ Goes(p, "alter")
    /\ UNCHANGED <<db, config, done, disturbed>>

\* Every column, were any of them missing.
AllColumns(p) == IF view[p].columns = Added THEN {} ELSE Added

\* _apply_added_columns: those the table was read to lack.
MissingColumns(p) == Added \ view[p].columns

\* ALTER TABLE fails on a column that is there.
AddColumn(p) ==
    /\ pc[p] = "alter"
    /\ \E c \in MissingColumns(p) :
        IF c \in db.columns
        THEN UNCHANGED <<db, disturbed>> /\ Ends(p, "failed")
        ELSE /\ Commits(p, [db EXCEPT !.columns = @ \cup {c}])
             /\ view' = [view EXCEPT ![p].columns = @ \cup {c}]
             /\ UNCHANGED <<pc, config, done>>

ColumnsAdded(p) ==
    /\ pc[p] = "alter"
    /\ MissingColumns(p) = {}
    /\ Goes(p, "shape")
    /\ view' = [view EXCEPT ![p] = NoFile]
    /\ UNCHANGED <<db, config, done, disturbed>>

\* _rebuild_recommendations, in its four statements.
ReadShape(p) ==
    /\ pc[p] = "shape"
    /\ Goes(p, IF db.advice = "old" THEN "count" ELSE "migrations")
    /\ UNCHANGED <<db, config, view, done, disturbed>>

\* The count left out: what the old key held is given up.
AnyCount(p) ==
    /\ pc[p] = "count"
    /\ Goes(p, IF db.advice = "none" THEN "failed" ELSE "drop")
    /\ UNCHANGED <<db, config, view, done, disturbed>>

CountAdvice(p) ==
    /\ pc[p] = "count"
    /\ Goes(p, CASE db.advised # {} -> "migrations"
                 [] db.advised = {} /\ db.advice # "none" -> "drop"
                 [] db.advice = "none" -> "failed")
    /\ UNCHANGED <<db, config, view, done, disturbed>>

DropAdvice(p) ==
    /\ pc[p] = "drop"
    /\ IF db.advice = "none"
       THEN UNCHANGED <<db, disturbed>> /\ Goes(p, "failed")
       ELSE /\ Commits(p, [db EXCEPT !.advice = "none", !.advised = {}])
            /\ Goes(p, "recreate")
    /\ UNCHANGED <<config, view, done>>

RecreateAdvice(p) ==
    /\ pc[p] = "recreate"
    /\ Commits(p, Created(db))
    /\ Goes(p, "migrations")
    /\ UNCHANGED <<config, view, done>>

\* _apply_migrations reads once which are recorded ...
ReadMigrations(p) ==
    /\ pc[p] = "migrations"
    /\ done' = [done EXCEPT ![p] = db.migrated]
    /\ Goes(p, "coherent-polls")
    /\ UNCHANGED <<db, config, view, disturbed>>

Then(name) == IF name = "coherent-polls" THEN "fixture-states" ELSE "identify"

SkipMigration(p, name) ==
    /\ pc[p] = name
    /\ name \in done[p]
    /\ Goes(p, Then(name))
    /\ UNCHANGED <<db, config, view, done, disturbed>>

Within(name) == IF name = "coherent-polls" THEN "in coherent-polls" ELSE "in fixture-states"

\* ... and runs each of the others in a savepoint: a transaction, that reads first.
Savepoint(p, name) ==
    /\ pc[p] = name
    /\ name \notin done[p]
    /\ Reads(p)
    /\ Goes(p, Within(name))
    /\ UNCHANGED <<db, config, done, disturbed>>

\* It is refused if the file has changed, or the record is there already.
Release(p, name) ==
    /\ pc[p] = Within(name)
    /\ IF view[p] # db \/ name \in db.migrated
       THEN UNCHANGED <<db, disturbed>> /\ Ends(p, "failed")
       ELSE /\ Commits(p, Migrated(db, name))
            /\ Goes(p, Then(name))
            /\ view' = [view EXCEPT ![p] = NoFile]
            /\ UNCHANGED <<config, done>>

-----------------------------------------------------------------------------
\* The session: BEGIN, the identity, and what is written once it is known.

\* The ingest has asked Sleeper for its league's payload before.
Identify(p) ==
    /\ pc[p] = "identify"
    /\ \E want \in Configs :
        IF /\ p \in Ingests => PayloadAgrees(want)
           /\ Admits(db, want, p \in Ingests)
        THEN /\ config' = [config EXCEPT ![p] = want]
             /\ Reads(p)
             /\ Goes(p, "session")
             /\ UNCHANGED done
        ELSE Ends(p, "refused")
    /\ UNCHANGED <<db, disturbed>>

\* A transaction that would write what it no longer sees is refused.
Locked(p) ==
    /\ pc[p] = "session"
    /\ view[p] # db
    /\ Ends(p, "locked")
    /\ UNCHANGED <<db, disturbed>>

\* The ingest's first commit: the settings, a poll, the box scores and the
\* fixture's state, along with the identity they were checked against.
Ingest(p) ==
    /\ p \in Ingests
    /\ pc[p] = "session"
    /\ view[p] = db
    /\ \E lineup \in Lineups :
        Commits(p, [db EXCEPT
            !.identity = config[p],
            !.settings = @ \cup {[league |-> config[p].league,
                                  season |-> SeasonOf[config[p].league]]},
            !.leagues  = @ \cup {config[p].league},
            !.seasons  = @ \cup {config[p].season},
            !.polls    = Append(@, [repair |-> FALSE, rows |-> lineup, lineup |-> lineup]),
            !.fixture.state = "final"])
    /\ Ends(p, "done")

\* A digest records its advice, and the identity if it was adopted just now.
Advise(p) ==
    /\ p \in Digests
    /\ pc[p] = "session"
    /\ view[p] = db
    /\ Commits(p, [db EXCEPT !.identity = config[p], !.advised = @ \cup {p}])
    /\ Ends(p, "done")

\* Killed between two statements: what was not committed is gone.
Dies(p) ==
    /\ pc[p] \notin Ended \cup {"idle"}
    /\ Ends(p, "died")
    /\ UNCHANGED <<db, disturbed>>

-----------------------------------------------------------------------------
Init ==
    /\ db \in Files
    /\ pc        = [p \in Procs |-> "idle"]
    /\ config    = [p \in Procs |-> NoIdentity]
    /\ view      = [p \in Procs |-> NoFile]
    /\ done      = [p \in Procs |-> {}]
    /\ disturbed = {}

Open(p) ==
    \/ Connect(p)
    \/ RunSchema(p)
    \/ ReadColumns(p)
    \/ AddColumn(p)
    \/ ColumnsAdded(p)
    \/ ReadShape(p)
    \/ CountAdvice(p)
    \/ DropAdvice(p)
    \/ RecreateAdvice(p)
    \/ ReadMigrations(p)
    \/ \E name \in Migrations :
        SkipMigration(p, name) \/ Savepoint(p, name) \/ Release(p, name)

Session(p) == Identify(p) \/ Locked(p) \/ Ingest(p) \/ Advise(p)

Next == \E p \in Procs : Open(p) \/ Session(p) \/ Dies(p)

Spec == Init /\ [][Next]_vars

-----------------------------------------------------------------------------
\* Whoever gets to its session reads the roster's week as it was last observed,
\* repaired scores included and nobody who has left, and no played fixture
\* without a state: whatever the file was when it was found, and whoever was
\* upgrading it meanwhile or died at it (weekly_matchups_latest,
\* _complete_partial_polls).
SessionsReadWhole ==
    \A p \in Procs : pc[p] = "session" =>
        LET d == view[p]
        IN  /\ d.polls # <<>> => Latest(d) = d.polls[Len(d.polls)].lineup
            /\ d.fixture.occurred = "yes" => d.fixture.state = "final"

\* A file that has an identity holds rows of its season alone, however many
\* ingests claim it at once with whatever configuration, and none is written to
\* a file whose rows are of two (identity.py: "So a database records its identity
\* the first time it is ingested into").
OneSeason ==
    db.identity # NoIdentity => SeasonsOfRows(db) \subseteq {db.identity.season}

\* No crash, at whatever statement, leaves a file that cannot be opened: an
\* opening fails only when another process changed the file under it.
AloneOpens == \A p \in Procs : pc[p] = "failed" => p \in disturbed

\* What was advised before the upgrade is still on record
\* (_rebuild_recommendations: "rebuilt only in the case where nothing can be
\* lost"). A digest that overtakes a stalled rebuild may lose its own.
AdviceSurvives == [][db.advised \ Procs \subseteq db'.advised]_db
================================================================================
