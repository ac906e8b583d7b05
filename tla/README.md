# Sleeper Lock-In: a verification project

`lockin` is a daily assistant for Sleeper's NBA "Lock-In" fantasy leagues. Each
starter's week counts exactly one of his games: the manager may *lock* a finished
game's score until the player's next game tips, and otherwise his last game of
the week counts. Every morning a cron ingest copies Sleeper and NBA data into
SQLite; the digest then reads what has already been banked off Sleeper's counted
values, and says for every open window whether to LOCK or PASS.

This directory models that system in TLA+, checks it with TLC and proves part of
it with TLAPS. Line references are to the repository.

## 1. The system

| Part | State it keeps | Operations | What makes it correct |
|---|---|---|---|
| Lock reading (`core/locks.py`, `state.py`) | none: pure | `infer_lock`, `is_resolved`, `reading` | a value riding explains is never read as banked; a resolved reading names the right game |
| Morning digest (`digest.py`, `state.py`, `store/runs.py`, `clock.py`) | `digest_runs`, `recommendations`, `digest_banked`, `digest_warnings` | `morning`, `build`, `persist`, `earlier_lock_calls` | banks only real locks; calls exactly the open windows; abstains rather than guess; a repeated call is the same window |
| Ingest (`ingest/run.py`, `ingest/sleeper.py`, `ingest/nba.py`, `store/db.py`, `store/runs.py`) | `box_scores`, `weekly_matchups`, `game_links`, `nba_schedule`, `ingest_runs`, `ingest_stats_fetches` | fetch, checkpoint, finish; crash anywhere | a partial run never vouches for a digest; a writer elsewhere never loses its morning |
| Fixtures and slate (`slate.py`, `ingest/sleeper.py` classify) | `game_links.state` | `fixture_state`, `classify_fixtures`, `week_slate` | a game is final only on evidence; no unfinished game is read as final |
| Opening a file (`store/db.py`, `store/identity.py`, `store/schema.sql`) | schema, `schema_migrations`, `db_identity` | `connect`, `apply_schema`, `check`, `claim` | an old or half-upgraded file opens whole; one file holds one league and season |
| Snapshot archive and repair (`store/snapshots.py`, `repair.py`) | payload files, `weekly_matchups` | `save`, `consensus`, `plan`, `apply` | a final week is what most final readings say |
| Cron (`scripts/cron-guard`, `scripts/backup-snapshots`, `logrotate.conf`) | success stamps, logs | run, alert, stamp | an outage is announced, late if need be |
| Settled weeks (`locks.py`, `managers.py`) | `lock_inferences`, manager profiles | `run_inference`, `evaluate_managers` | a manager is judged by decisions he faced |
| Shadow gate (`shadow.py`) | none: reads the above | `build`, `gate` | a week called clean went well; the gate opens on such weeks only |
| Decision maths (`core/policy.py`, `core/winprob.py`, `rollout.py`, `backtest.py`) | none: pure | thresholds, win probability, rollout, replay | a verdict and the rule printed for it agree; a replay reads nothing later than its date |
| Advice page, server, push (`advice.py`, `serve.py`, `notify.py`) | none: readers | `latest_run`, `render`, `send` | nothing shut is headed "Lock now", nothing stale reads as today's |
| Week calendar (`calendar.py`, `ingest/sleeper.py` current_weeks) | league payload | `week_bounds`, `disagreement`, `current_weeks` | the week's data are of the week being played |
| Injury designations (`ingest/sleeper.py`) | `status_captures`, `player_status_events` | `record_player_status`, `designations_as_of` | what was known before a tip can be read back |
| Dashboard, projections, calibration, eligibility, scoring, reconcile, verify | derived tables | batch jobs | statistics, arithmetic and reports |

The parts meet in the database: the ingest writes, the digest reads and writes
its own rows, everything else reads. They run as separate processes started by
cron, so they interleave at SQLite's transactions. The outside world, Sleeper,
the NBA's clock and a manager with a phone, moves between any two steps.

What is hard to test here is listed in `PROJECT.json` under `hazards`.

## 2. Modules

| Module | Models | Checked by | Proofs |
|---|---|---|---|
| `LockInference` | `core/locks.py`, `state.reading`: what a counted value says of a player | through `LiveWeek`, `Hindsight` | `LiveWeekProofs` |
| `LiveWeek` | a roster's week: games, the manager's locks, ingest, poll, digest | `MCLiveWeek` | `LiveWeekProofs` |
| `AtomicStore` | what the database promises: every commit one step | by `SharedStore`, which implements it | |
| `SharedStore` | sessions on the one SQLite file: ingests and digests as processes | `MCSharedStore` | `SharedStoreProofs` |
| `Opening` | a command opens the file: schema, columns, migrations, identity | `MCOpening` | `OpeningProofs` |
| `Slate` | a player's fixtures while games move and he is traded | `MCSlate` | `SlateProofs` |
| `Archive` | the snapshot archive and the repair of a settled week | `MCArchive` | `ArchiveProofs` |
| `Crontab` | when a guarded job fires, and its guard's settings | through `Page` | |
| `CronGuard` | one guarded cron job, its stamp and its alerts | through `Page` | `PageProofs` |
| `Page` | the guarded digest, digests by hand, replays, and the page a reader opens | itself | `PageProofs` |
| `Hindsight` | weeks judged once final: shadow gate, verdicts, managers' decisions | itself | `HindsightProofs` |
| `Thresholds` | `core/policy.py`, `core/winprob.py` over given simulations | through `Rollout` | `RolloutProofs` |
| `Rollout` | a week under the rollout policy, by the digest and by the backtest | `MCRollout` | `RolloutProofs` |

How they compose. `LiveWeek` and `Hindsight` EXTEND `LockInference`: one reads a
poll of this morning, the other the final poll, by the same `InferLock`. `Page`
INSTANCEs `CronGuard`, whose job is the digest. `Rollout` EXTENDS `Thresholds`.
`SharedStore` INSTANCEs `AtomicStore` with a refinement mapping. The others cut the
system along what each step may see of another: `SharedStore` has the transactions
that `LiveWeek` takes as single steps (the ingest's one-week commits, the digest's
read and persist), `Opening` what comes before them, `Slate` the fixture states that
`LiveWeek` takes as given, `Archive` the payload files an ingest writes beside the
database, `Rollout` the worth of the calls `LiveWeek` leaves open. What one module
abstracts another has, and each module's header says which.

What further work is worth: a model of `calendar.py` with `current_weeks`, once
the hour at which Sleeper rolls its week over has been observed; and one of the
designations once a command reads them.

## 3. How the modules correspond to the code

### LockInference

One operator per branch of `infer_lock`, over a function from the days of a
player's games to whether he played and what it was worth. Scores are integers in
half-points: the league's are multiples of 0.5, so equality of floats is
equality here. `Reading` is `state.reading`.

### LiveWeek

Time is half-days: a stamp `2 * day` is the part of an NBA date before 07:00 UTC
(when the previous night may still be going), `2 * day + 1` the part after it.
The world's part (`Tip`, `Finish`, `Midnight`, `SlateCompletes`, `LockGame`) is
external; `Counted` is what Sleeper shows for a starter, as the repository's own
tests and comments describe it. `SlateCompletes` waits for every game, which is
what `SLATE_COMPLETE_UTC_HOUR` relies on.

An ingest is `FetchStats` (rows of the week, `statsAt` taken before the request as
in `ingest_week_stats`), `PollMatchups` and `FinishIngest`, and may die between any
two. Each step commits: the checkpoint is at the end of the week's two requests,
and the finer cut lets a digest see one without the other, which `SharedStore`
excludes and which only adds behaviours. The digest is one step, as its transaction is:
`Refuse` for every refusal before the lock state is read, `RefuseUnread` for an
unclear one, `Advise` for inferred or supplied locks. A call is made for everyone
the code's loop reaches; its verdict, LOCK or PASS, is a free choice. `digest` is
cleared by every other step, so a property about it is about the moment it ran.

### SharedStore

A connection is `begun` after `BEGIN`, `reading` after its first SELECT, `writing`
after its first write; `view` is the snapshot it reads (WAL). `IsBlocked` is what
the 60-second busy timeout covers, a `begun` connection that wants the write
lock; `IsRefused` is a transaction that has read, whose first write fails at once
when anybody else writes or has committed since its snapshot. Both were
confirmed with the `sqlite3` module and the pragmas of `db.connect`. `job` holds
what a process has fetched and not stored yet. The initial database is one an
earlier morning left, with a complete run.

`FairSpec` is weakly fair to the steps of a process that has started: requests
have a timeout and three attempts, so each step ends one way or the other. It
promises no start, no death and no busy timeout.

`AtomicStore` is the same database with neither transactions nor processes: a run
first appears with its first fetched week, a later commit adds a week or completes
a run all of whose weeks are fetched, and a digest reads and is recorded at one
moment. `CommitsAreAtomic` is its specification under the mapping that takes the
committed database for its state. All that interleaves in `SharedStore` is a
stutter of it, and what is committed by halves would not be.

### Opening

The file is a record: whether the tables are there, the added columns, the shape
of the advice table, the view, the migrations recorded, and of the rows one
roster's polls, one fixture's state, the leagues and seasons the rows are of.
Every statement of `apply_schema` outside a transaction is an action, since the
connection is in autocommit then: the schema script, each `ALTER TABLE`, the count,
the drop and the re-creation of an empty advice table. A migration runs in a
savepoint, which is a transaction that reads first: `Release` is refused when the
file has changed. `Identify` is `identity.check` in the session, after
`check_payload` for an ingest, and the claim is written with the ingest's first
commit. A process may die between any two steps. `MCFiles` are the files such a
program finds: none, an empty one of the old shape, ones with repaired polls of the
old kind, one of today's version with its identity, and one that holds two seasons.

What a file may hold at all is `FilesAssumption`: any polls, repairs, columns and
migrations that are sound (`IsSound`), which is what every version has kept true.
Polls are whole once the migration that completes them is recorded and old-style
until then, a fixture that was played is final or not yet classified, and the rows
are of the season of the identity or, without one, of the only settings recorded,
since `identity.check` takes an old file at that word.

### Slate

One player, the games of the teams he may belong to, and the All-Star Game; a
fixture is a game and a date. The NBA files a moved game under its new date only,
Sleeper keeps it under the old one too (the docstring of `fixture_state`). A stats
payload may leave out a game of tonight or last night, carry it without lines, and
may or may not list games ahead; whose row it has depends on the team he was on.
The NBA's status may lag. `StoreStats` and `StoreSchedule` are the two commits of
an ingest, with the games going on in between. The slate is state functions, named
after the lines of `week_slate`, and `Proceeds` is a live digest that has found
nothing unsettled. A team he may move to is one he has no earlier row with.

### Archive

One week of one roster, its starters only, whose archive a cron `observe`, the
ingest and a by-hand `repair` share. Stamps have seconds and, for files, the copy
number. A snapshot's stamp, the league's answer and the payload are of three
separate moments. The ingest holds the write lock from `League` to `Store`, so
polls are in commit order; a death rolls the database back and leaves the files.
`Tear` is `write_text` cut short. `Plan` and `Apply` are two steps: the archive may
move in between. `Spacing` says which processes may overlap: `"apart"` is the
crontab (05:15 and 06:30), one process at a time and never two in one second;
`"in turn"` allows the same second; `"together"` allows everything.
Abstracted: `observed_at`, NULL scores, bench players.

### Crontab, CronGuard and Page

Half-days; the job is daily (`Period` 2) and `MaxGap` is 36 hours. A run may hang over
later ones, fail, be killed at any step, or lose its stamp to a full disk. Whether
ntfy takes a push changes nothing in the guard, so it is not in the state.

In `Page` the guarded command is the digest, in three steps: its session commits the row
(`DigestCommits`), the push goes out or is silently lost (`DigestPushed`, since `notify.send`
never raises), and the command ends (`JobSucceeds`). It may fail, hang or be killed between any
two of them. `phone` is what pushes have brought. A digest by hand, not pushed here, may run at
any time and a replay (`--date`) for any day. Games tip in the evening half of a day. A page is
two steps, as `latest_run`'s queries are: the newest row is looked up, then its marks and
calls, with digests committing between. Nothing else happens while it is being read, since it
is judged at the moment it arrives (`deadline_status` takes the request's clock).

### Hindsight

The week is coarser than `LiveWeek`'s: a day has a morning and an evening, and a digest
is the row it leaves. `RunInferred` reads each starter's value as `infer_state` does,
in the morning or from a poll with the evening's games going on; the other runs
abstain, find no matchup, are told the locks, or replay an earlier day. `Score` is the
final poll, which may have dropped a starter or list one without a score. From there
on everything is a state function named after the code: `TruthOf`, `Expected`,
`Misses`, `MorningOwes`, `Clean`, `GatePassed`, `Verdict`, `Decisions`. What really
happened (`lock`, `held`) is read by the properties only.

### Thresholds and Rollout

A sample is a function over the simulations, a probability twice its half-wins, a
score a whole number of sixteenths of a point (`Step` is half a point), so every
comparison is exact. The means of the backward induction are whole by assumption on
the tables of draws (`RolloutAssumption`), which stand for the code's cached draws; none is
negative, as `apply_base_policy` has it ("thresholds are continuation values and so are never negative").

`Rollout` keeps the code's two dates apart, what is observed and the first night a lock may
be taken. A `Morning` prints what a live digest and a replay of that date would, of
the calls, their break-evens and the rules for the coming nights; `Lock` and `Night`
move the world between. A live digest is printed in both of `build`'s ways (`Modes`):
`"supplied"` is `--locked`, which names every lock that is made; `"inferred"` is the crontab's,
which banks only what this morning's poll tells: a lock whose window has closed and whose
score does not tie with his latest game's (`KnownBank`). The replay of a date (`Replayed`) is
the one with no poll of that morning; with one it is read as a live digest is.

`Debuts` says from which morning on a player can be projected. Before it, a morning that
asks for him abstains (`ColdStart`), a replay whose walk has to decide a call on such a day
fails, as `contribution` raises `InsufficientHistory` (`WalkFails`, printed as `Failed`), and
the backtest rides him to his final game's score. The backtest's roster-week (`WalkLocks`,
`Graded`) is a state function of the week so far.

## 4. What the runs check

| Run | Question | Bounds |
|---|---|---|
| `one_starter` | Is what a digest banks locked, and what it calls open, with nothing open left uncalled? | 1 starter, 3 days, scores 0, 10, 16.5, 1 ingest, any number of digests |
| `two_mornings` | Does a repeated call belong to the window of the first? | 1 starter, 3 days, 1 score, 2 ingests |
| `evening_poll` | Is "banked" always a lock? (no) | as `one_starter`, without a scoreless game |
| `store_together` | Do overlapping, waiting and dying processes commit only what the atomic store does, and does each of them end? | 2 ingests, 1 digest, 2 weeks, 1 earlier run |
| `opening` | Whatever file is found, and whoever upgrades it at once or dies at it, is what a session reads whole and of one season? | 2 ingests, 1 digest, 3 configurations, 8 files |
| `slate_week` | Does a digest that goes ahead have exactly the games played, and is it held up only by a game of his? | 2 games, 2 teams and the All-Star team, 3 days, 2 ingests, one move or one trade |
| `slate_deadline` | Is the deadline of a call the tip of his next game? (not after a move without a time) | 1 game, 3 days |
| `archive_week` | Do only final readings vote, does one repair settle the week, and is no snapshot overwritten and no reading lost? | 1 observer, 1 ingest, 1 repair, 2 values, 2 lineups, 2 polls, 3 files, 3 seconds |
| `archive_total` | Is a repaired total of the poll's own slots? (not after a lineup change) | 2 lineups of two |
| `page` | Is what a page shows open, current and marked as it was printed, and is the digest of a push or of a clean morning in the database? | 1 starter, 2 mornings, 2 digest rows, replays of one date, made before it and after it |
| `hindsight` | Is a week called clean one that went well, is nothing right held against anyone, and does the gate open on such weeks only? | 1 starter, 3 days, scores 0 and 20, 3 digests a week (1 not read from a poll), 2 weeks |
| `rollout` | Do replays and graded decisions read no later game, and do a call, its break-even and the rule printed days ahead agree? | 2 starters against 1, 3 days, 2 scores or a game missed, 2 simulations, 3 fixture lists, everyone projectable or one player who is not at first |

Why these bounds are enough. Starters do not interact in lock reading, calls, pages
or judgements, so one is every starter; two games and a third day give every order of
a lock, a tip, a poll and a digest, and a scoreless game with two other values gives
every tie `infer_lock` tells apart. Two ingests and a digest give every pair that meets
on the lock, with a third as the earlier morning's complete run; a second digest
meets only what an ingest is to the first. In `Slate`, a day before
last night, last night and today are the three that `week_slate` distinguishes, and
two games put two of them on one date. In `Archive` a vote needs two values and a
majority. In `Opening` two processes race for each statement and a third opens what they
leave. A gap needs one morning missed, a repeated call two mornings, the gate
(`GATE_WEEKS`) two weeks. In `Rollout` the worth of one starter depends on what another
has banked, so there are two, and two simulations give every break-even: none, one of
them, both, and ties.

`SYMMETRY` is used in `slate_week` only, where games and teams differ only in name.
Deadlock is checked except where the system really stops: all processes have
ended (`SharedStore`, `Opening`), the clock has a last tick (`Page`), the week or the
season is over (`Rollout`, `Hindsight`). `EveryoneEnds` is the one liveness property,
under the fairness of section 3.

What the properties say, beyond the types:

- `BankedIsLocked`, `ClosedLockNotRecalled`: the two errors that lose points, a
  player counted as done who is not, and one called over a lock he has. The
  poll is older than the digest, and the manager acts in between.
- `OpenWindowCalled`, `CallsAreOpen`, `UnclearHasCause`, `RepeatIsSameWindow`: the
  digest is not silent when it should speak, never calls a window that has shut,
  and refuses for cause.
- `CommitsAreAtomic`, `VouchedRowsAreNoNewer`, `CompleteIsWhole`: the evidence a
  digest cites is about the rows it read, at one moment.
- `UnderwayOnlyWaits`, `EveryoneEnds`: an ingest that has begun to write is never
  turned away, and nobody waits for ever.
- `SessionsReadWhole`, `OneSeason`, `AloneOpens`, `AdviceSurvives`: an upgrade that is
  interrupted or raced loses nothing and leaves a file that opens.
- `ObservedIsPlayed`, `NothingPlayedIsLost`, `HeldUpByHisOwn`: the slate against
  the games as they were played. Together they say that the classification
  errs in neither direction.
- `FinalEvidence`, `RepairSettles`, `NeverOverwritten`, `EveryReadingKept`: the archive is
  append-only evidence and the repair goes by the final week alone.
- `LockNowIsOpen`, `FreshIsLive`, `MarksAsPrinted`, `RepeatIsMarked`: the page against
  the games as they tip, and against what the notification said.
- `PushedIsWritten`, `GapIsReported`: the phone and the guard's stamp never know of a digest
  the database does not hold, and a gap is told, with overlapping and dying runs too.
- `CleanWentWell`, `GateIsEarned`, `NoFalseMiss`, `VerdictIsTrue`, `ChargedAsFaced`: the
  judge knows the rows and the final values, the properties know the locks.
- `ReplayReadsOnlyItsPast`, `GradedIsBlind`: no hindsight, as a comparison of what a morning
  prints with what the same morning prints once later games are known.
- `StandingRuleHolds`, `CallsAgreeWithRules`, `ReplayLeavesOpenWindows`, `BaseIsReplay`:
  the pieces of the decision against one another. A rule and a later call may come of
  different knowledge of the locks: either mode on either morning.

Conditions that some properties carry, each found by TLC as a counterexample and
each a fact about the code: `BankedIsLocked` excepts a poll taken after the
player's own tip that day (`evening_poll`) and a player whose slot was not held;
`VouchedRowsAreNoNewer` says nothing of rows older than the cited run (section 6);
`ObservedIsPlayed` and `NothingPlayedIsLost` except a row listed ahead with a team he
has since left; `CleanWentWell` needs `PlainZeros`, that a zero a player
counts is one he earned; `MarksAsPrinted` is of runs written the day they describe
(`Prompt`); `FreshIsLive` is of a page with calls; `GradedIsBlind` is
of mornings up to which everyone with games ahead could be projected (section 6);
`AdviceSurvives` is of the advice there was before the upgrade.

The `TypeOK` of `LiveWeek`, `SharedStore`, `Slate`, `Page`, `CronGuard`, `Hindsight` and
`Rollout` is proved (section 7). The others document the shape of the state; they are not in a run, since
every property that is reads the same variables.

## 5. Where code and text disagree

Each has a run that TLC finds violated:

- `evening_poll`: `latest_poll` (`state.py:125`) takes any poll of the day, one after
  tonight's tip included; `state.py:65` says a banked player "locked an earlier
  game".
- `archive_total`: `apply` (`repair.py:257`) totals the archive's starters, the poll
  it appends keeps another lineup; `repair.py:209` says "`points` stays the sum of its
  six slots".
- `slate_deadline`: `ingest_schedule` (`ingest/nba.py:195`) keeps the old date's tipoff
  for a moved game with no time yet ("the digest needs one to say when tonight's
  lock window closes", two lines above), and `build` closes a window by it. A
  game moved to a later day is then taken to have tipped at its old hour, and the
  call on the player's last game is dropped; `digest.py:124` has None for a game
  "the schedule has no time for".

## 6. Known, with no run of their own

Facts of the code met while modelling it. Where a model has the step, it is named.

Store and opening:

- `stats_evidence` (`digest.py:525`) trusts the fetch record of the newest run, and
  `box_scores` keeps no run: rows an older ingest stores after that run completed are
  read as its own, though they may have been asked for before the slate was final
  (`digest.py:516` "when it requested the week's stats"). In `SharedStore` with two
  overlapping ingests; `VouchedRowsAreNoNewer` says no more than holds.
- A digest that has read is refused, not delayed, when an ingest writes or commits
  before its first write: `cli._season` reads the identity in the transaction
  `persist` writes in (`cli.py:159`), while `docs/deployment.md:382` says it "waits
  rather than failing". In `SharedStore`: a digest reaches `refused`.
- `_rebuild_recommendations` counts, drops and creates in three commits (`db.py:186`):
  advice a digest writes between another process's count and drop is lost. In
  `Opening`; `AdviceSurvives` is of the advice before the upgrade.
- Of two processes that open an old file at once the second may fail (a duplicate
  column, a locked savepoint) and has only to be run again. In `Opening`: `failed`.
- A refused first ingest leaves an empty file with the schema in it, since the file is
  opened for creation before its identity is checked; later commands no longer
  say that the database is missing.
- A file without an identity and with one row of league settings is adopted as that
  season's whatever its other rows are.

Digest and calls:

- A game the player was on the bench for is called though it cannot be locked
  (`digest.py:925`, `state.py:54`; `docs/sleeper-lockin-engine-architecture.md:90`).
  In `LiveWeek`: a call on a day outside `slotted`.
- Each of a morning's calls is judged against the same unlocked roster, as if
  the others were not made (`Rollout`, `Says`).
- `apply_base_policy` (`winprob.py:69`) relies on thresholds never being negative, so that a
  missed game's 0 cannot be banked; a week of negative projections would break it.
- A later `through_day` may make `walk_locks` bank differently on earlier days, as it
  is meant to: windows that had not closed are taken in a day's order.

Page and guard:

- A replay that declines is written without `retrospective`, so neither the page
  nor the notification calls it a historical replay (`advice.py:475`); one of a
  future date reads as this morning's advice. In `Page`: `Replay` with `retro` FALSE;
  `FreshIsLive` is of pages with calls.
- A digest that hangs over midnight prints marks as of its start, and its page as of
  when it was written. In `Page`: rows that are not `Prompt`.
- The page and the dashboard are gathered by several queries on no common snapshot;
  of the page's, what can be seen of it is in `Page`.
- A static `advice.html` keeps its banner after its day; only the served page asks the
  clock.
- The report of a gap is tried once and the stamp is overwritten whether or not
  ntfy took it (`scripts/cron-guard:147`), while its line 25 says "late rather than
  never". A full disk truncates the stamp, and the next run measures no gap.

Archive and slate:

- With `Spacing` `"together"`, a live reading may be stamped after the mark of
  another process and vote (`FinalEvidence`; `ingest/sleeper.py:434`,
  `docs/deployment.md:535` "would be harmless anyway"), and two saves of one second
  may take the same name (`NeverOverwritten`; `store/snapshots.py:92`); a process that
  looked for the mark before another set it sets it anew, so that fewer files vote, and a
  week just repaired may be found wrong again (`RepairSettles`). Ten files in
  one second sort wrongly (`_10` before `_2`).
- A first final reading equal to the last live one is not written again and has no
  vote, so a tie falls to a later value (`store/snapshots.py:79`,
  `docs/deployment.md:623`).
- A process that dies in `write_text` leaves a snapshot that does not parse, and later
  saves and repairs fail on it. In `Archive`: `Tear`.
- `box_scores` rows are replaced, never deleted (`ingest/sleeper.py:553`). A row
  listed ahead with a team a player has left is read as a game he sat out once
  that team has played it, and since `week_slate` compares dates (`slate.py:175`), it
  also hides a missing result of his new team on the same date. A moved game stays
  under its old date too (`ingest/sleeper.py:692`).

Settled weeks and backtest:

- `locks.py:89` reads a missing counted score as a zero, while `shadow.py:249` says
  "Missing final evidence is not a counted zero". In `Hindsight`: `ChargedAsFaced` is
  of starters whose score is not missing.
- `run_inference` replaces rows and never deletes one: a starter a repair has dropped
  keeps his (`locks.py:99`).
- Two runs with `--locked` and different locks have the same recorded inputs, so a
  flip between them is reported as a bug (`shadow.py:25`, `shadow.py:510`).
- A starter who rode a benched scoreless game counts a zero that is not his: a list
  of the shadow week may pass for right (`CleanWentWell` needs `PlainZeros`).
- Where a teammate cannot be projected, `ride_unprojectable` gives him his final game's
  recorded score (`rollout.py:75` "not about one being graded"), and other players' graded
  decisions then read a later game. In `Rollout`: without its condition `GradedIsBlind` fails. It can
  happen only in a season's first days (`core/projections.py:634`). Digests are not affected:
  they abstain, or their walk fails.
- A lock no poll tells yet is invisible to the crontab's digest, which goes on calling the
  player, and may surface between a rule and its night. `StandingRuleHolds` compares mornings
  with the same players banked; the rule and the call then agree whatever was locked unseen.

## 7. What is proved

For every value of the constants, under the assumptions named in each module:

- `LiveWeekProofs`: `TypeOK`, `BankedIsLocked`, `ClosedLockNotRecalled`. Neither is
  inductive: both need to know what committed data is evidence of. `Evidence` says
  that clocks agree with the games (`Clocks`), that a lock is on a game that
  was final and slotted, with nothing after it (`LocksHold`), that stamps are past
  (`StampsPast`), that a row asked for after the slate was final is the game's
  (`BoxFaithful`, `StatsFaithful`), and that a poll's value is what the lock then
  standing counts and that a window closed at the poll stays closed
  (`PollTruth`, `PollFrozen`). What `LockInference` says of any games finishes both: a
  value riding explains is never read as banked; an earlier lock is read as banked
  or ambiguous; a resolved reading names the lock; a zero always has an explanation.
  The same evidence gives `RepeatIsSameWindow`, with what each earlier run
  said and when (`SaidAfter`), and the action properties `OpenWindowCalled`,
  `CallsAreOpen` and `UnclearHasCause`, of every digest there is: `PollTruth` is exact,
  down to the zero a benched game counts, so a value that fits no game is evidence that
  a tip went unseen (`PollTips`) or that a starter has left the poll.
- `SharedStoreProofs`: `TypeOK`, `CompleteIsWhole`, `UnderwayOnlyWaits`, and
  `AdviceIsCurrent`, that a digest's citation and rows are the newest when it commits.
  `Isolation` relates each view to the committed database (the
  writer's extends it, a reader's is a past of it); `Underway` and `DigestsUnderway`
  say where each process is in its transaction and what its view holds for it.
  `CommitsAreAtomic` is the refinement itself. `Stage` says of an
  ingest at each step how its view differs from the committed database: by a
  run not yet recorded and at most one fetched week (`WithRun`, `WithStats`), so its
  commit is `FirstWeek`, `NextWeek` or `Complete`; `DigestStage` says that what a digest
  is about to commit is advice on what is committed; `OwnRuns` that no two
  ingests write the same run. Every other step leaves the committed database alone.
  `VouchedRowsAreNoNewer` needs one more layer, `FetchedInv`: the rows of a week are
  those of a recorded fetch of the run that wrote them, a run fetches a week once, and
  an ingest that is about to store a week has not fetched it yet (`Unfetched`).
- `ArchiveProofs`: `FinalEvidence` and `NeverOverwritten`, for whatever set of spacings.
  The invariant follows the three moments: the mark is of a
  scored week (`MarkIsOfScored`), files that count are stamped after it
  (`StampsAfter`), and who stamps after it also asks after it (`AskedOfFinal`).
  `RepairSettles` and `EveryReadingKept` are of processes that take turns, and rest on a
  second invariant, `Turns`. Copies are numbered without gaps (`NoGaps`), so the
  first free name of a second follows every file of the archive (`Follows`): the
  snapshot just written is the latest even after deaths within its second. What a
  process has in hand agrees with the archive until it is used (`InHand`), in particular
  a repair's plan with the vote. And as long as there are as many files as the
  repair counted, nothing is left to repair (`Settled`), which the mark cannot
  disturb, being there already.
- `PageProofs`: all of `Page`'s properties. `GuardInv` is of the guard: a run past
  its command has this moment's `NOW`, and one past a stamp too old has tried a push
  (`RunOK`): runs that hang do not break `GapIsReported`, since `NOW` is taken after the
  command. `RowsInv` says of every digest's row which calls it may hold under the
  schedule of tips, and that its marks were printed from the rows of a cut, the digest's
  start (`LiveOK`) or the morning replayed. `PageInv` ties a page being read to a row that is
  there. Where every run ends on its day, the cut and the page's own lookup see the
  same earlier calls, which is `MarksAsPrinted`. `JobInv` follows a job's command: what it has
  committed is a row of its day, written by now, while it pushes and ends; and what is on
  the phone is some row's report. From it, `PushedIsWritten` (`PushesAreWritten`).
- `HindsightProofs`: all of `Hindsight`'s properties. The state's part is short: locks are on
  games played (`WorldOK`), rows and the final poll are of the week (`RowsOK`,
  `ScoredOK`), a past clean week went well (`PastOK`). The weight is in what a final
  counted score proves (`TruthFacts`: the days it blames are games before the
  last, none when he rode, his lock among them) and in finding a decision's game again by its
  position in the week, for which the properties' days and the code's indices are shown to agree.
- `OpeningProofs`: all of `Opening`'s properties, from `FilesAssumption`. The
  invariant: the file stays sound; each process has the migrations behind it recorded; one that
  nobody disturbs finds the file as it left it (`FindsIt`), so it cannot fail; and a session has
  read a sound, upgraded file whose identity admits its configuration (`Knows`).
  That `Completed` gives every repair the whole poll it was made of is shown without
  induction on an operator: were a poll not whole there would be a first such one
  (`LeastNat`), and the one before it is whole.
- `SlateProofs`: `ObservedIsPlayed`, `NothingPlayedIsLost`, `HeldUpByHisOwn`. The world's
  part of the invariant is that a game is played on its date and over by 07:00 UTC
  (`Calendar`), and whose games were his (`Rosters`). The tables' part is what each is
  evidence of: a row (`Rows`: his team's since he joined it), a stat line (`Lines`) and a
  schedule entry (`Known`: a game begun, on its date). An ingest whose stats were
  asked for after 07:00 UTC has every game of before last night, and last night's in
  full if at all (`Fetched`); a complete one has classified every fixture by the schedule it
  stored (`Classified`). A row listed ahead for a team he then left is why
  `Rows` says nothing of other teams' rows after a trade.
- `RolloutProofs`: all of `Rollout`'s properties, for any rosters, days, fixtures, draws and
  scores. `ThresholdAgrees` is what `lock_threshold` promises: a score on the grid
  reaches the break-even exactly when `evaluate_lock` says LOCK. The worth of a score is
  monotone (`BeatenMonotone`); whatever a score beats, the candidate at or just above a
  deficit beats as well, and is no higher (`CandidateBelow`); and the set of candidates
  that beat passing has a lowest (`LowestSuch`). The invariant `IInv` says that what each
  morning printed is what would be printed of it now: its live digests, of the locks held
  then, and its replay, always; the backtest's decisions where everyone with games ahead could
  be projected on the nights before, the condition of section 6. It is kept by showing that
  whatever agrees on fixtures, draws and the games up to a day (`Same`) agrees on every
  total, decision, turn and walk of a date up to it; of two walks, to the date and to the
  week's end, that each is made of the same days (`SameWalk`), and takes nothing back
  (`Keeps`). A walk that fails, fails in both (`SameWalkFails`). From the walk comes
  `ReplayLeavesOpenWindows` (it banks only closed windows, `Walked`). `StandingRuleHolds`
  needs two facts: nights on which a player may not be banked change nothing of what he
  counts (`IdleNights`), and no later poll tells more of an opponent who is idle
  (`IdleTotals`), since what was banked by a morning stays and what is locked after it is of
  games no earlier than those it saw (`BankGrows`); from
  `ContinuationIsNat`, that no value of the backward induction is below a missed game's 0,
  `BaseIsReplay`. Sums, turns and the backward induction are recursive functions: that
  each has a value, and of which kind, is shown by a smallest set or least number for which
  it fails (`SumSteps`, `InTurnSteps`, `WalkSteps`, `SmallestSet`).

Only model-checked:

- `EveryoneEnds`, liveness under fairness, which is out of the prover's reach.

## 8. What is not modelled

- Projections and calibration: regressions and simulation in floating point.
  `Rollout` takes the draws as constants.
- Eligibility and scoring: arithmetic without state, enumerated by the repository's tests.
- The week calendar: arithmetic on one date beside Sleeper's own week, whose
  rollover hour nobody has observed (`calendar.py:98`); a model would choose it.
- Injury designations: captured in one insert inside the ingest's write lock and
  stamped there, hence in commit order; no command reads them back yet.
- The dashboard and the rest of the HTML, `reconcile` and `verify`: they render or report
  what is stored.
- Backups and log rotation: configuration. Parsing and validation of payloads, option
  parsing: the repository's tests.

Within the modelled components, what each leaves out is in `PROJECT.json` and in the
header of its module.
