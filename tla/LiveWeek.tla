------------------------------- MODULE LiveWeek -------------------------------
(***************************************************************************)
(* One fantasy week of one roster, lived through: games tip and finish,     *)
(* the manager locks players on Sleeper, the ingest polls Sleeper, and the  *)
(* morning digest reads the poll to say who is banked and which games are   *)
(* still to be called (lockin/digest.py build, lockin/state.py,             *)
(* lockin/ingest/run.py, lockin/clock.py).                                  *)
(*                                                                         *)
(* External to the repository, modelled from how the code reads it: the     *)
(* games, the manager, and the value Sleeper counts for a starter.          *)
(*                                                                         *)
(* Abstracted: the win probability behind a call (its verdict is a free     *)
(* choice), the opponent's week (read by the same InferState), fixtures     *)
(* moved or postponed, and every week but this one.                         *)
(***************************************************************************)
EXTENDS LockInference

CONSTANTS
    Players,    \* the roster's starters
    NDays,      \* days of the week, 7 in a real one: bounds the model
    Scores,     \* what a played game may be worth
    MaxIngests  \* ingests started in the week: bounds the model

Days == 1..NDays

ASSUME NDaysAssumption == NDays \in Nat \ {0}
ASSUME ScoresAssumption == Scores \subseteq Int
ASSUME MaxIngestsAssumption == MaxIngests \in Nat

VARIABLES
    schedule,   \* schedule[p]: the days p has a game
    today,      \* the NBA date, clock.today
    slateFinal, \* 07:00 UTC has passed today: ~ clock.too_early_for(today)
    tipped,     \* tipped[p]: days whose game of p has tipped
    final,      \* final[p]: those that have finished
    outcome,    \* outcome[p][d]: what the finished game was worth
    slotted,    \* slotted[p]: days p was in a starting slot at the tip
    lock,       \* lock[p]: the day of the game locked, NoGame while unlocked
    ingest,     \* the ingest in hand: its step, and the stats it has fetched
    ingests,    \* how many were started
    run,        \* the newest ingest_runs row: its status, its stats request
    box,        \* box[p]: the committed box scores, a function of days
    poll,       \* the newest committed poll of the roster
    digest,     \* what the last step reported, NoDigest when it was no digest
    said        \* LOCK calls persisted so far

world   == <<schedule, today, slateFinal, tipped, final, outcome, slotted, lock>>
tables  == <<run, box, poll>>
vars    == <<world, ingest, ingests, tables, digest, said>>

-----------------------------------------------------------------------------
\* Time. A stamp counts half-days: midnight Eastern to 07:00 UTC, and the rest.

Stamp == 2 * today + (IF slateFinal THEN 1 ELSE 0)

\* state.slate_final_at: the moment the games of `knownThrough` are over.
SlateFinalAt(knownThrough) == 2 * (knownThrough + 1) + 1

\* His latest game so far, when he has had one.
Latest(p)  == MaxDay(tipped[p])
Playing(p) == tipped[p] \ final[p] # {}

\* The game p's manager may lock now: his latest, finished, played, and played
\* in a starting slot. The window shuts at his next tip.
Lockable(p) ==
    /\ tipped[p] # {}
    /\ Latest(p) \in final[p] \cap slotted[p]
    /\ outcome[p][Latest(p)].played

\* Sleeper's players_points for a starter: frozen once locked, otherwise his
\* latest game so far, which is worth nothing to a player it found on the bench.
Counted(p, partial) ==
    IF lock[p] # NoGame THEN outcome[p][lock[p]].score
    ELSE IF tipped[p] = {} \/ Latest(p) \notin slotted[p] THEN 0
    ELSE IF Latest(p) \in final[p] THEN outcome[p][Latest(p)].score
    ELSE partial[p]

-----------------------------------------------------------------------------
NoRows    == [d \in {} |-> 0]
NoOutcome == [played |-> FALSE, score |-> 0]
Outcomes  == {[played |-> TRUE, score |-> s] : s \in Scores} \cup {NoOutcome}

NoIngest == [step |-> "idle", statsAt |-> 0, stats |-> [p \in Players |-> NoRows]]
NoPoll   == [at |-> 0, whole |-> FALSE, counted |-> NoRows, tippedToday |-> {}]
NoDigest == [asOf |-> 0, source |-> "none", note |-> "none", banked |-> NoRows,
             ambiguous |-> {}, calls |-> {}, untimed |-> {}, tippedAtPoll |-> {}]

Init ==
    /\ schedule \in [Players -> SUBSET Days]
    /\ today = 1
    /\ slateFinal = TRUE
    /\ tipped = [p \in Players |-> {}]
    /\ final = [p \in Players |-> {}]
    /\ outcome = [p \in Players |-> [d \in Days |-> NoOutcome]]
    /\ slotted = [p \in Players |-> {}]
    /\ lock = [p \in Players |-> NoGame]
    /\ ingest = NoIngest
    /\ ingests = 0
    /\ run = [status |-> "none", statsAt |-> 0]
    /\ box = [p \in Players |-> NoRows]
    /\ poll = NoPoll
    /\ digest = NoDigest
    /\ said = {}

-----------------------------------------------------------------------------
NoReport == digest' = NoDigest /\ UNCHANGED said

\* The world: games, the clock, the manager.

Tip(p, inSlot) ==
    /\ slateFinal
    /\ today \in schedule[p] \ tipped[p]
    /\ tipped' = [tipped EXCEPT ![p] = @ \cup {today}]
    /\ slotted' = IF inSlot THEN [slotted EXCEPT ![p] = @ \cup {today}] ELSE slotted
    /\ UNCHANGED <<schedule, today, slateFinal, final, outcome, lock,
                   ingest, ingests, tables>>
    /\ NoReport

Finish(p, d, result) ==
    /\ d \in tipped[p] \ final[p]
    /\ final' = [final EXCEPT ![p] = @ \cup {d}]
    /\ outcome' = [outcome EXCEPT ![p][d] = result]
    /\ UNCHANGED <<schedule, today, slateFinal, tipped, slotted, lock,
                   ingest, ingests, tables>>
    /\ NoReport

\* Midnight Eastern: every game of the day has tipped, some may be going on.
Midnight ==
    /\ slateFinal
    /\ today < NDays
    /\ \A p \in Players : today \in schedule[p] => today \in tipped[p]
    /\ today' = today + 1
    /\ slateFinal' = FALSE
    /\ UNCHANGED <<schedule, tipped, final, outcome, slotted, lock,
                   ingest, ingests, tables>>
    /\ NoReport

\* 07:00 UTC: "the hour by which a night's games have certainly finished".
SlateCompletes ==
    /\ ~slateFinal
    /\ \A p \in Players : ~Playing(p)
    /\ slateFinal' = TRUE
    /\ UNCHANGED <<schedule, today, tipped, final, outcome, slotted, lock,
                   ingest, ingests, tables>>
    /\ NoReport

LockGame(p) ==
    /\ lock[p] = NoGame
    /\ Lockable(p)
    /\ lock' = [lock EXCEPT ![p] = Latest(p)]
    /\ UNCHANGED <<schedule, today, slateFinal, tipped, final, outcome, slotted,
                   ingest, ingests, tables>>
    /\ NoReport

-----------------------------------------------------------------------------
\* The ingest: stats, then matchups, then a commit; complete only at the end.

\* One player's rows in the stats payload: his finished games, a running one as
\* far as it has got, and perhaps not yet a row for last night's or tonight's. A
\* row missing for longer is outside the model: the digest asks after last night
\* only (slate.week_slate says why).
StatsRows(p, partial, absent) ==
    [d \in {e \in tipped[p] : p \in absent => e < today - 1} |->
        IF d \in final[p] THEN outcome[p][d]
        ELSE [played |-> TRUE, score |-> partial[p]]]

FetchStats(partial, absent) ==
    /\ ingest.step = "idle"
    /\ ingests < MaxIngests
    /\ ingests' = ingests + 1
    /\ ingest' = [step |-> "fetched", statsAt |-> Stamp,
                  stats |-> [p \in Players |-> StatsRows(p, partial, absent)]]
    /\ UNCHANGED <<world, tables>>
    /\ NoReport

\* The poll, and the checkpoint that commits it with the stats and with the run,
\* still marked running. `silent` players are missing from players_points; a poll
\* that leaves a slot unaccounted for is not whole.
PollMatchups(partial, silent, whole) ==
    /\ ingest.step = "fetched"
    /\ poll' = [at |-> Stamp, whole |-> whole,
                counted |-> [p \in Players \ silent |-> Counted(p, partial)],
                tippedToday |-> {p \in Players : today \in tipped[p]}]
    /\ box' = ingest.stats
    /\ run' = [status |-> "running", statsAt |-> ingest.statsAt]
    /\ ingest' = [NoIngest EXCEPT !.step = "polled"]
    /\ UNCHANGED <<world, ingests>>
    /\ NoReport

FinishIngest ==
    /\ ingest.step = "polled"
    /\ run' = [run EXCEPT !.status = "complete"]
    /\ ingest' = NoIngest
    /\ UNCHANGED <<world, ingests, box, poll>>
    /\ NoReport

\* A step fails: what is not committed is rolled back, the run stays running.
IngestDies ==
    /\ ingest.step # "idle"
    /\ ingest' = NoIngest
    /\ UNCHANGED <<world, ingests, tables>>
    /\ NoReport

-----------------------------------------------------------------------------
\* The digest, live, for the morning of today.

KnownThrough == today - 1
Seen(p)      == [d \in {e \in DOMAIN box[p] : e <= KnownThrough} |-> box[p][d]]
Ahead(p)     == {d \in schedule[p] : d > KnownThrough}
Lineup       == {p \in Players : DOMAIN Seen(p) \cup Ahead(p) # {}}

\* He had a game last night and there is no row for it.
Unsettled == {p \in Players : KnownThrough \in schedule[p] /\ KnownThrough \notin DOMAIN Seen(p)}

\* Mutant: a complete run is enough, whenever it asked for the stats.
StatsEvidenceUndated == run.status = "complete"

StatsEvidence == run.status = "complete" /\ run.statsAt >= SlateFinalAt(KnownThrough)

\* state.latest_poll and state.infer_state. A starter the poll is silent about
\* is unresolved if he has played, and is passed over if he has only sat.
PollUsable == poll.at >= SlateFinalAt(KnownThrough)
Read(verdict) == {p \in Lineup \cap DOMAIN poll.counted :
                    DOMAIN Seen(p) # {} /\ Reading(poll.counted[p], Seen(p)) = verdict}
Unresolved == Read("unresolved")
              \cup {p \in Lineup \ DOMAIN poll.counted :
                       \E d \in DOMAIN Seen(p) : Seen(p)[d].played}
InferredBank == [p \in Read("banked") |-> poll.counted[p]]

\* A call names the latest game seen: played, with a game to ride for ahead.
Callable(banked) ==
    {p \in Lineup \ DOMAIN banked :
        /\ DOMAIN Seen(p) # {} /\ Ahead(p) # {}
        /\ Seen(p)[LastDay(Seen(p))].played}

\* Mutant: a game later today is taken for one that has tipped.
ShutByDate(p) == \E d \in Ahead(p) : d <= today

\* His next tip has passed: the deadline is no later than now.
Shut(p) == \E d \in Ahead(p) : d \in tipped[p]

\* Mutant: the earlier call is looked up by player, not by player and game.
FirstSaidByPlayer(p, d) ==
    LET mornings == {c.asOf : c \in {x \in said : x.p = p /\ x.asOf < today}}
    IN  IF mornings = {} THEN NoGame ELSE CHOOSE m \in mornings : \A n \in mornings : m <= n

\* runs.earlier_lock_calls: the first earlier morning that said LOCK on a game.
FirstSaid(p, d) ==
    LET mornings == {c.asOf : c \in {x \in said : x.p = p /\ x.day = d /\ x.asOf < today}}
    IN  IF mornings = {} THEN NoGame ELSE CHOOSE m \in mornings : \A n \in mornings : m <= n

Calls(source, banked, untimed, locks) ==
    {[p |-> p, day |-> LastDay(Seen(p)), score |-> Seen(p)[LastDay(Seen(p))].score,
      lock |-> p \in locks,
      saidOn |-> IF source = "supplied" THEN NoGame ELSE FirstSaid(p, LastDay(Seen(p)))] :
        p \in {q \in Callable(banked) \ untimed : ~Shut(q)}}

Deliver(d) ==
    /\ digest' = d
    /\ said' = said \cup {[p |-> c.p, day |-> c.day, asOf |-> d.asOf] :
                             c \in {x \in d.calls : x.lock}}
    /\ UNCHANGED <<world, ingest, ingests, tables>>

Decline(source, note) ==
    Deliver([NoDigest EXCEPT !.asOf = today, !.source = source, !.note = note])

Abstain(note) == Decline("abstained", note)

\* Why a live run declines before it looks at lock state, in the code's order.
Refusal(cold) ==
    CASE ~slateFinal -> "slate in progress"
      [] slateFinal /\ ~StatsEvidence -> "no evidence"
      [] slateFinal /\ StatsEvidence /\ ~poll.whole -> "partial lineup"
      [] slateFinal /\ StatsEvidence /\ poll.whole /\ Lineup = {} -> "no countable games"
      [] slateFinal /\ StatsEvidence /\ poll.whole /\ Lineup # {} /\ Unsettled # {} ->
             "last night not final"
      [] slateFinal /\ StatsEvidence /\ poll.whole /\ Lineup # {} /\ Unsettled = {} /\ cold ->
             "cold start"
      [] OTHER -> "none"

\* A week with nothing to count is noted rather than abstained from.
Refuse(cold) ==
    /\ Refusal(cold) # "none"
    /\ IF Refusal(cold) = "no countable games"
       THEN Decline("noted", "no countable games")
       ELSE Abstain(Refusal(cold))

\* The poll cannot be used, or leaves someone unexplained, and no --locked.
RefuseUnread ==
    /\ Refusal(FALSE) = "none"
    /\ \/ ~PollUsable /\ Abstain("lock state unknown")
       \/ PollUsable /\ Unresolved # {} /\ Abstain("lock state unclear")

Advise(source, banked, ambiguous, untimed, locks) ==
    /\ Refusal(FALSE) = "none"
    /\ Deliver([asOf |-> today, source |-> source, note |-> "none", banked |-> banked,
                ambiguous |-> ambiguous,
                calls |-> Calls(source, banked, untimed, locks),
                untimed |-> untimed \cap Callable(banked),
                tippedAtPoll |-> poll.tippedToday])

AdviseInferred(untimed, locks) ==
    /\ PollUsable
    /\ Unresolved = {}
    /\ Advise("inferred", InferredBank, Read("ambiguous"), untimed, locks)

\* --locked: the user passes what he has banked, of players in the lineup.
AdviseSupplied(untimed, locks) ==
    Advise("supplied",
           [p \in {q \in Lineup : lock[q] # NoGame} |-> outcome[p][lock[p]].score],
           {}, untimed, locks)

Digest ==
    \/ \E cold \in BOOLEAN : Refuse(cold)
    \/ RefuseUnread
    \/ \E untimed, locks \in SUBSET Players :
            AdviseInferred(untimed, locks) \/ AdviseSupplied(untimed, locks)

-----------------------------------------------------------------------------
Partials == [{p \in Players : Playing(p)} -> Scores]

Next ==
    \/ \E p \in Players : \/ \E inSlot \in BOOLEAN : Tip(p, inSlot)
                          \/ \E d \in Days, result \in Outcomes : Finish(p, d, result)
                          \/ LockGame(p)
    \/ Midnight
    \/ SlateCompletes
    \/ \E partial \in Partials, absent \in SUBSET Players : FetchStats(partial, absent)
    \/ \E partial \in Partials, silent \in SUBSET Players, whole \in BOOLEAN :
            PollMatchups(partial, silent, whole)
    \/ FinishIngest
    \/ IngestDies
    \/ Digest

Spec == Init /\ [][Next]_vars
-----------------------------------------------------------------------------
IsPartial(f, S, T) == /\ DOMAIN f \subseteq S
                      /\ \A x \in DOMAIN f : f[x] \in T

CallType == [p : Players, day : Days, score : Int, lock : BOOLEAN, saidOn : 0..NDays]

WorldTypeOK ==
    /\ schedule \in [Players -> SUBSET Days]
    /\ today \in Days
    /\ slateFinal \in BOOLEAN
    /\ tipped \in [Players -> SUBSET Days]
    /\ final \in [Players -> SUBSET Days]
    /\ outcome \in [Players -> [Days -> Outcomes]]
    /\ slotted \in [Players -> SUBSET Days]
    /\ lock \in [Players -> Days \cup {NoGame}]

IngestTypeOK ==
    /\ ingest.step \in {"idle", "fetched", "polled"}
    /\ ingest.statsAt \in 0..(2 * NDays + 1)
    /\ \A p \in Players : IsPartial(ingest.stats[p], Days, Game)
    /\ ingests \in 0..MaxIngests

BoxTypeOK ==
    /\ run \in [status : {"none", "running", "complete"}, statsAt : 0..(2 * NDays + 1)]
    /\ \A p \in Players : IsPartial(box[p], Days, Game)

PollTypeOK ==
    /\ poll.at \in 0..(2 * NDays + 1)
    /\ poll.whole \in BOOLEAN
    /\ IsPartial(poll.counted, Players, Int)
    /\ poll.tippedToday \subseteq Players

DigestTypeOK ==
    /\ digest.asOf \in 0..NDays
    /\ digest.source \in {"none", "noted", "abstained", "inferred", "supplied"}
    /\ IsPartial(digest.banked, Players, Int)
    /\ digest.ambiguous \subseteq Players
    /\ \A c \in digest.calls : c \in CallType
    /\ digest.tippedAtPoll \subseteq Players
    /\ said \subseteq [p : Players, day : Days, asOf : Days]

TypeOK == WorldTypeOK /\ IngestTypeOK /\ BoxTypeOK /\ PollTypeOK /\ DigestTypeOK

\* Every game the digest of d.asOf had seen found the player in his slot.
HeldSlot(p) == {d \in tipped[p] : d < digest.asOf} \subseteq slotted[p]

\* What a digest counts as banked is really locked, at that score, whatever
\* happened between the poll and now. The poll must predate the player's tip of
\* the day, and the player must have held his slot (see BankedAlwaysLocked).
BankedIsLocked ==
    \A p \in DOMAIN digest.banked :
        (p \notin digest.tippedAtPoll /\ HeldSlot(p)) \/ digest.source = "supplied"
        => /\ lock[p] \in final[p]
           /\ digest.banked[p] = outcome[p][lock[p]].score

\* A lock whose window had closed is never called over: the digest has him
\* banked, or warns that his value matches two games.
ClosedLockNotRecalled ==
    \A c \in digest.calls :
        lock[c.p] # NoGame /\ lock[c.p] < c.day => c.p \in digest.ambiguous

\* A call repeated on a later morning names the first morning that made it, and
\* the window has been open ever since: no game of his in between.
RepeatIsSameWindow ==
    \A c \in digest.calls : c.saidOn # NoGame =>
        /\ c.day < c.saidOn /\ c.saidOn < digest.asOf
        /\ \A d \in schedule[c.p] : d <= c.day \/ d >= digest.asOf
        /\ [p |-> c.p, day |-> c.day, asOf |-> c.saidOn] \in said

\* The digest never consumes what it exists to announce: whoever can still be
\* locked on a game of an earlier night, and has a game to ride for, is called on
\* it, unless the schedule has no tipoff to close the call with.
OpenWindowCalled ==
    [][ digest'.source = "inferred" =>
          \A p \in Players :
             Lockable(p) /\ lock[p] = NoGame /\ Latest(p) < today /\ Ahead(p) # {} =>
                \/ p \in digest'.untimed
                \/ \E c \in digest'.calls :
                       c.p = p /\ c.day = Latest(p) /\ c.score = outcome[p][c.day].score
      ]_vars

\* A call is on a finished game at its final score, and no tip of his has come
\* since: no half-played slate, no stale box score, no window already shut.
CallsAreOpen ==
    [][ \A c \in digest'.calls :
             /\ c.day = Latest(c.p) /\ c.day \in final[c.p] /\ c.day < today
             /\ outcome[c.p][c.day] = [played |-> TRUE, score |-> c.score]
      ]_vars

\* A poll taken before the day's tips, that lists every starter, is always
\* explained: the digest asks for --locked only when the poll gives it cause.
UnclearHasCause ==
    [][ digest'.note = "lock state unclear" =>
          poll.tippedToday # {} \/ Players \ DOMAIN poll.counted # {}
      ]_vars

\* state.reading: "`banked` he locked an earlier game". As written, with no
\* condition on when the poll was taken.
BankedAlwaysLocked ==
    \A p \in DOMAIN digest.banked : HeldSlot(p) => lock[p] # NoGame
=============================================================================
