-------------------------------- MODULE Page --------------------------------
(***************************************************************************)
(* What the manager gets to see: the morning digest under cron-guard, its    *)
(* push, and the page `lockin serve` renders from the rows digests leave in  *)
(* the database (scripts/cron-guard, lockin/cli.py digest, lockin/advice.py, *)
(* lockin/serve.py, lockin/notify.py).                                     *)
(*                                                                         *)
(* The guard is CronGuard, its job the digest. Beside it a digest is run by  *)
(* hand, for today or for another date, and pages are opened at any time.    *)
(* A page is built of several queries, each of which sees what is committed  *)
(* by then; a digest reads and writes in one transaction (SharedStore).      *)
(*                                                                         *)
(* Abstracted: the standing rules, the banked list and the warnings, which   *)
(* a page gathers as it does the calls; calls with no deadline, which only   *)
(* replays have; why a digest declines (LiveWeek); what a call is worth. A   *)
(* digest run by hand is not pushed here.                                  *)
(***************************************************************************)
EXTENDS Crontab, Sequences, FiniteSets

CONSTANTS
    Players,  \* the roster's starters
    MaxRows,  \* digest_runs rows: bounds the model
    Replays   \* the dates that are replayed: bounds the model

ASSUME MaxRowsAssumption == MaxRows \in Nat

VARIABLES
    clock, stamp, pc, now, tried,  \* CronGuard's
    tips,  \* tips[p]: when his games tip, in the evenings
    rows,  \* digest_runs with their recommendations, oldest first
    job,   \* job[t]: the digest of the run fired at t, once it is committed
    phone, \* what pushes have brought to the phone
    page   \* the page being read

guard == <<clock, stamp, pc, now, tried>>
push  == <<job, phone>>
vars  == <<guard, tips, rows, push, page>>

Guard == INSTANCE CronGuard

\* Half-days: a day is its morning and its evening, which begins with the tips.
Day(t)     == t \div 2
Morning(a) == 2 * a
Evenings   == {t \in 0..(Horizon + 1) : t % 2 = 1}
Days       == 0..(Day(Horizon) + 1)
NoDay      == -1

ASSUME ReplaysAssumption == Replays \subseteq Days

-----------------------------------------------------------------------------
\* A digest. One game a player, his latest on a night before `asOf`, while there
\* is one ahead of it.
Played(p, asOf) == {t \in tips[p] : Day(t) < asOf /\ t <= clock}
Ahead(p, asOf)  == {t \in tips[p] : Day(t) >= asOf}
Latest(S)       == CHOOSE t \in S : \A u \in S : u <= t
NextTip(p, asOf) == CHOOSE t \in Ahead(p, asOf) : \A u \in Ahead(p, asOf) : t <= u
Callable(asOf)  == {p \in Players : Played(p, asOf) # {} /\ Ahead(p, asOf) # {}}

CallOn(p, asOf, locks) ==
    [p |-> p, game |-> Latest(Played(p, asOf)), closes |-> NextTip(p, asOf),
     action |-> IF p \in locks THEN "LOCK" ELSE "PASS"]

\* A replay keeps the calls that have closed.
ReplayCalls(asOf, called, locks) ==
    {CallOn(p, asOf, locks) : p \in called \cap Callable(asOf)}

\* A live run drops them.
LiveCalls(asOf, start, called, locks) ==
    {c \in ReplayCalls(asOf, called, locks) : c.closes > start}

\* A digest_runs row. `live` is what it was, `retro` what the column says.
Row(asOf, live, retro, supplied, calls, printed) ==
    [madeAt |-> clock, asOf |-> asOf, live |-> live, retro |-> retro,
     supplied |-> supplied, calls |-> calls, printed |-> printed]

\* Mutant: a replay of an earlier morning counts as its digest.
SayingReplayed(call, asOf, seen) ==
    {r \in seen : /\ r.asOf < asOf
                  /\ \E c \in r.calls : /\ c.p = call.p /\ c.game = call.game
                                        /\ c.action = "LOCK"}

\* runs.earlier_lock_calls: of the rows `seen`, those of live runs for earlier
\* mornings that said LOCK on the game.
Saying(call, asOf, seen) ==
    {r \in seen : /\ r.asOf < asOf /\ ~r.retro
                  /\ \E c \in r.calls : /\ c.p = call.p /\ c.game = call.game
                                        /\ c.action = "LOCK"}

FirstSaid(call, asOf, seen) ==
    LET said == {r.asOf : r \in Saying(call, asOf, seen)}
    IN  IF said = {} THEN NoDay ELSE CHOOSE d \in said : \A e \in said : d <= e

\* Every call with the earlier morning it is marked with.
Marked(calls, asOf, supplied, seen) ==
    {[call |-> c, said |-> IF supplied THEN NoDay ELSE FirstSaid(c, asOf, seen)] : c \in calls}

\* Printed from the rows made before the run began, or before its morning.
MadeBefore(t) == {r \in {rows[i] : i \in DOMAIN rows} : r.madeAt < t}

Insert(row) ==
    /\ Len(rows) < MaxRows
    /\ rows' = Append(rows, row)

\* cli.digest for today, begun at `start`: dated by its start, stamped when it is
\* written. It may decline (LiveWeek): then it has no calls.
LiveRow(start, supplied, called, locks) ==
    LET asOf  == Day(start)
        calls == LiveCalls(asOf, start, called, locks)
    IN  Row(asOf, TRUE, FALSE, supplied, calls,
            Marked(calls, asOf, supplied, MadeBefore(start)))

RunByHand(supplied, called, locks) ==
    /\ Insert(LiveRow(clock, supplied, called, locks))
    /\ UNCHANGED <<guard, tips, push, page>>

\* --date: a replay. One that declines does not say that it is one.
Replay(asOf, supplied, called, locks) ==
    LET calls == ReplayCalls(asOf, called, locks)
    IN  /\ asOf # Day(clock)
        /\ \E retro \in BOOLEAN :
              /\ calls # {} => retro
              /\ Insert(Row(asOf, FALSE, retro, supplied, calls,
                            Marked(calls, asOf, supplied, MadeBefore(Morning(asOf)))))
        /\ UNCHANGED <<guard, tips, push, page>>

-----------------------------------------------------------------------------
\* The guard's job: the digest is committed, then pushed, then the command ends.

NoJob == [step |-> "none"]

\* What a digest tells the manager, on the page and on the phone.
Report(row) == [asOf |-> row.asOf, calls |-> row.calls, printed |-> row.printed]

\* Mutant: pushed from within the session, whose commit may yet fail.
DigestPushedFirst(t) ==
    /\ pc[t] = "command" /\ job[t] = NoJob
    /\ \E called \in SUBSET Players : \E locks \in SUBSET called :
          LET row == LiveRow(t, FALSE, called, locks)
          IN  /\ Insert(row) \/ UNCHANGED rows
              /\ phone' = phone \cup {Report(row)}
              /\ job' = [job EXCEPT ![t] = [step |-> "pushed", says |-> Report(row)]]
    /\ UNCHANGED <<guard, tips, page>>

\* The session ends: read, advised and written in one transaction.
DigestCommits(t) ==
    /\ pc[t] = "command" /\ job[t] = NoJob
    /\ \E called \in SUBSET Players : \E locks \in SUBSET called :
          LET row == LiveRow(t, FALSE, called, locks)
          IN  /\ Insert(row)
              /\ job' = [job EXCEPT ![t] = [step |-> "written", says |-> Report(row)]]
    /\ UNCHANGED <<guard, tips, phone, page>>

\* notify.send never raises: a push that is lost is a status line.
DigestPushed(t) ==
    /\ job[t].step = "written"
    /\ phone' \in {phone, phone \cup {job[t].says}}
    /\ job' = [job EXCEPT ![t].step = "pushed"]
    /\ UNCHANGED <<guard, tips, rows, page>>

JobSucceeds(t) ==
    /\ job[t].step = "pushed"
    /\ Guard!CommandSucceeds(t)
    /\ job' = [job EXCEPT ![t] = NoJob]
    /\ UNCHANGED <<tips, rows, phone, page>>

\* An exception. In the session it is rolled back; after it, what it printed could
\* not be written.
JobFails(t) ==
    /\ Guard!CommandFails(t)
    /\ job' = [job EXCEPT ![t] = NoJob]
    /\ UNCHANGED <<tips, rows, phone, page>>

\* A command dies with its guard, at any of its steps.
GuardStep(t) ==
    /\ Guard!Fire(t) \/ Guard!Compare(t) \/ Guard!WriteStamp(t) \/ Guard!Killed(t)
    /\ job' = [job EXCEPT ![t] = NoJob]
    /\ UNCHANGED <<tips, rows, phone, page>>

-----------------------------------------------------------------------------
\* advice.latest_run: the run is looked up, then its marks and its calls.

NoPage == [step |-> "closed", row |-> 0, marks |-> {}, calls |-> {}]

OpenPage ==
    /\ page.step = "closed"
    /\ rows # <<>>
    /\ page' = [NoPage EXCEPT !.step = "opened", !.row = Len(rows)]
    /\ UNCHANGED <<guard, tips, rows, push>>

\* Mutant: a run that was told what is locked is marked as well.
MarksSupplied ==
    LET run    == rows[page.row]
        before == {rows[i] : i \in 1..(page.row - 1)}
    IN  {m \in Marked(UNION {r.calls : r \in before \cup {run}}, run.asOf, FALSE, before) :
            m.said # NoDay}

\* The games an earlier morning said LOCK on, of the runs made before this one.
Marks ==
    LET run    == rows[page.row]
        before == {rows[i] : i \in 1..(page.row - 1)}
    IN  {m \in Marked(UNION {r.calls : r \in before \cup {run}}, run.asOf, run.supplied, before) :
            m.said # NoDay}

ShowPage(calls) ==
    /\ page.step = "opened"
    /\ page' = [page EXCEPT !.step = "shown", !.marks = Marks, !.calls = calls]
    /\ UNCHANGED <<guard, tips, rows, push>>

\* Mutant: the calls of every run stamped as the one on the page.
ReadPageByStamp ==
    ShowPage(UNION {rows[i].calls : i \in {j \in DOMAIN rows :
                        rows[j].madeAt = rows[page.row].madeAt}})

\* The calls by run_id. Digests may have been written since the run was looked up.
ReadPage == ShowPage(rows[page.row].calls)

\* It is read as it arrives, and opened again later.
ClosePage ==
    /\ page.step = "shown"
    /\ page' = NoPage
    /\ UNCHANGED <<guard, tips, rows, push>>

\* A request takes no time.
Tick ==
    /\ page.step = "closed"
    /\ Guard!Tick
    /\ UNCHANGED <<tips, rows, push, page>>

-----------------------------------------------------------------------------
\* advice.render of the page, at `clock`.
Shown  == page.step = "shown"
Header == rows[page.row]

\* Mutant: the age of the advice is that of the run.
ReadsFreshByStamp == Day(clock) <= Day(Header.madeAt)

\* _freshness: "Advice for this morning"; and the replay's banner.
ReadsFresh    == Day(clock) <= Header.asOf
SaysHistorical == Header.retro

\* Mutant: a call is open for the day of the digest, whatever tips in it.
IsOpenAllDay(c) == Day(c.closes) >= Day(clock)

\* deadline_status
IsOpen(c) == c.closes > clock

\* "Lock now", and "unless you already did".
LockNow      == IF SaysHistorical THEN {}
                ELSE {c \in page.calls : c.action = "LOCK" /\ IsOpen(c)}
SaidOn(c)    == {m.said : m \in {n \in page.marks : n.call.p = c.p /\ n.call.game = c.game}}

-----------------------------------------------------------------------------
Init ==
    /\ Guard!Init
    /\ tips \in [Players -> SUBSET Evenings]
    /\ rows = <<>>
    /\ job  = [t \in Firing |-> NoJob]
    /\ phone = {}
    /\ page = NoPage

Digest(t) == DigestCommits(t) \/ DigestPushed(t) \/ JobSucceeds(t) \/ JobFails(t)

ByHand ==
    \E supplied \in BOOLEAN, called \in SUBSET Players : \E locks \in SUBSET called :
        \/ RunByHand(supplied, called, locks)
        \/ \E asOf \in Replays : Replay(asOf, supplied, called, locks)

Next ==
    \/ /\ page.step # "shown"
       /\ \/ \E t \in Firing : Digest(t) \/ GuardStep(t)
          \/ ByHand
          \/ OpenPage
          \/ Tick
    \/ ReadPage
    \/ ClosePage

Spec == Init /\ [][Next]_vars

-----------------------------------------------------------------------------
CallType == [p : Players, game : Evenings, action : {"LOCK", "PASS"},
             closes : Evenings]
MarkType == [call : CallType, said : Days \cup {NoDay}]
Reports  == [asOf : Days, calls : SUBSET CallType, printed : SUBSET MarkType]
JobType  == {NoJob} \cup [step : {"written", "pushed"}, says : Reports]

\* The shape of every variable; a live run is never marked as a replay.
TypeOK ==
    /\ Guard!TypeOK
    /\ tips \in [Players -> SUBSET Evenings]
    /\ Len(rows) <= MaxRows
    /\ \A i \in DOMAIN rows :
          /\ rows[i].madeAt \in 0..clock
          /\ rows[i].asOf \in Days
          /\ rows[i].live => ~rows[i].retro
          /\ rows[i].calls \subseteq CallType
          /\ rows[i].printed \subseteq MarkType
    /\ job \in [Firing -> JobType]
    /\ phone \subseteq Reports
    /\ page.row \in 0..Len(rows)
    /\ page.calls \subseteq CallType
    /\ page.marks \subseteq MarkType

\* advice.render: what the page heads "Lock now" can still be locked when it is
\* read, however old the run and whatever was written while it was gathered: it
\* is his latest game, and a live run of its own said so.
LockNowIsOpen ==
    Shown => \A c \in LockNow :
        /\ Header.live
        /\ c \in Header.calls
        /\ c.game = Latest({t \in tips[c.p] : t <= clock})

\* A run that was written the day it describes.
Prompt(r) == r.live => Day(r.madeAt) = r.asOf

\* advice.latest_run: "so the page marks the calls the notification marked". Two
\* lookups over different rows, at different times, with different cuts.
MarksAsPrinted ==
    Shown /\ (\A i \in 1..page.row : Prompt(rows[i])) =>
        \A m \in Header.printed :
            SaidOn(m.call) = IF m.said = NoDay THEN {} ELSE {m.said}

\* A repeated call is never presented as news, nor news as a repeated call: it
\* names the first morning whose own digest said LOCK, and his window has been
\* open ever since. A supplied state is its own answer.
RepeatIsMarked ==
    Shown /\ ~Header.supplied =>
        \A c \in page.calls :
            LET saying == {i \in 1..(page.row - 1) :
                               /\ rows[i].live /\ rows[i].asOf < Header.asOf
                               /\ \E d \in rows[i].calls :
                                      d.p = c.p /\ d.game = c.game /\ d.action = "LOCK"}
            IN  /\ (saying = {}) <=> (SaidOn(c) = {})
                /\ \A i \in saying : \E d \in SaidOn(c) :
                      /\ d <= rows[i].asOf
                      /\ \A t \in tips[c.p] : c.game < t => t >= Morning(d)

\* advice._freshness, render: calls that read as this morning's advice are from a
\* live run of this morning: not from yesterday's, nor from a replay of it.
FreshIsLive ==
    Shown /\ ReadsFresh /\ ~SaysHistorical /\ page.calls # {} =>
        Header.live /\ Header.asOf = Day(clock)

\* cli.digest: the phone never knows more than the database, whatever becomes of the
\* run that pushed; nor does the guard stamp a morning whose digest is not there.
PushedIsWritten ==
    /\ \A report \in phone :
          \E i \in DOMAIN rows : rows[i].live /\ Report(rows[i]) = report
    /\ \A t \in Firing : pc[t] \in {"compare", "stamp", "clean"} =>
          \E i \in DOMAIN rows : rows[i].live /\ rows[i].asOf = Day(t) /\ rows[i].madeAt <= now[t]

\* CronGuard's, of the digest's job.
GapIsReported == Guard!GapIsReported
=============================================================================
