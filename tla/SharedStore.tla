------------------------------ MODULE SharedStore ------------------------------
(***************************************************************************)
(* One season's database file, written by ingests and by digests at once:   *)
(* who may write when, what each of them reads, and what is committed when  *)
(* one of them dies (lockin/store/db.py, lockin/ingest/run.py,              *)
(* lockin/store/runs.py, lockin/digest.py stats_evidence and persist).      *)
(*                                                                         *)
(* External to the repository: SQLite's write-ahead log, as the connections *)
(* of db.connect see it. A transaction reads the database as it was when it *)
(* first read; one connection writes at a time; a transaction that has only *)
(* begun waits for the writer, up to the busy timeout; a transaction that   *)
(* has read is refused at once, when another writes or has committed since. *)
(*                                                                         *)
(* Abstracted: what the rows say, and the steps of a run that write inside  *)
(* a transaction it already holds (rosters, players, schedule, fixtures).   *)
(***************************************************************************)
EXTENDS Integers, Sequences, FiniteSets, SequencesExt

CONSTANTS
    Ingests,   \* `lockin ingest` processes, each run once
    Digests,   \* live `lockin digest` processes of this morning, each run once
    Weeks,     \* the season's fantasy weeks
    Coverages, \* the sets of weeks an ingest may be asked for
    ThisWeek,  \* the week this morning's digest is about
    Nobody     \* no connection

ASSUME ConnsAssumption ==
    /\ Ingests \cap Digests = {}
    /\ Nobody \notin Ingests \cup Digests
ASSUME WeeksAssumption ==
    /\ ThisWeek \in Weeks
    /\ Coverages \subseteq (SUBSET Weeks) \ {{}}

Conns == Ingests \cup Digests

VARIABLES
    db,         \* what is committed
    writer,     \* the connection holding the write lock, or Nobody
    tx,         \* tx[c]: none, begun (nothing read yet), reading or writing
    view,       \* view[c]: the database as c's transaction sees it
    pc,         \* pc[c]: the step c is at
    job,        \* job[i]: an ingest's weeks left, its run, the stats in hand
    verdict,    \* verdict[d]: the run d trusts (0: it abstains), the rows it read
    slateFinal  \* last night's games are over: 07:00 UTC has passed

vars == <<db, writer, tx, view, pc, job, verdict, slateFinal>>

-----------------------------------------------------------------------------
\* The database. A run's id is its place in ingest_runs. A fetch is a row of
\* ingest_stats_fetches: whether the stats were requested once the slate was
\* final. rows[w] are the week's box scores: the run that wrote them last, and
\* whether it had asked for them in time. A digest row cites the run it trusted
\* (0: it abstained), with what it read kept beside it for the properties.

NewRun(weeks, skipsNba) ==
    [weeks |-> weeks, status |-> "running", skipsNba |-> skipsNba]

Covering(d, w) == {r \in DOMAIN d.runs : w \in d.runs[r].weeks}

\* runs.latest_covering: the newest run started that touches the week.
IsNewest(d, w, r) ==
    /\ r \in Covering(d, w)
    /\ \A s \in Covering(d, w) : s <= r

\* runs.stats_fetch: the run has fetched the week's stats, after the slate was over.
FetchedFinal(d, r, w) == [run |-> r, week |-> w, final |-> TRUE] \in d.fetches

\* stats_evidence as it would be if a run still going did not hide an older one.
VouchesComplete(d, r) ==
    /\ r \in Covering(d, ThisWeek)
    /\ d.runs[r].status = "complete"
    /\ \A s \in Covering(d, ThisWeek) : d.runs[s].status = "complete" => s <= r
    /\ ~ d.runs[r].skipsNba
    /\ FetchedFinal(d, r, ThisWeek)

\* digest.stats_evidence: the run that vouches for the week's stats.
Vouches(d, r) ==
    /\ IsNewest(d, ThisWeek, r)
    /\ d.runs[r].status = "complete"
    /\ ~ d.runs[r].skipsNba
    /\ FetchedFinal(d, r, ThisWeek)

Trusted(d) ==
    IF \E r \in DOMAIN d.runs : Vouches(d, r)
    THEN CHOOSE r \in DOMAIN d.runs : Vouches(d, r)
    ELSE 0

\* Yesterday's run covered every week, before last night's slate was over.
Yesterday ==
    [version |-> 0,
     runs    |-> <<[weeks |-> Weeks, status |-> "complete", skipsNba |-> FALSE]>>,
     fetches |-> {[run |-> 1, week |-> w, final |-> FALSE] : w \in Weeks},
     rows    |-> [w \in Weeks |-> [run |-> 1, final |-> FALSE]],
     digests |-> <<>>]

\* The statements that change what the model keeps of it.

\* runs.start
WithRun(d, weeks, skipsNba) ==
    [d EXCEPT !.runs = Append(@, NewRun(weeks, skipsNba))]

\* The end of ingest_week_stats: the week's rows, and the fetch they came from.
WithStats(d, run, got) ==
    [d EXCEPT !.rows[got.week] = [run |-> run, final |-> got.final],
              !.fetches = @ \cup {[run |-> run, week |-> got.week, final |-> got.final]}]

\* runs.finish without its WHERE: every run still going is called complete.
WithEveryComplete(d, run) ==
    [d EXCEPT !.runs = [r \in DOMAIN @ |-> [@[r] EXCEPT !.status = "complete"]]]

\* runs.finish
WithComplete(d, run) == [d EXCEPT !.runs[run].status = "complete"]

\* persist
WithDigest(d, given) == [d EXCEPT !.digests = Append(@, given)]

-----------------------------------------------------------------------------
\* Transactions, as db.connect's connections have them.

\* The view of a transaction that has read nothing.
NoView == Yesterday

\* A statement of c sees its transaction's view, which its first one takes.
Sees(c) == IF tx[c] = "begun" THEN db ELSE view[c]

\* The write lock is c's, or free and c's view is not out of date.
MayWrite(c) ==
    \/ tx[c] = "writing"
    \/ writer = Nobody /\ tx[c] = "begun"
    \/ writer = Nobody /\ tx[c] = "reading" /\ view[c].version = db.version

\* "database is locked" at once: waiting cannot make what c has read current.
IsRefused(c) ==
    /\ tx[c] = "reading"
    /\ writer # Nobody \/ view[c].version # db.version

\* The busy handler: c waits, for at most the 60 seconds of busy_timeout.
IsBlocked(c) == tx[c] = "begun" /\ writer # Nobody

Begin(c) == tx' = [tx EXCEPT ![c] = "begun"]

ReadFirst(c) ==
    /\ tx'   = [tx EXCEPT ![c] = "reading"]
    /\ view' = [view EXCEPT ![c] = db]

Write(c, new) ==
    /\ MayWrite(c)
    /\ writer' = c
    /\ tx'     = [tx EXCEPT ![c] = "writing"]
    /\ view'   = [view EXCEPT ![c] = new]
    /\ UNCHANGED db

\* COMMIT, of a transaction that has written.
Commit(c, new, next) ==
    /\ db'     = [new EXCEPT !.version = db.version + 1]
    /\ writer' = Nobody
    /\ tx'     = [tx EXCEPT ![c] = next]
    /\ view'   = [view EXCEPT ![c] = NoView]

\* Rollback without the `finally` that closes the connection.
RollbackUnclosed(c) ==
    /\ tx'   = [tx EXCEPT ![c] = "none"]
    /\ view' = [view EXCEPT ![c] = NoView]
    /\ UNCHANGED <<db, writer>>

\* ROLLBACK and close, or the process killed: nothing uncommitted survives.
Rollback(c) ==
    /\ writer' = IF writer = c THEN Nobody ELSE writer
    /\ tx'     = [tx EXCEPT ![c] = "none"]
    /\ view'   = [view EXCEPT ![c] = NoView]
    /\ UNCHANGED db

Goes(c, step) == pc' = [pc EXCEPT ![c] = step]

-----------------------------------------------------------------------------
\* The ingest: cli.ingest, session, run_ingest.

Ended   == {"done", "failed", "refused", "timedout"}
Idle(c)    == pc[c] = "idle"
Running(c) == pc[c] \notin Ended \cup {"idle"}

NoStats == [week |-> ThisWeek, final |-> FALSE]
NoJob   == [left |-> {}, run |-> 0, stats |-> NoStats]

\* connect, apply_schema and BEGIN, then the league payload is requested.
OpenIngest(i) ==
    /\ Idle(i)
    /\ Begin(i)
    /\ Goes(i, "league")
    /\ UNCHANGED <<db, writer, view, job, verdict, slateFinal>>

\* identity.check: the first statement of the transaction is a SELECT.
CheckIdentity(i) ==
    /\ pc[i] = "league"
    /\ ReadFirst(i)
    /\ Goes(i, "start")
    /\ UNCHANGED <<db, writer, job, verdict, slateFinal>>

\* store_league; the weeks, as named or as the league payload has them; and
\* runs.start. Then rosters, users and players, lock in hand.
StartRun(i) ==
    /\ pc[i] = "start"
    /\ \E weeks \in Coverages, skipsNba \in BOOLEAN :
        /\ Write(i, WithRun(view[i], weeks, skipsNba))
        /\ job' = [job EXCEPT ![i] =
               [left |-> weeks, run |-> Len(view[i].runs) + 1, stats |-> NoStats]]
    /\ Goes(i, "fetch")
    /\ UNCHANGED <<verdict, slateFinal>>

\* ingest_week_stats asks Sleeper for a week before it writes anything.
FetchWeek(i) ==
    /\ pc[i] = "fetch"
    /\ \E w \in job[i].left :
        job' = [job EXCEPT ![i].left = @ \ {w},
                           ![i].stats = [week |-> w, final |-> slateFinal]]
    /\ Goes(i, "store")
    /\ UNCHANGED <<db, writer, tx, view, verdict, slateFinal>>

\* ... then replaces the week's rows and records the fetch. ingest_matchups
\* polls the week with the lock held.
StoreWeek(i) ==
    /\ pc[i] = "store"
    /\ Write(i, WithStats(Sees(i), job[i].run, job[i].stats))
    /\ Goes(i, "checkpoint")
    /\ UNCHANGED <<job, verdict, slateFinal>>

\* Checkpoint followed by a SELECT, as a count for the progress line would be.
CheckpointThenRead(i) ==
    /\ pc[i] = "checkpoint"
    /\ db'     = [view[i] EXCEPT !.version = db.version + 1]
    /\ writer' = Nobody
    /\ tx'     = [tx EXCEPT ![i] = "reading"]
    /\ view'   = [view EXCEPT ![i] = db']
    /\ Goes(i, IF job[i].left = {} THEN "kinds" ELSE "fetch")
    /\ UNCHANGED <<job, verdict, slateFinal>>

\* db.checkpoint: COMMIT, and BEGIN again without reading.
Checkpoint(i) ==
    /\ pc[i] = "checkpoint"
    /\ Commit(i, view[i], "begun")
    /\ Goes(i, IF job[i].left = {} THEN "kinds" ELSE "fetch")
    /\ UNCHANGED <<job, verdict, slateFinal>>

\* refresh_row_kinds begins with an UPDATE; the schedule, the links and the
\* fixture states follow, lock in hand.
RefreshRowKinds(i) ==
    /\ pc[i] = "kinds"
    /\ Write(i, Sees(i))
    /\ Goes(i, "finish")
    /\ UNCHANGED <<job, verdict, slateFinal>>

\* runs.finish, and the session's own COMMIT.
FinishRun(i) ==
    /\ pc[i] = "finish"
    /\ Commit(i, WithComplete(view[i], job[i].run), "none")
    /\ Goes(i, "done")
    /\ UNCHANGED <<job, verdict, slateFinal>>

-----------------------------------------------------------------------------
\* The digest: cli.digest, _season, morning, persist.

\* ReadMorning, each SELECT of it on its own: only persist is a transaction.
ReadMorningAutocommit(d) ==
    /\ Idle(d)
    /\ Begin(d)
    /\ verdict' = [verdict EXCEPT ![d] =
           [cites |-> IF slateFinal THEN Trusted(db) ELSE 0,
            read  |-> db.rows[ThisWeek]]]
    /\ Goes(d, "persist")
    /\ UNCHANGED <<db, writer, view, job, slateFinal>>

\* _season checks the identity and the morning is read, all in one view of the
\* database. Before 07:00 UTC the run abstains whatever the evidence.
ReadMorning(d) ==
    /\ Idle(d)
    /\ ReadFirst(d)
    /\ verdict' = [verdict EXCEPT ![d] =
           [cites |-> IF slateFinal THEN Trusted(db) ELSE 0,
            read  |-> db.rows[ThisWeek]]]
    /\ Goes(d, "persist")
    /\ UNCHANGED <<db, writer, job, slateFinal>>

\* persist: the run's header and its rows, after the simulation.
Persist(d) ==
    /\ pc[d] = "persist"
    /\ Write(d, WithDigest(Sees(d), verdict[d]))
    /\ Goes(d, "commit")
    /\ UNCHANGED <<job, verdict, slateFinal>>

CommitDigest(d) ==
    /\ pc[d] = "commit"
    /\ Commit(d, view[d], "none")
    /\ Goes(d, "done")
    /\ UNCHANGED <<job, verdict, slateFinal>>

-----------------------------------------------------------------------------
\* What goes wrong.

\* A statement is refused, and the exception ends the session.
Refused(c) ==
    /\ pc[c] \in {"start", "store", "kinds", "persist"}
    /\ IsRefused(c)
    /\ Rollback(c)
    /\ Goes(c, "refused")
    /\ UNCHANGED <<job, verdict, slateFinal>>

\* The busy timeout runs out.
TimesOut(c) ==
    /\ pc[c] \in {"start", "store", "kinds", "persist"}
    /\ IsBlocked(c)
    /\ Rollback(c)
    /\ Goes(c, "timedout")
    /\ UNCHANGED <<job, verdict, slateFinal>>

\* A request fails for good, a payload is refused, the process is killed.
Dies(c) ==
    /\ Running(c)
    /\ Rollback(c)
    /\ Goes(c, "failed")
    /\ UNCHANGED <<job, verdict, slateFinal>>

SlateCompletes ==
    /\ ~ slateFinal
    /\ slateFinal' = TRUE
    /\ UNCHANGED <<db, writer, tx, view, pc, job, verdict>>

-----------------------------------------------------------------------------
Init ==
    /\ db         = Yesterday
    /\ writer     = Nobody
    /\ tx         = [c \in Conns |-> "none"]
    /\ view       = [c \in Conns |-> NoView]
    /\ pc         = [c \in Conns |-> "idle"]
    /\ job        = [i \in Ingests |-> NoJob]
    /\ verdict    = [d \in Digests |-> [cites |-> 0, read |-> Yesterday.rows[ThisWeek]]]
    /\ slateFinal = FALSE

IngestStep(i) ==
    \/ CheckIdentity(i)
    \/ StartRun(i)
    \/ FetchWeek(i)
    \/ StoreWeek(i)
    \/ Checkpoint(i)
    \/ RefreshRowKinds(i)
    \/ FinishRun(i)

DigestStep(d) == Persist(d) \/ CommitDigest(d)

Next ==
    \/ \E i \in Ingests : OpenIngest(i) \/ IngestStep(i)
    \/ \E d \in Digests : ReadMorning(d) \/ DigestStep(d)
    \/ \E c \in Conns : Refused(c) \/ TimesOut(c) \/ Dies(c)
    \/ SlateCompletes

Spec == Init /\ [][Next]_vars

\* A process that has started keeps going: every request has a timeout and a
\* bounded number of retries, so each step ends. Neither a start, nor a death,
\* nor the end of the busy timeout is promised.
Fairness ==
    /\ \A i \in Ingests : WF_vars(IngestStep(i) \/ Refused(i))
    /\ \A d \in Digests : WF_vars(DigestStep(d) \/ Refused(d))

FairSpec == Spec /\ Fairness

-----------------------------------------------------------------------------
Fetches   == [run: Nat \ {0}, week: Weeks, final: BOOLEAN]
Rows      == [run: Nat \ {0}, final: BOOLEAN]
Runs      == [weeks: SUBSET Weeks, status: {"running", "complete"}, skipsNba: BOOLEAN]
Verdicts  == [cites: Nat, read: Rows]
Databases == [version: Nat, runs: Seq(Runs), fetches: SUBSET Fetches,
              rows: [Weeks -> Rows], digests: Seq(Verdicts)]
Jobs      == [left: SUBSET Weeks, run: Nat, stats: [week: Weeks, final: BOOLEAN]]
Steps     == Ended \cup {"idle", "league", "start", "fetch", "store", "checkpoint",
                         "kinds", "finish", "persist", "commit"}

\* The shape of every variable, and the file's one writer: the connection that
\* holds the lock, and no other, is in the middle of writing.
TypeOK ==
    /\ db \in Databases
    /\ writer \in Conns \cup {Nobody}
    /\ tx \in [Conns -> {"none", "begun", "reading", "writing"}]
    /\ view \in [Conns -> Databases]
    /\ pc \in [Conns -> Steps]
    /\ job \in [Ingests -> Jobs]
    /\ verdict \in [Digests -> Verdicts]
    /\ slateFinal \in BOOLEAN
    /\ \A c \in Conns : tx[c] = "writing" <=> writer = c

\* A complete run is whole: each week it set out to cover was fetched by it and
\* is in the committed record, whatever died around it. The digest takes
\* ingest_runs.status for this (run_ingest's "what stops a partial ingest
\* vouching for a digest").
CompleteIsWhole ==
    \A r \in DOMAIN db.runs : db.runs[r].status = "complete" =>
        \A w \in db.runs[r].weeks :
            \E f \in db.fetches : f.run = r /\ f.week = w

\* The rows a digest advised from are its cited run's, requested once the slate
\* was final. Those of a newer run, from a checkpoint it never got past, are not
\* passed off as the cited run's. Those of an older run, still going when the cited
\* one completed, may be: box_scores keeps no run, and their own date is not read.
VouchedRowsAreNoNewer ==
    \A n \in DOMAIN db.digests :
        LET given == db.digests[n]
        IN  given.cites # 0 => /\ given.read.run <= given.cites
                               /\ given.read.run = given.cites => given.read.final

\* What a digest commits is current to the last commit: the run it cites is still
\* the newest that touches the week, though an ingest may have committed weeks
\* and started runs all through the simulation.
AdviceIsCurrent ==
    [][\A d \in Digests :
        pc[d] = "commit" /\ pc'[d] = "done" /\ verdict[d].cites # 0 =>
            /\ IsNewest(db, ThisWeek, verdict[d].cites)
            /\ db.rows[ThisWeek] = verdict[d].read]_vars

\* An ingest under way is never turned away at once: past its first write it can
\* only be made to wait, since no transaction of its reads before it writes.
UnderwayOnlyWaits ==
    \A i \in Ingests : pc[i] = "refused" => job[i].run = 0

\* Every process that starts ends: whoever holds the lock lets go of it, dying
\* included, so nobody waits for ever even were there no busy timeout.
EveryoneEnds == \A c \in Conns : Running(c) ~> pc[c] \in Ended

\* What is committed is what AtomicStore promises: each commit of an ingest adds
\* one fetched week or completes a whole run, and each digest is recorded as if it
\* had read the database and the run that vouches for it at that very moment.
Atomic == INSTANCE AtomicStore WITH
    runs <- db.runs, fetches <- db.fetches, rows <- db.rows, digests <- db.digests

CommitsAreAtomic == Atomic!Spec
=============================================================================
