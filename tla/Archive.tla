-------------------------------- MODULE Archive --------------------------------
(***************************************************************************)
(* The snapshot archive of one fantasy week, and the repair that votes over *)
(* it (lockin/store/snapshots.py, lockin/repair.py, ingest_matchups and     *)
(* mark_final_weeks in lockin/ingest/sleeper.py, observe and repair in      *)
(* lockin/cli.py).                                                          *)
(*                                                                         *)
(* `lockin observe` and `lockin ingest` both read the week's matchups and   *)
(* save the payload as a file when it differs from the latest one; both     *)
(* mark the week final once Sleeper has scored it. Ingest also records the  *)
(* payload as a poll in the database. `lockin repair` outvotes the latest   *)
(* poll with the files stamped since the mark.                              *)
(*                                                                         *)
(* External: Sleeper, which serves one value per starter, changes lineups   *)
(* and values freely until it has scored the week and only values after.    *)
(*                                                                         *)
(* Abstracted: one roster; its starters only (a repair leaves the bench as  *)
(* it is); a starter always has a score; a stamp is a second, and a file's  *)
(* name a stamp and a copy (`_2`, `_3`), fewer than ten of them. Of the     *)
(* database, a commit is one step: an ingest holds the write lock from the  *)
(* league payload to the checkpoint after the week (module SharedStore).    *)
(***************************************************************************)
EXTENDS Integers, Sequences, FiniteSets, Functions, FiniteSetsExt, SequencesExt

CONSTANTS
    Observers,        \* `lockin observe` processes, each run again and again
    Ingests,          \* `lockin ingest` processes, likewise
    Repairs,          \* `lockin repair --apply` processes, likewise
    Lineups,          \* the sets of starters the week may have
    Values,           \* what a starter's week may count
    MinObservations,  \* --min-observations
    Spacings,         \* how processes may be kept apart: see MayBegin
    Nobody,           \* no process
    Horizon,          \* bound: the last second
    MaxCopies,        \* bound: files stamped with one second
    MaxFiles,         \* bound: files of the week
    MaxPolls          \* bound: polls of the week

Watchers == Observers \cup Ingests
Procs == Watchers \cup Repairs

ASSUME ProcsAssumption ==
    /\ Observers \cap Ingests = {}
    /\ Watchers \cap Repairs = {}
    /\ Nobody \notin Procs
ASSUME ValuesAssumption == Values # {} /\ Values \subseteq Int
ASSUME LineupsAssumption == Lineups # {} /\ {} \notin Lineups
ASSUME SpacingsAssumption == Spacings \subseteq {"together", "in turn", "apart"}
ASSUME BoundsAssumption ==
    /\ MinObservations \in Nat \ {0}
    /\ Horizon \in Nat \ {0}
    /\ MaxCopies \in Nat \ {0}
    /\ MaxFiles \in Nat
    /\ MaxPolls \in Nat

Players == UNION Lineups
Payloads == UNION {[L -> Values] : L \in Lineups}

VARIABLES
    spacing,   \* how the processes are kept apart, which does not change
    now,       \* the second
    upstream,  \* the payload Sleeper serves
    scored,    \* has Sleeper finished scoring the week (last_scored_leg)?
    files,     \* the snapshots: what is in each, and whether it was served final
    marker,    \* FINALIZED: is it there, and the stamp read from it (0: none)
    polls,     \* the week's polls in weekly_matchups, oldest first
    holder,    \* the ingest holding the database's write lock, or Nobody
    pc,        \* pc[p]: the step p is at
    job        \* job[p]: what p has in hand

vars == <<spacing, now, upstream, scored, files, marker, polls, holder, pc, job>>

-----------------------------------------------------------------------------
\* Files. A name is <<stamp, copy>>: `_2` sorts after the plain name.

Seconds == 1..Horizon
Names == Seconds \X (1..MaxCopies)

Precedes(f, g) == f[1] < g[1] \/ (f[1] = g[1] /\ f[2] < g[2])

\* A process that dies while it writes leaves a file that cannot be parsed.
Snapshot(payload, final) == [torn |-> FALSE, served |-> payload, final |-> final]
TornFile(payload, final) == [torn |-> TRUE, served |-> payload, final |-> final]

\* snapshots.latest
IsLatest(f) == f \in DOMAIN files /\ \A g \in DOMAIN files \ {f} : Precedes(g, f)

\* save's comparison, were it made with the oldest snapshot.
UnchangedSinceFirst(payload) ==
    \E f \in DOMAIN files :
        /\ \A g \in DOMAIN files \ {f} : Precedes(f, g)
        /\ files[f].served = payload

\* save: "unless it is identical to the most recent one".
Unchanged(payload) == \E f \in DOMAIN files : IsLatest(f) /\ files[f].served = payload

\* latest parses the file it compares with, and a torn one stops the process.
LatestReads == \A f \in DOMAIN files : IsLatest(f) => ~ files[f].torn

\* save's name, were it the stamp whatever is there.
IsPlainName(f, stamp) == f = <<stamp, 1>>

\* save's loop: the first copy whose path does not exist.
IsFreeName(f, stamp) ==
    /\ f \in Names \ DOMAIN files
    /\ f[1] = stamp
    /\ \A n \in 1..(f[2] - 1) : <<stamp, n>> \in DOMAIN files

-----------------------------------------------------------------------------
\* The vote.

NoMarker == [there |-> FALSE, stamp |-> 0]

\* final_snapshots: stamped at or after the mark; none while the week is open.
FinalFiles == {f \in DOMAIN files : marker.stamp # 0 /\ f[1] >= marker.stamp}

Slots == UNION {DOMAIN files[f].served : f \in FinalFiles}

Showing(p, v) ==
    {f \in FinalFiles : p \in DOMAIN files[f].served /\ files[f].served[p] = v}

Leads(p, v) ==
    /\ Showing(p, v) # {}
    /\ \A u \in Values : Cardinality(Showing(p, u)) <= Cardinality(Showing(p, v))

\* consensus_for_week: the leader that is seen first.
IsVerdict(p, v) ==
    /\ Leads(p, v)
    /\ \A u \in Values \ {v} : Leads(p, u) =>
           \E f \in Showing(p, v) : \A g \in Showing(p, u) : Precedes(f, g)

Verdict == [p \in Slots |-> CHOOSE v \in Values : IsVerdict(p, v)]

\* consensus answers for a final week with enough files, and reads them all.
Judged ==
    /\ Cardinality(FinalFiles) >= MinObservations
    /\ \A f \in FinalFiles : ~ files[f].torn

\* plan: the starters of the latest poll that the archive contradicts.
Fixes ==
    IF polls = <<>> THEN {}
    ELSE {p \in DOMAIN Last(polls).values \cap Slots : Last(polls).values[p] # Verdict[p]}

Total(values) == FoldFunction(+, 0, values)

-----------------------------------------------------------------------------
NoJob == [stamp |-> 0, name |-> <<0, 0>>, payload |-> <<>>, final |-> FALSE,
          fix |-> <<>>, after |-> 0]

Jobs ==
    [stamp : Seconds \cup {0}, name : Names \cup {<<0, 0>>},
     payload : Payloads \cup {<<>>}, final : BOOLEAN,
     fix : UNION {[S -> Values] : S \in SUBSET Players}, after : 0..MaxPolls]

TypeOK ==
    /\ spacing \in Spacings
    /\ now \in Seconds
    /\ upstream \in Payloads
    /\ scored \in BOOLEAN
    /\ DOMAIN files \subseteq Names
    /\ \A f \in DOMAIN files :
           files[f] \in [torn : BOOLEAN, served : Payloads, final : BOOLEAN]
    /\ marker \in [there : BOOLEAN, stamp : Seconds \cup {0}]
    /\ (marker.stamp # 0) => marker.there
    /\ Len(polls) <= MaxPolls
    /\ \A k \in DOMAIN polls :
           /\ polls[k].values \in Payloads
           /\ polls[k].fixed \subseteq DOMAIN polls[k].values
    /\ holder \in Ingests \cup {Nobody}
    /\ pc \in [Procs -> {"idle", "league", "mark", "week", "save", "write", "store", "apply"}]
    /\ job \in [Procs -> Jobs]

Init ==
    /\ spacing \in Spacings
    /\ now = 1
    /\ upstream \in Payloads
    /\ scored = FALSE
    /\ files = <<>>
    /\ marker = NoMarker
    /\ polls = <<>>
    /\ holder = Nobody
    /\ pc = [p \in Procs |-> "idle"]
    /\ job = [p \in Procs |-> NoJob]

-----------------------------------------------------------------------------
\* Sleeper and the clock.

Tick ==
    /\ now < Horizon
    /\ now' = now + 1
    /\ UNCHANGED <<spacing, upstream, scored, files, marker, polls, holder, pc, job>>

\* A live score or a change of lineup; a rewrite, once the week is scored.
Serve ==
    /\ upstream' \in Payloads \ {upstream}
    /\ scored => DOMAIN upstream' = DOMAIN upstream
    /\ UNCHANGED <<spacing, now, scored, files, marker, polls, holder, pc, job>>

Score ==
    /\ ~ scored
    /\ scored' = TRUE
    /\ UNCHANGED <<spacing, now, upstream, files, marker, polls, holder, pc, job>>

-----------------------------------------------------------------------------
\* Processes. One alone in the crontab's order, a second after the last file;
\* one alone; or any number at once.

MayBegin ==
    /\ spacing \in {"in turn", "apart"} => \A p \in Procs : pc[p] = "idle"
    /\ spacing = "apart" => \A f \in DOMAIN files : f[1] < now

Moves(p, from, to) == pc[p] = from /\ pc' = [pc EXCEPT ![p] = to]

\* The process is over: whatever it held is released.
Ends(p) ==
    /\ pc' = [pc EXCEPT ![p] = "idle"]
    /\ job' = [job EXCEPT ![p] = NoJob]
    /\ holder' = IF holder = p THEN Nobody ELSE holder

\* observe takes its stamp once, before its first request.
Begin(w) ==
    /\ MayBegin
    /\ Moves(w, "idle", "league")
    /\ job' = [job EXCEPT ![w].stamp = now]
    /\ UNCHANGED <<spacing, now, upstream, scored, files, marker, polls, holder>>

\* ingest takes a stamp when it needs one.
StampOf(w) == IF w \in Observers THEN job[w].stamp ELSE now

\* mark_final_weeks for a week being played: `<= leg` for `<= last_scored_leg`.
MarksLive == ~ marker.there

\* mark_final_weeks: the week is scored, and no mark is there.
Marks == scored /\ ~ marker.there

\* The league payload arrives; ingest stores it, which takes the write lock.
League(w) ==
    /\ w \in Ingests => holder = Nobody
    /\ holder' = IF w \in Ingests THEN w ELSE holder
    /\ \/ Marks /\ Moves(w, "league", "mark")
       \/ ~ Marks /\ Moves(w, "league", "week")
    /\ job' = [job EXCEPT ![w].stamp = StampOf(w)]
    /\ UNCHANGED <<spacing, now, upstream, scored, files, marker, polls>>

Mark(w) ==
    /\ Moves(w, "mark", "week")
    /\ marker' = [there |-> TRUE, stamp |-> job[w].stamp]
    /\ UNCHANGED <<spacing, now, upstream, scored, files, polls, holder, job>>

\* The week's matchups, as Sleeper has them at one moment of the request.
Matchups(w) ==
    /\ Moves(w, "week", "save")
    /\ job' = [job EXCEPT ![w].payload = upstream, ![w].final = scored]
    /\ UNCHANGED <<spacing, now, upstream, scored, files, marker, polls, holder>>

\* Its payload is saved: observe is done, ingest still has the poll to store.
Saved(w) ==
    IF w \in Observers
    THEN Ends(w)
    ELSE pc' = [pc EXCEPT ![w] = "store"] /\ UNCHANGED <<job, holder>>

Skip(w) ==
    /\ pc[w] = "save"
    /\ LatestReads
    /\ Unchanged(job[w].payload)
    /\ Saved(w)
    /\ UNCHANGED <<spacing, now, upstream, scored, files, marker, polls>>

\* save settles on a path that does not exist.
Name(w) ==
    /\ LatestReads
    /\ ~ Unchanged(job[w].payload)
    /\ Moves(w, "save", "write")
    /\ Cardinality(DOMAIN files) < MaxFiles
    /\ \E f \in Names :
           /\ IsFreeName(f, StampOf(w))
           /\ job' = [job EXCEPT ![w].name = f]
    /\ UNCHANGED <<spacing, now, upstream, scored, files, marker, polls, holder>>

With(name, file) == [f \in DOMAIN files \cup {name} |-> IF f = name THEN file ELSE files[f]]

Write(w) ==
    /\ pc[w] = "write"
    /\ files' = With(job[w].name, Snapshot(job[w].payload, job[w].final))
    /\ Saved(w)
    /\ UNCHANGED <<spacing, now, upstream, scored, marker, polls>>

\* The process dies as it writes the mark or the snapshot.
Tear(w) ==
    /\ \/ /\ pc[w] = "mark"
          /\ marker' = [there |-> TRUE, stamp |-> 0]
          /\ UNCHANGED files
       \/ /\ pc[w] = "write"
          /\ files' = With(job[w].name, TornFile(job[w].payload, job[w].final))
          /\ UNCHANGED marker
    /\ Ends(w)
    /\ UNCHANGED <<spacing, now, upstream, scored, polls>>

\* The rest of ingest_matchups and the checkpoint: the payload is the newest poll.
Store(i) ==
    /\ pc[i] = "store"
    /\ Len(polls) < MaxPolls
    /\ polls' = Append(polls, [values |-> job[i].payload, total |-> Total(job[i].payload),
                               fixed |-> {}, files |-> 0])
    /\ Ends(i)
    /\ UNCHANGED <<spacing, now, upstream, scored, files, marker>>

\* Killed, refused by the network or the database, or stopped by a torn file.
Die(p) ==
    /\ pc[p] # "idle"
    /\ Ends(p)
    /\ UNCHANGED <<spacing, now, upstream, scored, files, marker, polls>>

-----------------------------------------------------------------------------
\* repair --apply.

Plan(r) ==
    /\ MayBegin
    /\ Len(polls) < MaxPolls
    /\ Judged
    /\ Fixes # {}
    /\ Moves(r, "idle", "apply")
    /\ job' = [job EXCEPT ![r].fix = [p \in Fixes |-> Verdict[p]], ![r].after = Len(polls)]
    /\ UNCHANGED <<spacing, now, upstream, scored, files, marker, polls, holder>>

\* The latest poll again, were its fixes forgotten.
Uncorrected(values, fix) == values

\* The latest poll with the fixes in it.
Corrected(values, fix) ==
    [p \in DOMAIN values |-> IF p \in DOMAIN fix THEN fix[p] ELSE values[p]]

\* apply: a whole poll; its team total is of the archive's starters, voted again.
\* Its transaction has read, so a commit or a writer since then refuses it.
Apply(r) ==
    /\ pc[r] = "apply"
    /\ holder = Nobody
    /\ Len(polls) = job[r].after
    /\ Judged
    /\ polls' = Append(polls, [values |-> Corrected(Last(polls).values, job[r].fix),
                               total  |-> Total(Verdict),
                               fixed  |-> DOMAIN job[r].fix,
                               files  |-> Cardinality(DOMAIN files)])
    /\ Ends(r)
    /\ UNCHANGED <<spacing, now, upstream, scored, files, marker>>

-----------------------------------------------------------------------------
Next ==
    \/ Tick
    \/ Serve
    \/ Score
    \/ \E w \in Watchers :
          \/ Begin(w)
          \/ League(w)
          \/ Mark(w)
          \/ Matchups(w)
          \/ Skip(w)
          \/ Name(w)
          \/ Write(w)
          \/ Tear(w)
    \/ \E i \in Ingests : Store(i)
    \/ \E r \in Repairs : Plan(r) \/ Apply(r)
    \/ \E p \in Procs : Die(p)

Spec == Init /\ [][Next]_vars

-----------------------------------------------------------------------------
\* Properties.

\* What votes is evidence of the final week (snapshots.FINALIZED): a snapshot
\* stamped at or after the mark was served once the week was scored, though the
\* stamp, the league's answer and the payload are of different moments. This is of
\* processes kept apart as the crontab keeps them.
FinalEvidence == spacing = "apart" => \A f \in FinalFiles : files[f].final

\* A repair settles the week: while the archive says the same and no ingest has
\* polled since, there is nothing more to repair. This is of processes that take
\* turns: otherwise a second process may save a file between a repair's two looks,
\* or set the mark anew.
RepairSettles ==
    (/\ spacing # "together"
     /\ polls # <<>>
     /\ Last(polls).fixed # {}
     /\ Last(polls).files = Cardinality(DOMAIN files)) => Fixes = {}

\* save never overwrites: no snapshot that was written ever changes or goes, as
\* long as processes take turns.
SnapshotsKept == \A f \in DOMAIN files : f \in DOMAIN files' /\ files'[f] = files[f]
NeverOverwritten == [][spacing # "together" => SnapshotsKept]_vars

\* Every reading is kept: once a payload has been saved, or skipped as known, the
\* archive's latest snapshot is that payload, so the next change will be seen.
EveryReadingKept ==
    [][spacing # "together" => \A w \in Watchers : (Skip(w) \/ Write(w)) =>
          \E f \in DOMAIN files' :
              /\ \A g \in DOMAIN files' \ {f} : Precedes(g, f)
              /\ files'[f].served = job[w].payload]_vars

\* A repair's team total stays the sum of its slots (lockin/repair.py, apply).
TotalIsOfItsSlots == \A k \in DOMAIN polls : polls[k].total = Total(polls[k].values)
================================================================================
