----------------------------- MODULE OpeningProofs -----------------------------
(***************************************************************************)
(* For any file, processes and configurations: a session reads whole polls  *)
(* of a file of one season, an opening that nobody disturbs succeeds        *)
(* wherever an earlier one died, and no rebuild loses advice.               *)
(***************************************************************************)
EXTENDS Opening, SequenceTheorems, WellFoundedInduction, TLAPS

-----------------------------------------------------------------------------
\* Repairs completed from the polls before them. The recursion of Completed has
\* one solution, and what the polls saw is one.

\* A set of numbers has a least one.
LEMMA LeastNat ==
    ASSUME NEW S \in SUBSET Nat, S # {}
    PROVE  \E m \in S : \A n \in S : m <= n
<1>1. IsWellFoundedOn(OpToRel(<, Nat), Nat)
  BY NatLessThanWellFounded
<1>2. PICK m \in S : \A n \in S : ~(<<n, m>> \in OpToRel(<, Nat))
  BY <1>1, WFMin
<1>3. ASSUME NEW n \in S PROVE m <= n
  <2>1. n < m => <<n, m>> \in OpToRel(<, Nat)
    BY DEF OpToRel
  <2>2. ~(n < m)
    BY <1>2, <2>1
  <2> QED BY <2>2
<1> QED BY <1>3

\* The rows of every poll, completed in turn.
Completes(polls, rows) ==
    rows = [n \in DOMAIN polls |->
                IF polls[n].repair /\ n > 1
                THEN Over(polls[n].rows, rows[n - 1])
                ELSE polls[n].rows]

LEMMA LineupsComplete ==
    ASSUME NEW polls \in Seq(Polls), AreOld(polls), NEW rows, Completes(polls, rows)
    PROVE  rows = [n \in DOMAIN polls |-> polls[n].lineup]
<1> DEFINE Wrong == {n \in DOMAIN polls : rows[n] # polls[n].lineup}
<1>1. DOMAIN polls = 1..Len(polls) /\ Len(polls) \in Nat
  OBVIOUS
<1>2. Wrong = {}
  <2> SUFFICES ASSUME Wrong # {} PROVE FALSE
    OBVIOUS
  <2>1. Wrong \in SUBSET Nat
    BY <1>1
  <2>2. PICK n \in Wrong : \A m \in Wrong : n <= m
    BY <2>1, LeastNat
  <2>3. n \in DOMAIN polls /\ n \in Nat /\ n >= 1
    BY <1>1, <2>2
  <2>4. rows[n] = IF polls[n].repair /\ n > 1
                  THEN Over(polls[n].rows, rows[n - 1])
                  ELSE polls[n].rows
    BY <2>3 DEF Completes
  <2>5. n > 1 => n - 1 \in DOMAIN polls /\ rows[n - 1] = polls[n - 1].lineup
    BY <1>1, <2>2, <2>3
  <2>6. rows[n] = polls[n].lineup
    BY <2>3, <2>4, <2>5 DEF AreOld
  <2> QED BY <2>2, <2>6
<1>3. rows = [n \in DOMAIN polls |-> rows[n]]
  BY DEF Completes
<1> QED BY <1>2, <1>3

\* What _complete_partial_polls leaves of old polls: each as it was observed.
LEMMA CompletedPolls ==
    ASSUME NEW polls \in Seq(Polls), AreOld(polls)
    PROVE  Completed(polls) \in Seq(Polls) /\ AreWhole(Completed(polls))
<1> DEFINE seen == [n \in DOMAIN polls |-> polls[n].lineup]
           rows == CHOOSE rows : Completes(polls, rows)
<1>1. DOMAIN polls = 1..Len(polls) /\ Len(polls) \in Nat
      /\ \A n \in DOMAIN polls : polls[n] \in Polls
  OBVIOUS
<1>2. Completes(polls, seen)
  <2>1. \A n \in DOMAIN polls : n > 1 => n - 1 \in DOMAIN polls
    BY <1>1
  <2>2. \A n \in DOMAIN polls :
           seen[n] = IF polls[n].repair /\ n > 1
                     THEN Over(polls[n].rows, seen[n - 1])
                     ELSE polls[n].rows
    BY <1>1, <2>1 DEF AreOld
  <2> QED BY <2>2 DEF Completes
<1>3. rows = seen
  BY <1>2, LineupsComplete
<1>4. Completed(polls) = [n \in DOMAIN polls |-> [polls[n] EXCEPT !.rows = rows[n]]]
  BY DEF Completed, Completes
<1>5. Completed(polls) = [n \in DOMAIN polls |-> [polls[n] EXCEPT !.rows = polls[n].lineup]]
  BY <1>3, <1>4
<1>6. \A n \in DOMAIN polls : /\ [polls[n] EXCEPT !.rows = polls[n].lineup] \in Polls
                              /\ [polls[n] EXCEPT !.rows = polls[n].lineup].rows = polls[n].lineup
                              /\ [polls[n] EXCEPT !.rows = polls[n].lineup].lineup = polls[n].lineup
  BY <1>1 DEF Polls
<1>7. Completed(polls) \in Seq(Polls)
  BY <1>1, <1>5, <1>6
<1>8. AreWhole(Completed(polls))
  BY <1>5, <1>6 DEF AreWhole
<1> QED BY <1>7, <1>8

\* A poll added to whole ones, whole itself.
LEMMA AppendedPoll ==
    ASSUME NEW polls, polls \in Seq(Polls), AreWhole(polls),
           NEW poll, poll \in Polls, poll.rows = poll.lineup
    PROVE  Append(polls, poll) \in Seq(Polls) /\ AreWhole(Append(polls, poll))
<1>1. /\ Append(polls, poll) \in Seq(Polls)
      /\ Len(Append(polls, poll)) = Len(polls) + 1
      /\ \A n \in 1..Len(polls) : Append(polls, poll)[n] = polls[n]
      /\ Append(polls, poll)[Len(polls) + 1] = poll
  BY AppendProperties
<1> DEFINE all == Append(polls, poll)
<1> HIDE DEF all
<1>2. DOMAIN all = 1..Len(all) /\ DOMAIN polls = 1..Len(polls) /\ Len(polls) \in Nat
  BY <1>1 DEF all
<1>3. ASSUME NEW n \in DOMAIN all PROVE all[n].rows = all[n].lineup
  <2>1. CASE n \in 1..Len(polls)
    <3>1. all[n] = polls[n] /\ n \in DOMAIN polls
      BY <1>1, <1>2, <2>1 DEF all
    <3> QED BY <3>1 DEF AreWhole
  <2>2. CASE n \notin 1..Len(polls)
    <3>1. n = Len(polls) + 1
      BY <1>1, <1>2, <1>3, <2>2 DEF all
    <3>2. all[n] = poll
      BY <1>1, <3>1 DEF all
    <3> QED BY <3>2
  <2> QED BY <2>1, <2>2
<1> QED BY <1>1, <1>3 DEF AreWhole, all

-----------------------------------------------------------------------------
\* The inductive invariant.

Steps == Ended \cup Migrations \cup
    {"idle", "schema", "columns", "alter", "shape", "count", "drop", "recreate", "migrations",
     "in coherent-polls", "in fixture-states", "identify", "session"}

TypeOK ==
    /\ db \in Databases
    /\ pc \in [Procs -> Steps]
    /\ config \in [Procs -> Identities \cup {NoIdentity}]
    /\ view \in [Procs -> Databases]
    /\ done \in [Procs -> SUBSET Migrations]
    /\ disturbed \subseteq Procs

\* The migrations p has behind it, and those it has to come.
Behind(p) ==
    CASE pc[p] \in {"fixture-states", "in fixture-states"} -> {"coherent-polls"}
      [] pc[p] \in {"identify", "session"} -> Migrations
      [] OTHER -> {}
ToCome(p) ==
    CASE pc[p] \in {"coherent-polls", "in coherent-polls"} -> Migrations
      [] pc[p] \in {"fixture-states", "in fixture-states"} -> {"fixture-states"}
      [] OTHER -> {}

\* A process that nobody disturbs finds the file as it left it.
FindsIt(p) ==
    /\ pc[p] # "failed"
    /\ pc[p] = "alter" => view[p].columns = db.columns
    /\ pc[p] \in {"count", "drop"} => db.advice # "none"
    /\ ToCome(p) \cap db.migrated \subseteq done[p]
    /\ \A name \in Migrations : pc[p] = Within(name) => view[p] = db /\ name \notin done[p]

\* A session has read a file that is sound, upgraded, and the one configured.
Knows(p) ==
    /\ config[p] \in Configs
    /\ Admits(view[p], config[p], p \in Ingests)
    /\ p \in Ingests => PayloadAgrees(config[p])
    /\ IsSound(view[p]) /\ Migrations \subseteq view[p].migrated

ProcInv(p) ==
    /\ done[p] \cup Behind(p) \subseteq db.migrated
    /\ pc[p] = "drop" => db.advised \subseteq Procs
    /\ p \notin disturbed => FindsIt(p)
    /\ pc[p] = "session" => Knows(p)

IInv == TypeOK /\ IsSound(db) /\ \A p \in Procs : ProcInv(p)

-----------------------------------------------------------------------------
\* What a step may make of the file: it stays sound, what is recorded of its
\* migrations stays, and only processes add advice.
Evolves(d, e) ==
    /\ e \in Databases /\ IsSound(e)
    /\ d.migrated \subseteq e.migrated
    /\ e.advised \subseteq d.advised \cup Procs

LEMMA CreatedEvolves ==
    ASSUME NEW d \in Databases, IsSound(d)
    PROVE  Evolves(d, Created(d)) /\ Created(d).advised = d.advised
<1> DEFINE e == Created(d)
<1>1. /\ e \in Databases
      /\ e.polls = d.polls /\ e.migrated = d.migrated /\ e.advised = d.advised
      /\ e.fixture = d.fixture /\ e.identity = d.identity /\ e.settings = d.settings
      /\ e.leagues = d.leagues /\ e.seasons = d.seasons
      /\ d.latest = "by poll" => e.latest = "by poll"
  BY DEF Created, Databases
<1> QED BY <1>1 DEF Evolves, IsSound, IsOfOneSeason, SeasonsOfRows

LEMMA MigratedEvolves ==
    ASSUME NEW d \in Databases, IsSound(d), NEW name \in Migrations, name \notin d.migrated
    PROVE  /\ Evolves(d, Migrated(d, name))
           /\ Migrated(d, name).migrated = d.migrated \cup {name}
           /\ Migrated(d, name).advised = d.advised
<1> DEFINE e == Migrated(d, name)
           migrated == d.migrated \cup {name}
<1>1. migrated \in SUBSET Migrations
  BY DEF Databases
<1>2. CASE name = "coherent-polls"
  <2>1. d.polls \in Seq(Polls) /\ AreOld(d.polls)
    BY <1>2 DEF Databases, IsSound
  <2>2. Completed(d.polls) \in Seq(Polls) /\ AreWhole(Completed(d.polls))
    BY <2>1, CompletedPolls
  <2>3. e = [d EXCEPT !.polls = Completed(d.polls), !.latest = "by poll",
                      !.migrated = migrated]
    BY <1>2 DEF Migrated
  <2>4. /\ e.polls = Completed(d.polls) /\ e.latest = "by poll"
        /\ e.migrated = d.migrated \cup {name}
        /\ e.advised = d.advised /\ e.fixture = d.fixture /\ e.identity = d.identity
        /\ e.settings = d.settings /\ e.leagues = d.leagues /\ e.seasons = d.seasons
    BY <2>3 DEF Databases
  <2>5. e \in Databases
    <3> HIDE DEF migrated
    <3> QED BY <1>1, <2>2, <2>3 DEF Databases
  <2>6. IsSound(e)
    BY <1>2, <2>2, <2>4 DEF IsSound, IsOfOneSeason, SeasonsOfRows
  <2> QED BY <2>4, <2>5, <2>6 DEF Evolves
<1>3. CASE name = "fixture-states"
  <2> DEFINE state == IF d.fixture.state # "null" THEN d.fixture.state
                      ELSE CASE d.fixture.occurred = "yes" -> "final"
                             [] d.fixture.occurred = "no"  -> "postponed"
                             [] OTHER                      -> "null"
  <2>1. e = [d EXCEPT !.fixture.state = state, !.migrated = migrated]
    BY <1>3 DEF Migrated
  <2>2. state \in {"null", "postponed", "final"}
    BY DEF Databases
  <2>3. d.fixture.occurred = "yes" => state = "final"
    BY DEF IsSound
  <2> HIDE DEF state
  <2>4. /\ e.polls = d.polls /\ e.latest = d.latest
        /\ e.migrated = d.migrated \cup {name}
        /\ e.fixture.occurred = d.fixture.occurred /\ e.fixture.state = state
        /\ e.advised = d.advised /\ e.identity = d.identity
        /\ e.settings = d.settings /\ e.leagues = d.leagues /\ e.seasons = d.seasons
    BY <2>1 DEF Databases
  <2>5. e \in Databases
    <3>1. [d.fixture EXCEPT !.state = state] \in
             [occurred : {"null", "no", "yes"}, state : {"null", "postponed", "final"}]
      BY <2>2 DEF Databases
    <3>2. e = [d EXCEPT !.fixture = [d.fixture EXCEPT !.state = state], !.migrated = migrated]
      BY <2>1
    <3> DEFINE fixture == [d.fixture EXCEPT !.state = state]
    <3> HIDE DEF migrated, fixture
    <3> QED BY <1>1, <3>1, <3>2 DEF Databases, fixture
  <2>6. IsSound(e)
    BY <1>3, <2>3, <2>4 DEF IsSound, IsOfOneSeason, SeasonsOfRows
  <2> QED BY <2>4, <2>5, <2>6 DEF Evolves
<1> QED BY <1>2, <1>3 DEF Migrations
-----------------------------------------------------------------------------
\* One process moves: what is left to show is about it alone.

\* The file stays as it is, or is changed into one that evolved from it.
FileKept(p) ==
    \/ UNCHANGED <<db, disturbed>>
    \/ \E e \in Databases : Commits(p, e) /\ Evolves(db, e)

MoveOf(p) ==
    /\ pc' \in [Procs -> Steps]
    /\ config' \in [Procs -> Identities \cup {NoIdentity}]
    /\ view' \in [Procs -> Databases]
    /\ done' \in [Procs -> SUBSET Migrations]
    /\ \A q \in Procs \ {p} :
          pc'[q] = pc[q] /\ config'[q] = config[q] /\ view'[q] = view[q] /\ done'[q] = done[q]

LEMMA KeptEvolves ==
    ASSUME IInv, NEW p \in Procs, FileKept(p)
    PROVE  /\ Evolves(db, db') /\ disturbed \subseteq disturbed' /\ disturbed' \subseteq Procs
           /\ db' # db => {q \in Procs \ {p} : Opening(q)} \subseteq disturbed'
BY DEF FileKept, Commits, Evolves, IInv, TypeOK

LEMMA OthersKeep ==
    ASSUME IInv, NEW p \in Procs, FileKept(p), MoveOf(p), NEW q \in Procs \ {p}
    PROVE  ProcInv(q)'
<1>1. /\ Evolves(db, db') /\ disturbed \subseteq disturbed'
      /\ db' # db => (Opening(q) => q \in disturbed')
  BY KeptEvolves
<1>2. pc'[q] = pc[q] /\ config'[q] = config[q] /\ view'[q] = view[q] /\ done'[q] = done[q]
  BY DEF MoveOf
<1>3. ProcInv(q) /\ pc[q] \in Steps
  BY DEF IInv, TypeOK
<1>4. done'[q] \cup Behind(q)' \subseteq db'.migrated
  <2>1. Behind(q)' = Behind(q)
    BY <1>2 DEF Behind
  <2> QED BY <1>1, <1>2, <1>3, <2>1 DEF ProcInv, Evolves
<1>5. pc'[q] = "drop" => db'.advised \subseteq Procs
  BY <1>1, <1>2, <1>3 DEF ProcInv, Evolves
<1>6. ASSUME q \notin disturbed' PROVE FindsIt(q)'
  <2>1. FindsIt(q)
    BY <1>1, <1>3, <1>6 DEF ProcInv
  <2>2. CASE db' = db
    BY <1>2, <2>1, <2>2 DEF FindsIt, ToCome
  <2>3. CASE db' # db
    <3>1. pc[q] \in Ended \cup {"idle", "identify", "session"}
      BY <1>1, <1>6, <2>3 DEF Opening
    <3> QED BY <1>2, <2>1, <3>1 DEF FindsIt, ToCome, Within, Ended
  <2> QED BY <2>2, <2>3
<1>7. pc'[q] = "session" => Knows(q)'
  BY <1>2, <1>3 DEF ProcInv, Knows, Admits, Legacy, IsSound, PayloadAgrees
<1> QED BY <1>4, <1>5, <1>6, <1>7 DEF ProcInv

LEMMA OneMoves ==
    ASSUME IInv, NEW p \in Procs, FileKept(p), MoveOf(p), ProcInv(p)'
    PROVE  IInv'
<1>1. Evolves(db, db') /\ disturbed' \subseteq Procs
  BY KeptEvolves
<1>2. TypeOK'
  BY <1>1 DEF TypeOK, Evolves, MoveOf
<1>3. IsSound(db)'
  BY <1>1 DEF Evolves, IsSound
<1> QED BY <1>2, <1>3, OthersKeep DEF IInv

LEMMA NoFileIsOne == NoFile \in Databases
<1>1. <<>> \in Seq(Polls)
  OBVIOUS
<1> QED BY <1>1 DEF NoFile, Databases

\* Whoever ends has nothing left to be wrong about, unless it failed.
LEMMA EndMoves ==
    ASSUME IInv, NEW p \in Procs, NEW how \in Ended, Ends(p, how)
    PROVE  MoveOf(p) /\ pc'[p] = how /\ done'[p] = {}
BY NoFileIsOne DEF IInv, TypeOK, Ends, Goes, MoveOf, Steps

LEMMA EndedIsFine ==
    ASSUME NEW p, pc'[p] \in Ended, done'[p] = {}, pc'[p] = "failed" => p \in disturbed'
    PROVE  ProcInv(p)'
BY DEF ProcInv, Behind, FindsIt, ToCome, Within, Ended

LEMMA EndKeeps ==
    ASSUME IInv, NEW p \in Procs, FileKept(p), NEW how \in Ended, Ends(p, how),
           how = "failed" => p \in disturbed'
    PROVE  IInv'
<1>1. MoveOf(p) /\ pc'[p] = how /\ done'[p] = {}
  BY EndMoves
<1> QED BY <1>1, EndedIsFine, OneMoves

\* A step that only goes on.
LEMMA GoMoves ==
    ASSUME IInv, NEW p \in Procs, NEW step \in Steps, Goes(p, step), UNCHANGED <<config, view, done>>
    PROVE  MoveOf(p) /\ pc'[p] = step
BY DEF IInv, TypeOK, Goes, MoveOf

-----------------------------------------------------------------------------
\* Every action. First the opening.

\* Steps with no migration behind them or to come.
Early == {"schema", "columns", "alter", "shape", "count", "drop", "recreate", "migrations"}

LEMMA EarlyIsFine ==
    ASSUME IInv, NEW p \in Procs, FileKept(p), done'[p] = done[p], pc'[p] \in Early,
           pc'[p] = "drop" => db'.advised \subseteq Procs,
           p \notin disturbed' /\ pc'[p] = "alter" => view'[p].columns = db'.columns,
           p \notin disturbed' /\ pc'[p] \in {"count", "drop"} => db'.advice # "none"
    PROVE  ProcInv(p)'
<1>1. done'[p] \subseteq db'.migrated
  BY KeptEvolves DEF IInv, ProcInv, Evolves
<1>2. Behind(p)' = {}
  BY DEF Behind, Early, Migrations
<1>3. p \notin disturbed' => FindsIt(p)'
  BY DEF FindsIt, ToCome, Within, Early
<1> QED BY <1>1, <1>2, <1>3 DEF ProcInv, Early

LEMMA ConnectKeeps ==
    ASSUME IInv, NEW p \in Procs, Connect(p)
    PROVE  IInv'
<1>1. CASE db.exists \/ p \in Ingests
  <2> DEFINE e == [db EXCEPT !.exists = TRUE]
  <2>1. Commits(p, e) /\ Goes(p, "schema") /\ UNCHANGED <<config, view, done>>
    BY <1>1 DEF Connect
  <2>2. /\ e \in Databases
        /\ e.latest = db.latest /\ e.polls = db.polls /\ e.migrated = db.migrated
        /\ e.advised = db.advised
        /\ e.fixture = db.fixture /\ e.identity = db.identity /\ e.settings = db.settings
        /\ e.leagues = db.leagues /\ e.seasons = db.seasons
    BY DEF IInv, TypeOK, Databases
  <2>3. Evolves(db, e)
    BY <2>2 DEF IInv, Evolves, IsSound, IsOfOneSeason, SeasonsOfRows
  <2>4. FileKept(p)
    BY <2>1, <2>2, <2>3 DEF FileKept
  <2>5. MoveOf(p) /\ pc'[p] = "schema" /\ done'[p] = done[p]
    BY <2>1, GoMoves DEF Steps
  <2> QED BY <2>4, <2>5, EarlyIsFine, OneMoves DEF Early
<1>2. CASE ~(db.exists \/ p \in Ingests)
  <2>1. UNCHANGED <<db, disturbed, config, view, done>> /\ Goes(p, "missing")
    BY <1>2 DEF Connect
  <2>2. FileKept(p) /\ MoveOf(p) /\ pc'[p] = "missing" /\ done'[p] = done[p]
    BY <2>1, GoMoves DEF FileKept, Steps, Ended
  <2>3. ProcInv(p)'
    BY <2>1, <2>2 DEF IInv, ProcInv, Behind, FindsIt, ToCome, Within
  <2> QED BY <2>2, <2>3, OneMoves
<1> QED BY <1>1, <1>2

LEMMA SchemaKeeps ==
    ASSUME IInv, NEW p \in Procs, RunSchema(p) \/ RecreateAdvice(p)
    PROVE  IInv'
<1>1. Commits(p, Created(db)) /\ UNCHANGED <<config, view, done>>
  BY DEF RunSchema, RecreateAdvice
<1>2. PICK step \in {"columns", "migrations"} : Goes(p, step)
  BY DEF RunSchema, RecreateAdvice
<1>3. FileKept(p)
  BY <1>1, CreatedEvolves DEF FileKept, IInv, TypeOK, Evolves
<1>4. MoveOf(p) /\ pc'[p] = step /\ done'[p] = done[p]
  BY <1>1, <1>2, GoMoves DEF Steps
<1> QED BY <1>3, <1>4, EarlyIsFine, OneMoves DEF Early

LEMMA ReadColumnsKeeps ==
    ASSUME IInv, NEW p \in Procs, ReadColumns(p)
    PROVE  IInv'
<1>1. FileKept(p) /\ done'[p] = done[p]
  BY DEF ReadColumns, FileKept
<1>2. MoveOf(p) /\ pc'[p] = "alter" /\ view'[p] = db /\ db' = db
  BY DEF ReadColumns, Reads, Goes, IInv, TypeOK, MoveOf, Steps
<1> QED BY <1>1, <1>2, EarlyIsFine, OneMoves DEF Early

LEMMA AddColumnKeeps ==
    ASSUME IInv, NEW p \in Procs, AddColumn(p)
    PROVE  IInv'
<1>1. PICK c \in Added \ view[p].columns :
        IF c \in db.columns
        THEN UNCHANGED <<db, disturbed>> /\ Ends(p, "failed")
        ELSE /\ Commits(p, [db EXCEPT !.columns = @ \cup {c}])
             /\ view' = [view EXCEPT ![p].columns = @ \cup {c}]
             /\ UNCHANGED <<pc, config, done>>
  BY DEF AddColumn, MissingColumns
<1>2. pc[p] = "alter" /\ (p \notin disturbed => view[p].columns = db.columns)
  BY DEF AddColumn, IInv, ProcInv, FindsIt
<1>3. CASE c \in db.columns
  <2>1. p \in disturbed /\ UNCHANGED <<db, disturbed>> /\ Ends(p, "failed")
    BY <1>1, <1>2, <1>3
  <2> QED BY <2>1, EndKeeps DEF FileKept, Ended
<1>4. CASE c \notin db.columns
  <2> DEFINE e == [db EXCEPT !.columns = @ \cup {c}]
  <2>1. /\ Commits(p, e) /\ UNCHANGED <<pc, config, done>>
        /\ view' = [view EXCEPT ![p].columns = @ \cup {c}]
    BY <1>1, <1>4
  <2>2. /\ e \in Databases /\ e.columns = db.columns \cup {c}
        /\ e.latest = db.latest /\ e.polls = db.polls /\ e.migrated = db.migrated
        /\ e.advised = db.advised
        /\ e.fixture = db.fixture /\ e.identity = db.identity /\ e.settings = db.settings
        /\ e.leagues = db.leagues /\ e.seasons = db.seasons
    BY DEF IInv, TypeOK, Databases
  <2>3. Evolves(db, e)
    BY <2>2 DEF IInv, Evolves, IsSound, IsOfOneSeason, SeasonsOfRows
  <2>4. FileKept(p)
    BY <2>1, <2>2, <2>3 DEF FileKept
  <2>5. /\ [view[p] EXCEPT !.columns = @ \cup {c}] \in Databases
        /\ [view[p] EXCEPT !.columns = @ \cup {c}].columns = view[p].columns \cup {c}
    BY DEF IInv, TypeOK, Databases
  <2>6. MoveOf(p) /\ view'[p].columns = view[p].columns \cup {c}
    BY <2>1, <2>5 DEF IInv, TypeOK, MoveOf
  <2>7. p \notin disturbed' => p \notin disturbed /\ db'.columns = db.columns \cup {c}
    BY <2>1, <2>2 DEF Commits
  <2>8. ProcInv(p)'
    BY <1>2, <2>1, <2>4, <2>6, <2>7, EarlyIsFine DEF Early
  <2> QED BY <2>4, <2>6, <2>8, OneMoves
<1> QED BY <1>3, <1>4

LEMMA ColumnsAddedKeeps ==
    ASSUME IInv, NEW p \in Procs, ColumnsAdded(p)
    PROVE  IInv'
<1>1. FileKept(p) /\ done'[p] = done[p]
  BY DEF ColumnsAdded, FileKept
<1>2. MoveOf(p) /\ pc'[p] = "shape"
  BY NoFileIsOne DEF ColumnsAdded, Goes, IInv, TypeOK, MoveOf, Steps
<1> QED BY <1>1, <1>2, EarlyIsFine, OneMoves DEF Early

LEMMA ReadShapeKeeps ==
    ASSUME IInv, NEW p \in Procs, ReadShape(p)
    PROVE  IInv'
<1> DEFINE step == IF db.advice = "old" THEN "count" ELSE "migrations"
<1>1. UNCHANGED <<db, config, view, done, disturbed>> /\ Goes(p, step)
  BY DEF ReadShape
<1>2. FileKept(p) /\ MoveOf(p) /\ pc'[p] = step /\ done'[p] = done[p]
  BY <1>1, GoMoves DEF FileKept, Steps
<1>3. step \in {"count", "migrations"} /\ (step = "count" => db.advice # "none")
  OBVIOUS
<1> HIDE DEF step
<1>4. ProcInv(p)'
  BY <1>1, <1>2, <1>3, EarlyIsFine DEF Early
<1> QED BY <1>2, <1>4, OneMoves

LEMMA CountAdviceKeeps ==
    ASSUME IInv, NEW p \in Procs, CountAdvice(p)
    PROVE  IInv'
<1>1. pc[p] = "count" /\ UNCHANGED <<db, config, view, done, disturbed>>
  BY DEF CountAdvice
<1>2. PICK step \in {"migrations", "drop", "failed"} :
        /\ Goes(p, step)
        /\ step = "drop" => db.advised = {} /\ db.advice # "none"
        /\ step = "failed" => db.advice = "none"
  BY DEF CountAdvice
<1>3. FileKept(p) /\ MoveOf(p) /\ pc'[p] = step /\ done'[p] = done[p]
  BY <1>1, <1>2, GoMoves DEF FileKept, Steps, Ended
<1>4. CASE step # "failed"
  <2>1. ProcInv(p)'
    BY <1>1, <1>2, <1>3, <1>4, EarlyIsFine DEF Early
  <2> QED BY <1>3, <2>1, OneMoves
<1>5. CASE step = "failed"
  <2>1. p \in disturbed'
    BY <1>1, <1>2, <1>5 DEF IInv, ProcInv, FindsIt
  <2>2. ProcInv(p)'
    BY <1>1, <1>3, <1>5, <2>1 DEF IInv, ProcInv, Behind, Migrations
  <2> QED BY <1>3, <2>2, OneMoves
<1> QED BY <1>4, <1>5

LEMMA DropAdviceKeeps ==
    ASSUME IInv, NEW p \in Procs, DropAdvice(p)
    PROVE  IInv'
<1>1. pc[p] = "drop" /\ UNCHANGED <<config, view, done>>
  BY DEF DropAdvice
<1>2. CASE db.advice = "none"
  <2>1. UNCHANGED <<db, disturbed>> /\ Goes(p, "failed")
    BY <1>2 DEF DropAdvice
  <2>2. FileKept(p) /\ MoveOf(p) /\ pc'[p] = "failed" /\ done'[p] = done[p]
    BY <1>1, <2>1, GoMoves DEF FileKept, Steps, Ended
  <2>3. p \in disturbed'
    BY <1>1, <1>2, <2>1 DEF IInv, ProcInv, FindsIt
  <2>4. ProcInv(p)'
    BY <1>1, <2>1, <2>2, <2>3 DEF IInv, ProcInv, Behind, Migrations
  <2> QED BY <2>2, <2>4, OneMoves
<1>3. CASE db.advice # "none"
  <2> DEFINE e == [db EXCEPT !.advice = "none", !.advised = {}]
  <2>1. Commits(p, e) /\ Goes(p, "recreate")
    BY <1>3 DEF DropAdvice
  <2>2. /\ e \in Databases /\ e.advised = {}
        /\ e.latest = db.latest /\ e.polls = db.polls /\ e.migrated = db.migrated
        /\ e.fixture = db.fixture /\ e.identity = db.identity /\ e.settings = db.settings
        /\ e.leagues = db.leagues /\ e.seasons = db.seasons
    BY DEF IInv, TypeOK, Databases
  <2>3. Evolves(db, e)
    BY <2>2 DEF IInv, Evolves, IsSound, IsOfOneSeason, SeasonsOfRows
  <2>4. FileKept(p)
    BY <2>1, <2>2, <2>3 DEF FileKept
  <2>5. MoveOf(p) /\ pc'[p] = "recreate" /\ done'[p] = done[p]
    BY <1>1, <2>1, GoMoves DEF Steps
  <2> QED BY <2>4, <2>5, EarlyIsFine, OneMoves DEF Early
<1> QED BY <1>2, <1>3

LEMMA ReadMigrationsKeeps ==
    ASSUME IInv, NEW p \in Procs, ReadMigrations(p)
    PROVE  IInv'
<1>1. FileKept(p) /\ db' = db
  BY DEF ReadMigrations, FileKept
<1>2. MoveOf(p) /\ pc'[p] = "coherent-polls" /\ done'[p] = db.migrated
  BY DEF ReadMigrations, Goes, IInv, TypeOK, MoveOf, Steps, Migrations, Databases
<1>3. ProcInv(p)'
  BY <1>1, <1>2 DEF ProcInv, Behind, FindsIt, ToCome, Within, Migrations
<1> QED BY <1>1, <1>2, <1>3, OneMoves

\* What a migration leaves behind it when it is over.
LEMMA BehindThen ==
    ASSUME NEW p, NEW name \in Migrations, pc[p] \in {name, Within(name)}, pc'[p] = Then(name)
    PROVE  /\ Behind(p)' = Behind(p) \cup {name}
           /\ ToCome(p)' \subseteq ToCome(p) \ {name}
           /\ name \in ToCome(p)
           /\ pc'[p] \in {"fixture-states", "identify"}
BY DEF Behind, ToCome, Then, Within, Migrations

LEMMA SkipMigrationKeeps ==
    ASSUME IInv, NEW p \in Procs, NEW name \in Migrations, SkipMigration(p, name)
    PROVE  IInv'
<1>1. /\ pc[p] = name /\ name \in done[p] /\ Goes(p, Then(name))
      /\ UNCHANGED <<db, config, view, done, disturbed>>
  BY DEF SkipMigration
<1>2. FileKept(p) /\ MoveOf(p) /\ pc'[p] = Then(name)
  BY <1>1, GoMoves DEF FileKept, Steps, Then, Migrations
<1>3. /\ Behind(p)' = Behind(p) \cup {name} /\ ToCome(p)' \subseteq ToCome(p)
      /\ pc'[p] \in {"fixture-states", "identify"}
  BY <1>1, <1>2, BehindThen
<1>4. p \notin disturbed' => FindsIt(p)'
  BY <1>1, <1>3 DEF IInv, ProcInv, FindsIt, Within
<1>5. ProcInv(p)'
  BY <1>1, <1>3, <1>4 DEF IInv, ProcInv
<1> QED BY <1>2, <1>5, OneMoves

LEMMA SavepointKeeps ==
    ASSUME IInv, NEW p \in Procs, NEW name \in Migrations, Savepoint(p, name)
    PROVE  IInv'
<1>1. /\ pc[p] = name /\ name \notin done[p] /\ Goes(p, Within(name)) /\ Reads(p)
      /\ UNCHANGED <<db, config, done, disturbed>>
  BY DEF Savepoint
<1>2. FileKept(p) /\ MoveOf(p) /\ pc'[p] = Within(name) /\ view'[p] = db
  BY <1>1 DEF FileKept, Goes, Reads, IInv, TypeOK, MoveOf, Steps, Within
<1>3. /\ Behind(p)' = Behind(p) /\ ToCome(p)' = ToCome(p)
      /\ pc'[p] \in {"in coherent-polls", "in fixture-states"}
  BY <1>1, <1>2 DEF Behind, ToCome, Within, Migrations
<1>4. \A m \in Migrations : pc'[p] = Within(m) => m = name
  BY <1>2 DEF Within, Migrations
<1>5. p \notin disturbed' => FindsIt(p)'
  BY <1>1, <1>2, <1>3, <1>4 DEF IInv, ProcInv, FindsIt
<1>6. ProcInv(p)'
  BY <1>1, <1>3, <1>5 DEF IInv, ProcInv
<1> QED BY <1>2, <1>6, OneMoves

LEMMA ReleaseKeeps ==
    ASSUME IInv, NEW p \in Procs, NEW name \in Migrations, Release(p, name)
    PROVE  IInv'
<1>1. pc[p] = Within(name) /\ name \in ToCome(p)
  BY DEF Release, ToCome, Within, Migrations
<1>2. p \notin disturbed => view[p] = db /\ name \notin db.migrated
  BY <1>1 DEF IInv, ProcInv, FindsIt
<1>3. CASE view[p] # db \/ name \in db.migrated
  <2>1. UNCHANGED <<db, disturbed>> /\ Ends(p, "failed")
    BY <1>3 DEF Release
  <2> QED BY <1>2, <1>3, <2>1, EndKeeps DEF FileKept, Ended
<1>4. CASE ~(view[p] # db \/ name \in db.migrated)
  <2> DEFINE e == Migrated(db, name)
  <2>1. /\ Commits(p, e) /\ Goes(p, Then(name)) /\ view' = [view EXCEPT ![p] = NoFile]
        /\ UNCHANGED <<config, done>>
    BY <1>4 DEF Release
  <2>2. Evolves(db, e) /\ e.migrated = db.migrated \cup {name}
    BY <1>4, MigratedEvolves DEF IInv, TypeOK
  <2> HIDE DEF e
  <2>3. FileKept(p)
    BY <2>1, <2>2 DEF FileKept, Evolves
  <2>4. MoveOf(p) /\ pc'[p] = Then(name)
    BY <2>1, NoFileIsOne DEF Goes, IInv, TypeOK, MoveOf, Steps, Then, Migrations
  <2>5. /\ Behind(p)' = Behind(p) \cup {name} /\ ToCome(p)' \subseteq ToCome(p) \ {name}
        /\ pc'[p] \in {"fixture-states", "identify"}
    BY <1>1, <2>4, BehindThen
  <2>6. db'.migrated = db.migrated \cup {name} /\ done'[p] = done[p] /\ disturbed \subseteq disturbed'
    BY <2>1, <2>2 DEF Commits
  <2>7. p \notin disturbed' => FindsIt(p)'
    BY <2>5, <2>6 DEF IInv, ProcInv, FindsIt, Within
  <2>8. ProcInv(p)'
    BY <2>5, <2>6, <2>7 DEF IInv, ProcInv
  <2> QED BY <2>3, <2>4, <2>8, OneMoves
<1> QED BY <1>3, <1>4

-----------------------------------------------------------------------------
\* The session.

LEMMA IdentifyKeeps ==
    ASSUME IInv, NEW p \in Procs, Identify(p)
    PROVE  IInv'
<1>1. pc[p] = "identify" /\ UNCHANGED <<db, disturbed>> /\ FileKept(p)
  BY DEF Identify, FileKept
<1>2. CASE Ends(p, "refused")
  BY <1>1, <1>2, EndKeeps DEF Ended
<1>3. ASSUME NEW want \in Configs, p \in Ingests => PayloadAgrees(want),
             Admits(db, want, p \in Ingests), config' = [config EXCEPT ![p] = want],
             Reads(p), Goes(p, "session"), UNCHANGED done
      PROVE  IInv'
  <2>1. want \in Identities
    BY ConfigsAssumption DEF Identities, Leagues
  <2>2. MoveOf(p) /\ pc'[p] = "session" /\ view'[p] = db /\ config'[p] = want
    BY <1>3, <2>1 DEF Goes, Reads, IInv, TypeOK, MoveOf, Steps
  <2>3. done[p] \subseteq db.migrated /\ Migrations \subseteq db.migrated
    BY <1>1 DEF IInv, ProcInv, Behind
  <2>4. Knows(p)'
    BY <1>3, <2>2, <2>3 DEF Knows, IInv, Admits, Legacy, IsSound, PayloadAgrees
  <2>5. Behind(p)' = Migrations /\ ToCome(p)' = {}
    BY <2>2 DEF Behind, ToCome
  <2>6. ProcInv(p)'
    BY <1>1, <1>3, <2>2, <2>3, <2>4, <2>5 DEF ProcInv, FindsIt, Within
  <2> QED BY <1>1, <2>2, <2>6, OneMoves
<1> QED BY <1>2, <1>3 DEF Identify

\* The seasons of a file's rows, when it admits a session of that configuration.
LEMMA AdmittedRows ==
    ASSUME NEW d \in Databases, IsSound(d), NEW want \in Configs, NEW claim, Admits(d, want, claim)
    PROVE  SeasonsOfRows(d) \subseteq {want.season} /\ want \in Identities /\ want # NoIdentity
<1>1. want \in Identities /\ want # NoIdentity
  BY ConfigsAssumption DEF Identities, Leagues
<1>2. CASE d.identity # NoIdentity
  BY <1>1, <1>2 DEF Admits, IsSound, IsOfOneSeason
<1>3. CASE d.identity = NoIdentity /\ d.settings = {}
  BY <1>1, <1>3 DEF IsSound, IsOfOneSeason
<1>4. CASE d.identity = NoIdentity /\ d.settings # {}
  <2>1. Legacy(d) = want
    BY <1>4 DEF Admits
  <2>2. PICK s \in d.settings : d.settings = {s}
    BY <1>1, <2>1 DEF Legacy
  <2>3. (CHOOSE x \in d.settings : TRUE) = s
    BY <2>2
  <2>4. want = s
    BY <2>1, <2>2, <2>3 DEF Legacy
  <2> QED BY <1>1, <1>4, <2>2, <2>4 DEF IsSound, IsOfOneSeason
<1> QED BY <1>1, <1>2, <1>3, <1>4

LEMMA LockedKeeps ==
    ASSUME IInv, NEW p \in Procs, Locked(p)
    PROVE  IInv'
BY EndKeeps DEF Locked, FileKept, Ended

\* A file that a session of that configuration writes to is of its season.
LEMMA IngestKeeps ==
    ASSUME IInv, NEW p \in Procs, Ingest(p)
    PROVE  IInv'
<1>1. p \in Ingests /\ pc[p] = "session" /\ view[p] = db /\ Ends(p, "done")
  BY DEF Ingest
<1>2. PICK lineup \in Lineups :
        Commits(p, [db EXCEPT
            !.identity = config[p],
            !.settings = @ \cup {[league |-> config[p].league,
                                  season |-> SeasonOf[config[p].league]]},
            !.leagues  = @ \cup {config[p].league},
            !.seasons  = @ \cup {config[p].season},
            !.polls    = Append(@, [repair |-> FALSE, rows |-> lineup, lineup |-> lineup]),
            !.fixture.state = "final"])
  BY DEF Ingest
<1> DEFINE want == config[p]
           setting == [league |-> want.league, season |-> SeasonOf[want.league]]
           poll == [repair |-> FALSE, rows |-> lineup, lineup |-> lineup]
           polls == Append(db.polls, poll)
           fixture == [db.fixture EXCEPT !.state = "final"]
           e == [db EXCEPT !.identity = want, !.settings = @ \cup {setting},
                           !.leagues = @ \cup {want.league}, !.seasons = @ \cup {want.season},
                           !.polls = polls, !.fixture = fixture]
<1>3. Commits(p, e)
  BY <1>2
<1>4. /\ Knows(p) /\ db \in Databases /\ IsSound(db)
  BY <1>1 DEF IInv, TypeOK, ProcInv
<1>5. /\ want \in Configs /\ Admits(db, want, TRUE) /\ SeasonOf[want.league] = want.season
      /\ Migrations \subseteq db.migrated
  BY <1>1, <1>4 DEF Knows, PayloadAgrees
<1>6. SeasonsOfRows(db) \subseteq {want.season} /\ want \in Identities /\ want # NoIdentity
  BY <1>4, <1>5, AdmittedRows
<1>7. setting \in Identities
  BY <1>6, ConfigsAssumption DEF Identities, Leagues
<1>8. poll \in Polls /\ poll.rows = poll.lineup
  BY FilesAssumption DEF Polls
<1>9. /\ db.latest = "by poll" /\ AreWhole(db.polls) /\ db.polls \in Seq(Polls)
  BY <1>4, <1>5 DEF IsSound, Migrations, Databases
<1> HIDE DEF setting, poll, want
<1>10. polls \in Seq(Polls) /\ AreWhole(polls)
  BY <1>8, <1>9, AppendedPoll
<1>11. /\ fixture \in [occurred : {"null", "no", "yes"}, state : {"null", "postponed", "final"}]
       /\ fixture.state = "final"
  BY <1>4 DEF Databases
<1> HIDE DEF polls, fixture
<1>12. want.league \in Leagues /\ want.season \in Int
  BY <1>6 DEF Identities
<1>13. /\ e.identity = want /\ e.latest = db.latest /\ e.polls = polls /\ e.fixture = fixture
       /\ e.migrated = db.migrated /\ e.advised = db.advised
       /\ e.leagues = db.leagues \cup {want.league} /\ e.seasons = db.seasons \cup {want.season}
  BY <1>4 DEF Databases
<1>14. e \in Databases
  BY <1>4, <1>6, <1>7, <1>10, <1>11, <1>12 DEF Databases
<1>15. SeasonsOfRows(e) \subseteq {want.season}
  BY <1>5, <1>6, <1>13 DEF SeasonsOfRows
<1> HIDE DEF e
<1>16. IsSound(e)
  BY <1>5, <1>6, <1>9, <1>10, <1>11, <1>13, <1>15 DEF IsSound, IsOfOneSeason, Migrations
<1>17. FileKept(p)
  BY <1>3, <1>13, <1>14, <1>16 DEF FileKept, Evolves
<1> QED BY <1>1, <1>17, EndKeeps DEF Ended

LEMMA AdviseKeeps ==
    ASSUME IInv, NEW p \in Procs, Advise(p)
    PROVE  IInv'
<1> DEFINE want == config[p]
           e == [db EXCEPT !.identity = want, !.advised = @ \cup {p}]
<1>1. pc[p] = "session" /\ view[p] = db /\ Ends(p, "done") /\ Commits(p, e)
  BY DEF Advise
<1>2. Knows(p) /\ db \in Databases /\ IsSound(db)
  BY <1>1 DEF IInv, TypeOK, ProcInv
<1>3. SeasonsOfRows(db) \subseteq {want.season} /\ want \in Identities /\ want # NoIdentity
  BY <1>1, <1>2, AdmittedRows DEF Knows
<1> HIDE DEF want
<1>4. /\ e.identity = want /\ e.latest = db.latest /\ e.polls = db.polls /\ e.fixture = db.fixture
      /\ e.migrated = db.migrated /\ e.advised = db.advised \cup {p}
      /\ e.leagues = db.leagues /\ e.seasons = db.seasons
  BY <1>2 DEF Databases
<1>5. p \in Advisers
  BY DEF Advisers
<1>6. e \in Databases
  BY <1>2, <1>3, <1>5 DEF Databases
<1> HIDE DEF e
<1>7. IsSound(e)
  BY <1>2, <1>3, <1>4 DEF IsSound, IsOfOneSeason, SeasonsOfRows
<1>8. FileKept(p)
  BY <1>1, <1>4, <1>6, <1>7 DEF FileKept, Evolves
<1> QED BY <1>1, <1>8, EndKeeps DEF Ended

LEMMA DiesKeeps ==
    ASSUME IInv, NEW p \in Procs, Dies(p)
    PROVE  IInv'
BY EndKeeps DEF Dies, FileKept, Ended

-----------------------------------------------------------------------------
LEMMA InitiallySound == Init => IInv
<1> SUFFICES ASSUME Init PROVE IInv
  OBVIOUS
<1>1. db \in Databases /\ IsSound(db)
  BY FilesAssumption DEF Init
<1>2. TypeOK
  BY <1>1, NoFileIsOne DEF Init, TypeOK, Steps
<1>3. ASSUME NEW p \in Procs PROVE ProcInv(p)
  BY DEF Init, ProcInv, Behind, FindsIt, ToCome, Within
<1> QED BY <1>1, <1>2, <1>3 DEF IInv

LEMMA NextKeeps == IInv /\ [Next]_vars => IInv'
<1> SUFFICES ASSUME IInv, [Next]_vars PROVE IInv'
  OBVIOUS
<1>1. ASSUME NEW p \in Procs, Open(p) PROVE IInv'
  BY <1>1, ConnectKeeps, SchemaKeeps, ReadColumnsKeeps, AddColumnKeeps, ColumnsAddedKeeps,
     ReadShapeKeeps, CountAdviceKeeps, DropAdviceKeeps, ReadMigrationsKeeps,
     SkipMigrationKeeps, SavepointKeeps, ReleaseKeeps
     DEF Open
<1>2. ASSUME NEW p \in Procs, Session(p) \/ Dies(p) PROVE IInv'
  BY <1>2, IdentifyKeeps, LockedKeeps, IngestKeeps, AdviseKeeps, DiesKeeps DEF Session
<1>3. CASE UNCHANGED vars
  <2>1. TypeOK' /\ IsSound(db)'
    BY <1>3 DEF vars, IInv, TypeOK
  <2>2. ASSUME NEW p \in Procs PROVE ProcInv(p)'
    BY <1>3 DEF vars, IInv, ProcInv, Behind, FindsIt, ToCome, Knows
  <2> QED BY <2>1, <2>2 DEF IInv
<1> QED BY <1>1, <1>2, <1>3 DEF Next

\* The file is sound, its migrations are recorded in their order, whoever is not
\* disturbed finds it as it left it, and a session has read what it needs.
THEOREM Invariance == Spec => []IInv
BY InitiallySound, NextKeeps, PTL DEF Spec

\* Whoever gets to a session reads the roster's week as it was last observed, and
\* no played fixture without a state (lockin/store/db.py _complete_partial_polls,
\* _migrate_fixture_states; store/schema.sql weekly_matchups_latest).
THEOREM SessionsAreWhole == Spec => []SessionsReadWhole
<1>1. IInv => SessionsReadWhole
  <2> SUFFICES ASSUME IInv, NEW p \in Procs, pc[p] = "session"
               PROVE  LET d == view[p]
                      IN  /\ d.polls # <<>> => Latest(d) = d.polls[Len(d.polls)].lineup
                          /\ d.fixture.occurred = "yes" => d.fixture.state = "final"
    BY DEF SessionsReadWhole
  <2> DEFINE d == view[p]
  <2>1. d \in Databases /\ IsSound(d) /\ Migrations \subseteq d.migrated
    BY DEF IInv, TypeOK, ProcInv, Knows
  <2>2. /\ d.latest = "by poll" /\ AreWhole(d.polls) /\ d.polls \in Seq(Polls)
        /\ d.fixture.occurred = "yes" => d.fixture.state = "final"
    BY <2>1 DEF IsSound, Migrations, Databases
  <2>3. ASSUME d.polls # <<>> PROVE Latest(d) = d.polls[Len(d.polls)].lineup
    <3>1. d.polls \in Seq(Polls)
      BY <2>2
    <3>2. Len(d.polls) \in Nat \ {0}
      BY <2>3, <3>1, EmptySeq
    <3>3. DOMAIN d.polls = 1..Len(d.polls)
      BY <3>1, LenProperties
    <3> HIDE DEF d
    <3>4. Len(d.polls) \in DOMAIN d.polls /\ Len(d.polls) # 0
      BY <3>2, <3>3
    <3> QED BY <2>2, <3>4 DEF Latest, AreWhole
  <2> QED BY <2>2, <2>3
<1> QED BY <1>1, Invariance, PTL

\* A file with an identity holds rows of its season alone (lockin/store/identity.py
\* check, check_payload).
THEOREM FileIsOfOneSeason == Spec => []OneSeason
<1>1. IInv => OneSeason
  BY DEF IInv, IsSound, IsOfOneSeason, OneSeason
<1> QED BY <1>1, Invariance, PTL

\* An opening that fails was disturbed: no crash leaves a file that cannot be
\* opened (lockin/store/db.py apply_schema).
THEOREM OpensAlone == Spec => []AloneOpens
<1>1. IInv => AloneOpens
  BY DEF IInv, ProcInv, FindsIt, AloneOpens
<1> QED BY <1>1, Invariance, PTL

\* No step forgets what was advised before the upgrade (lockin/store/db.py
\* _rebuild_recommendations).
THEOREM AdviceIsKept == Spec => AdviceSurvives
<1>1. IInv /\ [Next]_vars => [db.advised \ Procs \subseteq db'.advised]_db
  <2> SUFFICES ASSUME IInv, Next, db' # db PROVE db.advised \ Procs \subseteq db'.advised
    BY DEF vars
  <2>1. PICK p \in Procs : Open(p) \/ Session(p) \/ Dies(p)
    BY DEF Next
  <2>2. CASE DropAdvice(p)
    BY <2>2 DEF DropAdvice, IInv, ProcInv
  <2>3. CASE ~DropAdvice(p)
    <3>1. \/ Connect(p) \/ RunSchema(p) \/ RecreateAdvice(p) \/ AddColumn(p)
          \/ \E name \in Migrations : Release(p, name)
          \/ Ingest(p) \/ Advise(p)
      BY <2>1, <2>3 DEF Open, Session, ReadColumns, ColumnsAdded, ReadShape, CountAdvice,
                        ReadMigrations, SkipMigration, Savepoint, Identify, Locked, Dies
    <3>2. db.advised \subseteq db'.advised
      <4>1. db \in Databases /\ IsSound(db)
        BY DEF IInv, TypeOK
      <4>2. CASE RunSchema(p) \/ RecreateAdvice(p)
        BY <4>1, <4>2, CreatedEvolves DEF RunSchema, RecreateAdvice, Commits
      <4>3. CASE \E name \in Migrations : Release(p, name)
        BY <4>1, <4>3, MigratedEvolves DEF Release, Commits
      <4>4. CASE Connect(p) \/ AddColumn(p)
        BY <4>1, <4>4 DEF Connect, AddColumn, Commits, Databases
      <4>5. CASE Ingest(p)
        BY <4>1, <4>5 DEF Ingest, Commits, Databases
      <4>6. CASE Advise(p)
        BY <4>1, <4>6 DEF Advise, Commits, Databases
      <4> QED BY <3>1, <4>2, <4>3, <4>4, <4>5, <4>6
    <3> QED BY <3>2
  <2> QED BY <2>2, <2>3
<1> QED BY <1>1, Invariance, PTL DEF Spec, AdviceSurvives
================================================================================
