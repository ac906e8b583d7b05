---------------------------- MODULE ArchiveProofs ----------------------------
(***************************************************************************)
(* Proofs about module Archive, for any lineups, values, processes and      *)
(* bounds: what votes is evidence of the final week when processes keep     *)
(* apart; when they take turns, no snapshot is overwritten, every reading   *)
(* is kept and a repair settles the week.                                   *)
(***************************************************************************)
EXTENDS Archive, FiniteSetTheorems, SequenceTheorems, TLAPS

Active == {"league", "mark", "week", "save", "write", "store", "apply"}
Watching == {"league", "mark", "week", "save", "write"}

JobFields == {"stamp", "name", "payload", "final", "fix", "after"}

\* The part of the type invariant the arguments need.
Shape ==
    /\ spacing \in Spacings
    /\ now \in Seconds
    /\ DOMAIN files \subseteq Names
    /\ marker \in [there : BOOLEAN, stamp : Seconds \cup {0}]
    /\ (marker.stamp # 0) => marker.there
    /\ scored \in BOOLEAN
    /\ pc \in [Procs -> Active \cup {"idle"}]
    /\ DOMAIN job = Procs
    /\ \A p \in Procs : DOMAIN job[p] = JobFields
    /\ \A p \in Procs : pc[p] \in Watching => p \in Watchers /\ job[p].stamp \in 1..now
    /\ \A p \in Procs : pc[p] = "write" => job[p].name \in Names

\* Processes that take turns are never two at a time.
Alone ==
    spacing \in {"in turn", "apart"} =>
        \A p, q \in Procs : pc[p] # "idle" /\ pc[q] # "idle" => p = q

\* The mark is only there once the week is scored, and is about to be set once.
MarkIsOfScored ==
    /\ marker.there => scored
    /\ \A p \in Procs : pc[p] = "mark" => scored

\* A process kept apart stamps later than every file it found.
StampsAfter ==
    spacing = "apart" =>
        \A p \in Procs : pc[p] \in Watching => \A f \in DOMAIN files : f[1] < job[p].stamp

\* With the mark there, a process kept apart has asked of the final week.
AskedOfFinal ==
    spacing = "apart" =>
        \A p \in Procs : marker.there /\ pc[p] \in {"save", "write"} => job[p].final

VotesAreFinal == FinalEvidence

\* The name a process has settled on is still free when it writes.
NameIsFree ==
    spacing \in {"in turn", "apart"} =>
        \A p \in Procs : pc[p] = "write" => job[p].name \notin DOMAIN files

IInv ==
    /\ Shape
    /\ Alone
    /\ MarkIsOfScored
    /\ StampsAfter
    /\ AskedOfFinal
    /\ VotesAreFinal
    /\ NameIsFree

-----------------------------------------------------------------------------
\* The fresh job of a process that is over, field by field.
LEMMA NoJobFields ==
    /\ DOMAIN NoJob = JobFields
    /\ NoJob.stamp = 0
BY DEF NoJob, JobFields

LEMMA InitInv == Init => IInv
<1> SUFFICES ASSUME Init PROVE IInv
    OBVIOUS
<1>1. DOMAIN files = {}
    BY DEF Init
<1>2. \A p \in Procs : pc[p] = "idle" /\ job[p] = NoJob
    <2>1. pc = [p \in Procs |-> "idle"] /\ job = [p \in Procs |-> NoJob]
        BY DEF Init
    <2> QED
        BY <2>1
<1>3. marker.stamp = 0 /\ marker.there = FALSE
    BY DEF Init, NoMarker
<1>4. Shape
    <2>1. now \in Seconds
        <3>1. now = 1
            BY DEF Init
        <3> QED
            BY <3>1, BoundsAssumption DEF Seconds
    <2>5. scored \in BOOLEAN /\ spacing \in Spacings
        BY DEF Init
    <2>2. marker \in [there : BOOLEAN, stamp : Seconds \cup {0}]
        <3>1. marker = [there |-> FALSE, stamp |-> 0]
            BY DEF Init, NoMarker
        <3> QED
            BY <3>1
    <2>3. pc \in [Procs -> Active \cup {"idle"}] /\ DOMAIN job = Procs
        BY DEF Init
    <2>4. \A p \in Procs : DOMAIN job[p] = JobFields
        BY <1>2, NoJobFields
    <2> QED
        BY <1>1, <1>2, <1>3, <2>1, <2>2, <2>3, <2>4, <2>5 DEF Shape, Watching
<1>5. VotesAreFinal
    BY <1>1 DEF VotesAreFinal, FinalEvidence, FinalFiles
<1>6. Alone /\ StampsAfter /\ AskedOfFinal /\ NameIsFree
    BY <1>1, <1>2 DEF Alone, StampsAfter, AskedOfFinal, NameIsFree, Watching
<1>7. MarkIsOfScored
    BY <1>2, <1>3 DEF MarkIsOfScored
<1> QED
    BY <1>4, <1>5, <1>6, <1>7 DEF IInv

\* What an action does to the process that takes it, and to the others.
Others(p) == \A q \in Procs \ {p} : pc'[q] = pc[q] /\ job'[q] = job[q]

LEMMA EndsShape ==
    ASSUME NEW p \in Procs, Shape, Ends(p)
    PROVE  /\ Others(p)
           /\ pc' \in [Procs -> Active \cup {"idle"}]
           /\ pc'[p] = "idle"
           /\ DOMAIN job' = Procs
           /\ \A q \in Procs : DOMAIN job'[q] = JobFields
BY NoJobFields DEF Ends, Shape, Others

LEMMA MovesShape ==
    ASSUME NEW p \in Procs, Shape, NEW from, NEW to \in Active, Moves(p, from, to)
    PROVE  /\ pc[p] = from
           /\ pc' \in [Procs -> Active \cup {"idle"}]
           /\ pc'[p] = to
           /\ \A q \in Procs \ {p} : pc'[q] = pc[q]
BY DEF Moves, Shape

\* A file just written is there, and the others are as they were.
LEMMA WithFile ==
    ASSUME NEW name, NEW file, files' = With(name, file)
    PROVE  /\ DOMAIN files' = DOMAIN files \cup {name}
           /\ files'[name] = file
           /\ \A f \in DOMAIN files \ {name} : files'[f] = files[f]
BY DEF With

-----------------------------------------------------------------------------
\* The steps. A process that ends disturbs nothing, if the files stay as they are.
LEMMA EndsInv ==
    ASSUME NEW p \in Procs, IInv, Ends(p), UNCHANGED <<spacing, now, scored, files, marker>>
    PROVE  IInv'
<1>1. Others(p) /\ pc' \in [Procs -> Active \cup {"idle"}] /\ pc'[p] = "idle"
      /\ DOMAIN job' = Procs /\ \A q \in Procs : DOMAIN job'[q] = JobFields
    BY EndsShape DEF IInv
<1>2. Shape'
    BY <1>1 DEF IInv, Shape, Others, Watching, Seconds, Names
<1>3. Alone'
    BY <1>1 DEF IInv, Alone, Others
<1>4. MarkIsOfScored'
    BY <1>1 DEF IInv, MarkIsOfScored, Others
<1>5. StampsAfter'
    BY <1>1 DEF IInv, StampsAfter, Others, Watching
<1>6. AskedOfFinal'
    BY <1>1 DEF IInv, AskedOfFinal, Others
<1>7. VotesAreFinal'
    BY DEF IInv, VotesAreFinal, FinalEvidence, FinalFiles
<1>8. NameIsFree'
    BY <1>1 DEF IInv, NameIsFree, Others
<1> QED
    BY <1>2, <1>3, <1>4, <1>5, <1>6, <1>7, <1>8 DEF IInv

LEMMA WorldInv ==
    ASSUME IInv, Tick \/ Serve \/ Score
    PROVE  IInv'
<1>1. UNCHANGED <<spacing, files, marker, pc, job>>
    BY DEF Tick, Serve, Score
<1>2. now' \in Seconds /\ now \in 1..now'
    BY BoundsAssumption DEF IInv, Shape, Seconds, Tick, Serve, Score
<1>3. scored' \in BOOLEAN /\ (scored => scored')
    BY DEF IInv, Shape, Tick, Serve, Score
<1>4. Shape'
    <2>1. \A n \in 1..now : n \in 1..now'
        BY <1>2 DEF IInv, Shape, Seconds
    <2> QED
        BY <1>1, <1>2, <1>3, <2>1 DEF IInv, Shape, Watching, Seconds, Names
<1>5. MarkIsOfScored'
    BY <1>1, <1>3 DEF IInv, MarkIsOfScored
<1>6. VotesAreFinal'
    BY <1>1 DEF IInv, VotesAreFinal, FinalEvidence, FinalFiles
<1>7. Alone' /\ StampsAfter' /\ AskedOfFinal' /\ NameIsFree'
    BY <1>1 DEF IInv, Alone, StampsAfter, AskedOfFinal, NameIsFree
<1> QED
    BY <1>4, <1>5, <1>6, <1>7 DEF IInv

\* A process that begins is alone, if it must be, and stamps after every file.
LEMMA BeginInv ==
    ASSUME NEW w \in Watchers, IInv, Begin(w)
    PROVE  IInv'
<1>1. w \in Procs /\ UNCHANGED <<spacing, now, scored, files, marker>> /\ MayBegin
    BY DEF Begin, Procs
<1>2. /\ pc[w] = "idle" /\ pc' \in [Procs -> Active \cup {"idle"}] /\ pc'[w] = "league"
      /\ \A q \in Procs \ {w} : pc'[q] = pc[q]
    BY <1>1, MovesShape DEF Begin, IInv, Active
<1>3. job' = [job EXCEPT ![w].stamp = now]
    BY DEF Begin
<1>4. job'[w].stamp = now /\ DOMAIN job'[w] = JobFields /\ DOMAIN job' = Procs
      /\ \A q \in Procs \ {w} : job'[q] = job[q]
    BY <1>1, <1>3 DEF IInv, Shape, JobFields
<1>5. Shape'
    <2>1. now \in 1..now
        BY BoundsAssumption DEF IInv, Shape, Seconds
    <2> QED
        BY <1>1, <1>2, <1>4, <2>1 DEF IInv, Shape, Watching, Seconds, Names
<1>6. Alone'
    BY <1>1, <1>2 DEF Alone, MayBegin
<1>7. MarkIsOfScored'
    BY <1>1, <1>2 DEF IInv, MarkIsOfScored
<1>8. StampsAfter'
    BY <1>1, <1>2, <1>4 DEF IInv, StampsAfter, MayBegin, Watching
<1>9. AskedOfFinal' /\ NameIsFree'
    BY <1>1, <1>2, <1>4 DEF IInv, AskedOfFinal, NameIsFree
<1>10. VotesAreFinal'
    BY <1>1 DEF IInv, VotesAreFinal, FinalEvidence, FinalFiles
<1> QED
    BY <1>5, <1>6, <1>7, <1>8, <1>9, <1>10 DEF IInv

LEMMA LeagueInv ==
    ASSUME NEW w \in Watchers, IInv, League(w)
    PROVE  IInv'
<1>1. w \in Procs /\ UNCHANGED <<spacing, now, scored, files, marker>>
    BY DEF League, Procs
<1>2. /\ pc[w] = "league" /\ pc' \in [Procs -> Active \cup {"idle"}]
      /\ pc'[w] \in {"mark", "week"}
      /\ pc'[w] = "mark" => scored
      /\ \A q \in Procs \ {w} : pc'[q] = pc[q]
    <2>1. CASE Marks /\ Moves(w, "league", "mark")
        BY <1>1, <2>1, MovesShape DEF IInv, Active, Marks
    <2>2. CASE ~ Marks /\ Moves(w, "league", "week")
        BY <1>1, <2>2, MovesShape DEF IInv, Active
    <2> QED
        BY <2>1, <2>2 DEF League
<1>3. job' = [job EXCEPT ![w].stamp = StampOf(w)]
    BY DEF League
<1>4. job'[w].stamp = StampOf(w) /\ DOMAIN job'[w] = JobFields /\ DOMAIN job' = Procs
      /\ \A q \in Procs \ {w} : job'[q] = job[q]
    BY <1>1, <1>3 DEF IInv, Shape, JobFields
<1>5. StampOf(w) \in 1..now /\ job[w].stamp \in 1..now /\ job[w].stamp <= StampOf(w)
    BY <1>1, <1>2, BoundsAssumption DEF IInv, Shape, Watching, StampOf, Seconds
<1>6. Shape'
    BY <1>1, <1>2, <1>4, <1>5 DEF IInv, Shape, Watching, Active, Seconds, Names
<1>7. Alone'
    BY <1>1, <1>2 DEF IInv, Alone
<1>8. MarkIsOfScored'
    BY <1>1, <1>2 DEF IInv, MarkIsOfScored
<1>9. StampsAfter'
    <2>1. spacing = "apart" => \A f \in DOMAIN files : f[1] < StampOf(w)
        <3>1. \A f \in DOMAIN files : f[1] \in Int
            BY DEF IInv, Shape, Names, Seconds
        <3> QED
            BY <1>1, <1>2, <1>5, <3>1 DEF IInv, StampsAfter, Watching
    <2> QED
        BY <1>1, <1>2, <1>4, <2>1 DEF IInv, StampsAfter, Watching
<1>10. AskedOfFinal' /\ NameIsFree'
    BY <1>1, <1>2, <1>4 DEF IInv, AskedOfFinal, NameIsFree
<1>11. VotesAreFinal'
    BY <1>1 DEF IInv, VotesAreFinal, FinalEvidence, FinalFiles
<1> QED
    BY <1>6, <1>7, <1>8, <1>9, <1>10, <1>11 DEF IInv

\* The mark is later than every file, so nothing votes yet.
LEMMA MarkInv ==
    ASSUME NEW w \in Watchers, IInv, Mark(w)
    PROVE  IInv'
<1>1. w \in Procs /\ UNCHANGED <<spacing, now, scored, files, job>>
    BY DEF Mark, Procs
<1>2. /\ pc[w] = "mark" /\ pc' \in [Procs -> Active \cup {"idle"}] /\ pc'[w] = "week"
      /\ \A q \in Procs \ {w} : pc'[q] = pc[q]
    BY <1>1, MovesShape DEF Mark, IInv, Active
<1>3. job[w].stamp \in Seconds /\ job[w].stamp # 0
    BY <1>1, <1>2, BoundsAssumption DEF IInv, Shape, Watching, Seconds
<1>4. marker'.there = TRUE /\ marker'.stamp = job[w].stamp
      /\ marker' \in [there : BOOLEAN, stamp : Seconds \cup {0}]
    BY <1>3 DEF Mark
<1>5. Shape'
    BY <1>1, <1>2, <1>3, <1>4 DEF IInv, Shape, Watching, Seconds, Names
<1>6. Alone'
    BY <1>1, <1>2 DEF IInv, Alone
<1>7. MarkIsOfScored'
    BY <1>1, <1>2 DEF IInv, MarkIsOfScored
<1>8. StampsAfter'
    BY <1>1, <1>2 DEF IInv, StampsAfter, Watching
<1>9. AskedOfFinal'
    BY <1>1, <1>2 DEF IInv, AskedOfFinal, Alone
<1>10. VotesAreFinal'
    <2> SUFFICES ASSUME spacing = "apart", NEW f \in FinalFiles' PROVE FALSE
        BY <1>1 DEF VotesAreFinal, FinalEvidence
    <2>1. f \in DOMAIN files /\ f[1] >= job[w].stamp
        BY <1>1, <1>4 DEF FinalFiles
    <2>2. f[1] < job[w].stamp
        BY <1>1, <1>2, <2>1 DEF IInv, StampsAfter, Watching
    <2> QED
        BY <1>3, <2>1, <2>2 DEF IInv, Shape, Names, Seconds
<1>11. NameIsFree'
    BY <1>1, <1>2 DEF IInv, NameIsFree
<1> QED
    BY <1>5, <1>6, <1>7, <1>8, <1>9, <1>10, <1>11 DEF IInv

\* What is asked for with the mark there is asked of the final week.
LEMMA MatchupsInv ==
    ASSUME NEW w \in Watchers, IInv, Matchups(w)
    PROVE  IInv'
<1>1. w \in Procs /\ UNCHANGED <<spacing, now, scored, files, marker>>
    BY DEF Matchups, Procs
<1>2. /\ pc[w] = "week" /\ pc' \in [Procs -> Active \cup {"idle"}] /\ pc'[w] = "save"
      /\ \A q \in Procs \ {w} : pc'[q] = pc[q]
    BY <1>1, MovesShape DEF Matchups, IInv, Active
<1>3. job' = [job EXCEPT ![w].payload = upstream, ![w].final = scored]
    BY DEF Matchups
<1>4. /\ job'[w].stamp = job[w].stamp /\ job'[w].final = scored
      /\ DOMAIN job'[w] = JobFields /\ DOMAIN job' = Procs
      /\ \A q \in Procs \ {w} : job'[q] = job[q]
    BY <1>1, <1>3 DEF IInv, Shape, JobFields
<1>5. Shape'
    BY <1>1, <1>2, <1>4 DEF IInv, Shape, Watching, Seconds, Names
<1>6. Alone'
    BY <1>1, <1>2 DEF IInv, Alone
<1>7. MarkIsOfScored'
    BY <1>1, <1>2 DEF IInv, MarkIsOfScored
<1>8. StampsAfter'
    BY <1>1, <1>2, <1>4 DEF IInv, StampsAfter, Watching
<1>9. AskedOfFinal'
    BY <1>1, <1>2, <1>4 DEF IInv, AskedOfFinal, MarkIsOfScored
<1>10. VotesAreFinal'
    BY <1>1 DEF IInv, VotesAreFinal, FinalEvidence, FinalFiles
<1>11. NameIsFree'
    BY <1>1, <1>2, <1>4 DEF IInv, NameIsFree
<1> QED
    BY <1>5, <1>6, <1>7, <1>8, <1>9, <1>10, <1>11 DEF IInv

LEMMA NameInv ==
    ASSUME NEW w \in Watchers, IInv, Name(w)
    PROVE  IInv'
<1>1. w \in Procs /\ UNCHANGED <<spacing, now, scored, files, marker>>
    BY DEF Name, Procs
<1>2. /\ pc[w] = "save" /\ pc' \in [Procs -> Active \cup {"idle"}] /\ pc'[w] = "write"
      /\ \A q \in Procs \ {w} : pc'[q] = pc[q]
    BY <1>1, MovesShape DEF Name, IInv, Active
<1>3. PICK name \in Names : name \notin DOMAIN files /\ job' = [job EXCEPT ![w].name = name]
    BY DEF Name, IsFreeName
<1>4. /\ job'[w].stamp = job[w].stamp /\ job'[w].final = job[w].final /\ job'[w].name = name
      /\ DOMAIN job'[w] = JobFields /\ DOMAIN job' = Procs
      /\ \A q \in Procs \ {w} : job'[q] = job[q]
    BY <1>1, <1>3 DEF IInv, Shape, JobFields
<1>5. Shape'
    BY <1>1, <1>2, <1>3, <1>4 DEF IInv, Shape, Watching, Seconds, Names
<1>6. Alone'
    BY <1>1, <1>2 DEF IInv, Alone
<1>7. MarkIsOfScored'
    BY <1>1, <1>2 DEF IInv, MarkIsOfScored
<1>8. StampsAfter'
    BY <1>1, <1>2, <1>4 DEF IInv, StampsAfter, Watching
<1>9. AskedOfFinal'
    BY <1>1, <1>2, <1>4 DEF IInv, AskedOfFinal
<1>10. VotesAreFinal'
    BY <1>1 DEF IInv, VotesAreFinal, FinalEvidence, FinalFiles
<1>11. NameIsFree'
    BY <1>1, <1>2, <1>3, <1>4 DEF IInv, NameIsFree
<1> QED
    BY <1>5, <1>6, <1>7, <1>8, <1>9, <1>10, <1>11 DEF IInv

\* An ingest goes on to store its poll.
LEMMA ToStoreInv ==
    ASSUME NEW w \in Watchers, IInv, UNCHANGED <<spacing, now, scored, files, marker, job>>,
           pc[w] # "idle", pc' = [pc EXCEPT ![w] = "store"]
    PROVE  IInv'
<1>1. w \in Procs
    BY DEF Procs
<1>2. /\ pc' \in [Procs -> Active \cup {"idle"}] /\ pc'[w] = "store"
      /\ \A q \in Procs \ {w} : pc'[q] = pc[q]
    BY <1>1 DEF IInv, Shape, Active
<1>3. Shape'
    BY <1>1, <1>2 DEF IInv, Shape, Watching, Seconds, Names
<1>4. Alone'
    BY <1>1, <1>2 DEF IInv, Alone
<1>5. MarkIsOfScored' /\ StampsAfter' /\ AskedOfFinal' /\ NameIsFree'
    BY <1>1, <1>2 DEF IInv, MarkIsOfScored, StampsAfter, Watching, AskedOfFinal, NameIsFree
<1>6. VotesAreFinal'
    BY DEF IInv, VotesAreFinal, FinalEvidence, FinalFiles
<1> QED
    BY <1>3, <1>4, <1>5, <1>6 DEF IInv

LEMMA SkipInv ==
    ASSUME NEW w \in Watchers, IInv, Skip(w)
    PROVE  IInv'
<1>1. w \in Procs /\ UNCHANGED <<spacing, now, scored, files, marker>> /\ pc[w] # "idle"
    BY DEF Skip, Procs
<1>2. CASE w \in Observers
    BY <1>1, <1>2, EndsInv DEF Skip, Saved
<1>3. CASE w \notin Observers
    BY <1>1, <1>3, ToStoreInv DEF Skip, Saved
<1> QED
    BY <1>2, <1>3

LEMMA PlanInv ==
    ASSUME NEW r \in Repairs, IInv, Plan(r)
    PROVE  IInv'
<1>1. r \in Procs /\ r \notin Watchers /\ MayBegin /\ UNCHANGED <<spacing, now, scored, files, marker>>
    BY ProcsAssumption DEF Plan, Procs
<1>2. /\ pc[r] = "idle" /\ pc' \in [Procs -> Active \cup {"idle"}] /\ pc'[r] = "apply"
      /\ \A q \in Procs \ {r} : pc'[q] = pc[q]
    BY <1>1, MovesShape DEF Plan, IInv, Active
<1>3. PICK fix, after : job' = [job EXCEPT ![r].fix = fix, ![r].after = after]
    BY DEF Plan
<1>4. /\ DOMAIN job'[r] = JobFields /\ DOMAIN job' = Procs
      /\ \A q \in Procs \ {r} : job'[q] = job[q]
    BY <1>1, <1>3 DEF IInv, Shape, JobFields
<1>5. Shape'
    BY <1>1, <1>2, <1>4 DEF IInv, Shape, Watching, Seconds, Names
<1>6. Alone'
    BY <1>1, <1>2 DEF Alone, MayBegin
<1>7. MarkIsOfScored' /\ StampsAfter' /\ AskedOfFinal' /\ NameIsFree'
    BY <1>1, <1>2, <1>4 DEF IInv, MarkIsOfScored, StampsAfter, Watching, AskedOfFinal, NameIsFree
<1>8. VotesAreFinal'
    BY <1>1 DEF IInv, VotesAreFinal, FinalEvidence, FinalFiles
<1> QED
    BY <1>5, <1>6, <1>7, <1>8 DEF IInv

\* The process that writes a file is over with the archive, and was alone with it.
LEMMA FileInv ==
    ASSUME NEW w \in Watchers, IInv, pc[w] = "write", NEW file,
           file.final = job[w].final, files' = With(job[w].name, file),
           UNCHANGED <<spacing, now, scored, marker>>,
           Others(w), pc' \in [Procs -> Active \cup {"idle"}], pc'[w] \in {"idle", "store"},
           DOMAIN job' = Procs, \A q \in Procs : DOMAIN job'[q] = JobFields
    PROVE  IInv'
<1>1. w \in Procs
    BY DEF Procs
<1>2. /\ DOMAIN files' = DOMAIN files \cup {job[w].name}
      /\ files'[job[w].name] = file
      /\ \A f \in DOMAIN files \ {job[w].name} : files'[f] = files[f]
    BY WithFile
<1>3. Shape'
    BY <1>1, <1>2 DEF IInv, Shape, Others, Watching, Seconds, Names
<1>4. Alone'
    BY <1>1 DEF IInv, Alone, Others
<1>5. MarkIsOfScored'
    BY <1>1 DEF IInv, MarkIsOfScored, Others
<1>6. ASSUME spacing \in {"in turn", "apart"}
      PROVE  \A q \in Procs : pc'[q] \in {"idle", "store"}
    BY <1>1, <1>6 DEF IInv, Alone, Others
<1>7. StampsAfter' /\ AskedOfFinal' /\ NameIsFree'
    BY <1>6 DEF StampsAfter, AskedOfFinal, NameIsFree, Watching
<1>8. VotesAreFinal'
    <2> SUFFICES ASSUME spacing = "apart", NEW f \in FinalFiles' PROVE files'[f].final
        BY DEF VotesAreFinal, FinalEvidence
    <2>1. f \in DOMAIN files' /\ marker.stamp # 0 /\ f[1] >= marker.stamp
        BY DEF FinalFiles
    <2>2. CASE f = job[w].name
        <3>1. marker.there
            BY <2>1 DEF IInv, Shape
        <3>2. job[w].final
            BY <1>1, <3>1 DEF IInv, AskedOfFinal
        <3> QED
            BY <1>2, <2>2, <3>2
    <2>3. CASE f # job[w].name
        <3>1. f \in FinalFiles /\ files'[f] = files[f]
            BY <1>2, <2>1, <2>3 DEF FinalFiles
        <3> QED
            BY <3>1 DEF IInv, VotesAreFinal, FinalEvidence
    <2> QED
        BY <2>2, <2>3
<1> QED
    BY <1>3, <1>4, <1>5, <1>7, <1>8 DEF IInv

LEMMA WriteInv ==
    ASSUME NEW w \in Watchers, IInv, Write(w)
    PROVE  IInv'
<1>1. w \in Procs /\ pc[w] = "write" /\ UNCHANGED <<spacing, now, scored, marker>>
    BY DEF Write, Procs
<1>2. Others(w) /\ pc' \in [Procs -> Active \cup {"idle"}] /\ pc'[w] \in {"idle", "store"}
      /\ DOMAIN job' = Procs /\ \A q \in Procs : DOMAIN job'[q] = JobFields
    <2>1. CASE w \in Observers
        BY <1>1, <2>1, EndsShape DEF Write, Saved, IInv
    <2>2. CASE w \notin Observers
        BY <1>1, <2>2 DEF Write, Saved, IInv, Shape, Others, Active
    <2> QED
        BY <2>1, <2>2
<1>3. /\ files' = With(job[w].name, Snapshot(job[w].payload, job[w].final))
      /\ Snapshot(job[w].payload, job[w].final).final = job[w].final
    BY DEF Write, Snapshot
<1> QED
    BY <1>1, <1>2, <1>3, FileInv

LEMMA TearInv ==
    ASSUME NEW w \in Watchers, IInv, Tear(w)
    PROVE  IInv'
<1>1. w \in Procs /\ Ends(w) /\ UNCHANGED <<spacing, now, scored>>
    BY DEF Tear, Procs
<1>2. Others(w) /\ pc' \in [Procs -> Active \cup {"idle"}] /\ pc'[w] = "idle"
      /\ DOMAIN job' = Procs /\ \A q \in Procs : DOMAIN job'[q] = JobFields
    BY <1>1, EndsShape DEF IInv
\* The mark is there and says nothing: the week stays open to repair.
<1>3. ASSUME pc[w] = "mark", marker' = [there |-> TRUE, stamp |-> 0], files' = files
      PROVE  IInv'
    <2>1. marker' \in [there : BOOLEAN, stamp : Seconds \cup {0}] /\ marker'.stamp = 0
        BY <1>3
    <2>2. Shape'
        BY <1>1, <1>2, <1>3, <2>1 DEF IInv, Shape, Others, Watching, Seconds, Names
    <2>3. Alone'
        BY <1>1, <1>2 DEF IInv, Alone, Others
    <2>4. MarkIsOfScored'
        BY <1>1, <1>2, <1>3 DEF IInv, MarkIsOfScored, Others
    <2>5. StampsAfter'
        BY <1>1, <1>2, <1>3 DEF IInv, StampsAfter, Others, Watching
    <2>6. AskedOfFinal'
        BY <1>1, <1>2, <1>3 DEF IInv, AskedOfFinal, Alone, Others
    <2>7. VotesAreFinal'
        BY <2>1 DEF VotesAreFinal, FinalEvidence, FinalFiles
    <2>8. NameIsFree'
        BY <1>1, <1>2, <1>3 DEF IInv, NameIsFree, Others
    <2> QED
        BY <2>2, <2>3, <2>4, <2>5, <2>6, <2>7, <2>8 DEF IInv
<1>4. ASSUME pc[w] = "write", marker' = marker,
             files' = With(job[w].name, TornFile(job[w].payload, job[w].final))
      PROVE  IInv'
    <2>1. TornFile(job[w].payload, job[w].final).final = job[w].final
        BY DEF TornFile
    <2> QED
        BY <1>1, <1>2, <1>4, <2>1, FileInv
<1> QED
    BY <1>3, <1>4 DEF Tear

LEMMA OtherEndsInv ==
    ASSUME IInv
    PROVE  /\ \A i \in Ingests : Store(i) => IInv'
           /\ \A r \in Repairs : Apply(r) => IInv'
           /\ \A p \in Procs : Die(p) => IInv'
<1>1. ASSUME NEW i \in Ingests, Store(i) PROVE IInv'
    BY <1>1, EndsInv DEF Store, Procs, Watchers
<1>2. ASSUME NEW r \in Repairs, Apply(r) PROVE IInv'
    BY <1>2, EndsInv DEF Apply, Procs
<1>3. ASSUME NEW p \in Procs, Die(p) PROVE IInv'
    BY <1>3, EndsInv DEF Die
<1> QED
    BY <1>1, <1>2, <1>3

LEMMA NextInv == IInv /\ [Next]_vars => IInv'
<1> SUFFICES ASSUME IInv, [Next]_vars PROVE IInv'
    OBVIOUS
<1>1. CASE UNCHANGED vars
    BY <1>1 DEF vars, IInv, Shape, Alone, MarkIsOfScored, StampsAfter, AskedOfFinal,
        VotesAreFinal, FinalEvidence, FinalFiles, NameIsFree
<1>2. CASE Tick \/ Serve \/ Score
    BY <1>2, WorldInv
<1>3. ASSUME NEW w \in Watchers,
             \/ Begin(w) \/ League(w) \/ Mark(w) \/ Matchups(w)
             \/ Skip(w) \/ Name(w) \/ Write(w) \/ Tear(w)
      PROVE  IInv'
    BY <1>3, BeginInv, LeagueInv, MarkInv, MatchupsInv, SkipInv, NameInv, WriteInv, TearInv
<1>4. ASSUME NEW r \in Repairs, Plan(r) PROVE IInv'
    BY <1>4, PlanInv
<1> QED
    BY <1>1, <1>2, <1>3, <1>4, OtherEndsInv DEF Next

-----------------------------------------------------------------------------
\* The strengthening holds of every behaviour.
THEOREM Invariance == Spec => []IInv
<1>1. Init => IInv
    BY InitInv
<1>2. IInv /\ [Next]_vars => IInv'
    BY NextInv
<1> QED
    BY <1>1, <1>2, PTL DEF Spec

\* Whatever the lineups, the values and the number of observers and ingests, when
\* each runs alone and starts in a later second than the last file, the vote of
\* lockin repair counts no reading of a week still being played.
THEOREM OnlyFinalReadingsVote == Spec => []FinalEvidence
<1>1. IInv => FinalEvidence
    BY DEF IInv, VotesAreFinal
<1> QED
    BY <1>1, Invariance, PTL

\* When processes take turns, even within one second, snapshots.save never changes
\* a snapshot that is there: the copies' names keep them apart.
THEOREM SnapshotsStay == Spec => NeverOverwritten
<1>1. IInv /\ [Next]_vars => [spacing # "together" => SnapshotsKept]_vars
    <2> SUFFICES ASSUME IInv, Next, spacing # "together" PROVE SnapshotsKept
        OBVIOUS
    <2> spacing \in {"in turn", "apart"}
        BY SpacingsAssumption DEF IInv, Shape
    <2>1. CASE files' = files
        BY <2>1 DEF SnapshotsKept
    <2>2. ASSUME NEW w \in Watchers, Write(w) \/ Tear(w), files' # files PROVE SnapshotsKept
        <3>1. w \in Procs /\ pc[w] = "write" /\ \E file : files' = With(job[w].name, file)
            BY <2>2 DEF Write, Tear, Procs
        <3>2. job[w].name \notin DOMAIN files
            BY <3>1 DEF IInv, NameIsFree
        <3> QED
            BY <3>1, <3>2, WithFile DEF SnapshotsKept
    <2> QED
        BY <2>1, <2>2 DEF Next, Tick, Serve, Score, Begin, League, Mark, Matchups, Skip, Name,
            Store, Plan, Apply, Die
<1> QED
    BY <1>1, Invariance, PTL DEF Spec, NeverOverwritten

-----------------------------------------------------------------------------
\* In turns: every reading is kept, and a repair settles.

InTurn == spacing \in {"in turn", "apart"}

\* A name later than every file's, with no copy left out below it.
Follows(name) ==
    /\ \A f \in DOMAIN files : Precedes(f, name)
    /\ \A n \in 1..(name[2] - 1) : <<name[1], n>> \in DOMAIN files

\* Files are not of the future, and their copies are numbered without a gap.
FilesPast == \A f \in DOMAIN files : f[1] <= now
NoGaps ==
    InTurn => \A f \in DOMAIN files : \A n \in 1..(f[2] - 1) : <<f[1], n>> \in DOMAIN files

\* What a process has in hand agrees with the archive it will add to, or judge by.
InHand(p) ==
    /\ pc[p] \in Watching => \A f \in DOMAIN files : f[1] <= job[p].stamp
    /\ pc[p] = "mark" => ~ marker.there
    /\ pc[p] = "write" => Follows(job[p].name)
    /\ pc[p] = "apply" => Fixes # {} /\ job[p].fix = [q \in Fixes |-> Verdict[q]]

\* While there are no more files than a repair has seen, nothing is left to repair.
Settled ==
    InTurn /\ polls # <<>> /\ Last(polls).fixed # {} =>
        /\ marker.there
        /\ Last(polls).files \in Nat
        /\ Last(polls).files <= Cardinality(DOMAIN files)
        /\ Last(polls).files = Cardinality(DOMAIN files) => Fixes = {}

ArePolls == \E S : polls \in Seq(S)

Turns ==
    /\ ArePolls
    /\ FilesPast
    /\ NoGaps
    /\ \A p \in Procs : pc[p] = "write" => job[p].name[1] <= now
    /\ InTurn => \A p \in Procs : InHand(p)
    /\ Settled

LEMMA FilesFinite ==
    ASSUME Shape
    PROVE  IsFiniteSet(DOMAIN files) /\ Cardinality(DOMAIN files) \in Nat
<1>1. IsFiniteSet(Seconds) /\ IsFiniteSet(1..MaxCopies)
    BY FS_Interval, BoundsAssumption DEF Seconds
<1>2. IsFiniteSet(Names)
    BY <1>1, FS_Product DEF Names
<1>3. DOMAIN files \in SUBSET Names
    BY DEF Shape
<1> QED
    BY <1>2, <1>3, FS_Subset, FS_CardinalityType

\* A poll added to polls is the last of them.
LEMMA AppendedPoll ==
    ASSUME ArePolls, NEW poll, polls' = Append(polls, poll)
    PROVE  ArePolls' /\ polls' # <<>> /\ Last(polls') = poll
<1>1. PICK S : polls \in Seq(S)
    BY DEF ArePolls
<1> DEFINE T == S \cup {poll}
<1>2. polls \in Seq(T) /\ poll \in T
    BY <1>1
<1> HIDE DEF T
<1>3. /\ Append(polls, poll) \in Seq(T)
      /\ Append(polls, poll) # <<>>
      /\ Len(Append(polls, poll)) = Len(polls) + 1
      /\ Append(polls, poll)[Len(polls) + 1] = poll
    BY <1>2, AppendProperties
<1> QED
    BY <1>3 DEF ArePolls, Last

\* What the archive says is of its files and its mark alone.
LEMMA SameVote ==
    ASSUME UNCHANGED <<files, marker>>
    PROVE  Slots' = Slots /\ Verdict' = Verdict
<1>1. FinalFiles' = FinalFiles
    BY DEF FinalFiles
<1>2. Slots' = Slots
    BY <1>1 DEF Slots
<1>3. \A p, v : Showing(p, v)' = Showing(p, v)
    BY <1>1 DEF Showing
<1>4. \A p, v : Leads(p, v)' <=> Leads(p, v)
    BY <1>3 DEF Leads
<1>5. \A p, v : IsVerdict(p, v)' <=> IsVerdict(p, v)
    BY <1>3, <1>4 DEF IsVerdict
<1>6. \A p : (CHOOSE v \in Values : IsVerdict(p, v)') = (CHOOSE v \in Values : IsVerdict(p, v))
    BY <1>5, Zenon
<1>7. Verdict' = Verdict
    BY <1>2, <1>6 DEF Verdict
<1> QED
    BY <1>2, <1>7

LEMMA SameFixes ==
    ASSUME UNCHANGED <<files, marker, polls>>
    PROVE  Fixes' = Fixes /\ Slots' = Slots /\ Verdict' = Verdict
BY SameVote DEF Fixes

LEMMA InitTurns == Init => Turns
<1> SUFFICES ASSUME Init PROVE Turns
    OBVIOUS
<1>1. DOMAIN files = {} /\ polls = <<>>
    BY DEF Init
<1>2. \A p \in Procs : pc[p] = "idle"
    BY DEF Init
<1>3. ArePolls
    BY <1>1 DEF ArePolls
<1> QED
    BY <1>1, <1>2, <1>3 DEF Turns, FilesPast, NoGaps, InHand, Settled, Watching

\* A step that changes neither files, mark nor polls: what matters is what the
\* process that takes it has in hand after.
LEMMA QuietTurns ==
    ASSUME Turns, UNCHANGED <<spacing, files, marker, polls>>,
           now \in Nat, now' \in Nat, now <= now',
           Shape, Shape',
           \A p \in Procs :
               \/ pc'[p] = pc[p] /\ job'[p] = job[p]
               \/ /\ pc'[p] = "write" => job'[p].name[1] <= now'
                  /\ InTurn => InHand(p)'
    PROVE  Turns'
<1>1. ArePolls' /\ NoGaps'
    BY DEF Turns, ArePolls, NoGaps, InTurn
<1>2. FilesPast'
    BY DEF Turns, FilesPast, Shape, Names, Seconds
<1>3. ASSUME NEW p \in Procs, pc'[p] = "write" PROVE job'[p].name[1] <= now'
    BY <1>3 DEF Turns, Shape, Names, Seconds
<1>4. ASSUME InTurn', NEW p \in Procs PROVE InHand(p)'
    <2>1. CASE pc'[p] = pc[p] /\ job'[p] = job[p]
        BY <1>4, <2>1, SameFixes DEF Turns, InTurn, InHand, Follows
    <2> QED
        BY <1>4, <2>1 DEF InTurn
<1>5. Settled'
    BY SameFixes DEF Turns, Settled, InTurn
<1> QED
    BY <1>1, <1>2, <1>3, <1>4, <1>5 DEF Turns

\* A process that ends or goes on to store its poll has nothing in hand.
LEMMA DoneTurns ==
    ASSUME NEW w \in Procs, Others(w), IInv, IInv', Turns,
           pc'[w] \in {"idle", "store"}, UNCHANGED <<spacing, now, files, marker, polls>>
    PROVE  Turns'
<1>1. now \in Nat /\ Shape /\ Shape'
    BY DEF IInv, Shape, Seconds
<1>2. ASSUME NEW p \in Procs
      PROVE  \/ pc'[p] = pc[p] /\ job'[p] = job[p]
             \/ /\ pc'[p] = "write" => job'[p].name[1] <= now'
                /\ InTurn => InHand(p)'
    BY DEF Others, InHand, Watching
<1> QED
    BY <1>1, <1>2, QuietTurns

LEMMA WorldTurns ==
    ASSUME IInv, IInv', Turns, Tick \/ Serve \/ Score PROVE Turns'
<1>1. UNCHANGED <<spacing, files, marker, polls, pc, job>>
    BY DEF Tick, Serve, Score
<1>2. now \in Nat /\ now' \in Nat /\ now <= now' /\ Shape /\ Shape'
    BY DEF IInv, Shape, Seconds, Tick, Serve, Score
<1> QED
    BY <1>1, <1>2, QuietTurns

\* Begin, League to the week, and Matchups: the stamp in hand is no earlier than
\* the files found.
LEMMA StampTurns ==
    ASSUME NEW w \in Watchers, IInv, IInv', Turns, Begin(w) \/ League(w) \/ Matchups(w)
    PROVE  Turns'
<1>1. /\ w \in Procs /\ UNCHANGED <<spacing, now, files, marker, polls>>
      /\ now \in Nat /\ Shape /\ Shape'
    BY DEF Begin, League, Matchups, Procs, IInv, Shape, Seconds
<1>2. \A q \in Procs \ {w} : pc'[q] = pc[q] /\ job'[q] = job[q]
    BY <1>1 DEF Begin, League, Matchups, Moves, Shape
<1>3. pc'[w] \in {"league", "mark", "week", "save"}
    BY <1>1 DEF Begin, League, Matchups, Moves, Shape
<1>4. ASSUME InTurn, NEW f \in DOMAIN files PROVE f[1] <= job'[w].stamp
    <2>1. f[1] <= now /\ (pc[w] \in Watching => f[1] <= job[w].stamp)
        BY <1>1, <1>4 DEF Turns, FilesPast, InHand
    <2>2. \/ job'[w].stamp = now
          \/ job'[w].stamp = job[w].stamp /\ pc[w] \in Watching
        <3>1. w \in DOMAIN job /\ DOMAIN job[w] = JobFields
            BY <1>1 DEF Shape
        <3>2. CASE Begin(w)
            BY <3>1, <3>2 DEF Begin, JobFields
        <3>3. CASE League(w)
            BY <3>1, <3>3 DEF League, StampOf, Moves, JobFields, Watching
        <3>4. CASE Matchups(w)
            BY <3>1, <3>4 DEF Matchups, Moves, JobFields, Watching
        <3> QED
            BY <3>2, <3>3, <3>4
    <2> QED
        BY <2>1, <2>2
<1>5. pc'[w] = "mark" => ~ marker.there
    BY <1>1 DEF Begin, League, Matchups, Moves, Marks, Shape
<1>6. InTurn => InHand(w)'
    BY <1>1, <1>3, <1>4, <1>5 DEF InHand
<1> QED
    BY <1>1, <1>2, <1>3, <1>6, QuietTurns

LEMMA NameTurns ==
    ASSUME NEW w \in Watchers, IInv, IInv', Turns, Name(w)
    PROVE  Turns'
<1>1. /\ w \in Procs /\ UNCHANGED <<spacing, now, files, marker, polls>>
      /\ now \in Nat /\ Shape /\ Shape' /\ pc[w] = "save" /\ pc'[w] = "write"
    BY DEF Name, Moves, Procs, IInv, Shape, Seconds
<1>2. PICK name \in Names : IsFreeName(name, StampOf(w)) /\ job' = [job EXCEPT ![w].name = name]
    BY DEF Name
<1>3. /\ \A q \in Procs \ {w} : pc'[q] = pc[q] /\ job'[q] = job[q]
      /\ job'[w].name = name /\ job'[w].stamp = job[w].stamp
    BY <1>1, <1>2 DEF Name, Moves, Shape, JobFields
<1>4. job[w].stamp \in 1..now /\ name[1] = StampOf(w) /\ name[1] <= now /\ job[w].stamp <= name[1]
    BY <1>1, <1>2 DEF Shape, Watching, StampOf, IsFreeName
<1>5. ASSUME InTurn PROVE InHand(w)'
    <2>1. \A f \in DOMAIN files : f[1] <= job[w].stamp
        BY <1>1, <1>5 DEF Turns, InHand, Watching
    <2>2. \A n \in 1..(name[2] - 1) : <<name[1], n>> \in DOMAIN files
        BY <1>2, <1>4 DEF IsFreeName
    <2>3. ASSUME NEW f \in DOMAIN files PROVE Precedes(f, name)
        <3>1. f \in Names /\ name \notin DOMAIN files
            BY <1>1, <1>2 DEF Shape, IsFreeName
        <3>2. /\ f = <<f[1], f[2]>> /\ name = <<name[1], name[2]>>
              /\ f[1] \in Nat /\ f[2] \in Nat \ {0} /\ name[1] \in Nat /\ name[2] \in Nat \ {0}
            BY <3>1 DEF Names, Seconds
        <3>3. ASSUME f[1] = name[1], ~(f[2] < name[2]) PROVE FALSE
            <4>1. name[2] # f[2]
                BY <3>1, <3>2, <3>3
            <4>2. name[2] \in 1..(f[2] - 1)
                BY <3>2, <3>3, <4>1
            <4>3. <<f[1], name[2]>> \in DOMAIN files
                BY <1>5, <4>2 DEF Turns, NoGaps
            <4> QED
                BY <3>1, <3>2, <3>3, <4>3
        <3>4. f[1] <= name[1]
            BY <1>4, <2>1, <3>2
        <3> QED
            BY <3>2, <3>3, <3>4 DEF Precedes
    <2>4. Follows(name)'
        BY <1>1, <2>2, <2>3 DEF Follows
    <2> QED
        BY <1>1, <1>3, <2>1, <2>4 DEF InHand, Watching, Follows
<1> QED
    BY <1>1, <1>3, <1>4, <1>5, QuietTurns

\* Processes that take turns: with w at work, the others have nothing in hand.
LEMMA OthersIdle ==
    ASSUME IInv, InTurn, NEW w \in Procs, pc[w] # "idle", NEW q \in Procs \ {w}
    PROVE  pc[q] = "idle"
BY DEF IInv, Alone, InTurn

\* The mark is set, or torn: no poll had been repaired, as the mark was not there.
LEMMA MarkedTurns ==
    ASSUME NEW w \in Watchers, IInv, IInv', Turns, pc[w] = "mark",
           UNCHANGED <<spacing, now, files, polls>>, Others(w),
           \/ pc'[w] = "week" /\ job'[w] = job[w]
           \/ pc'[w] = "idle"
    PROVE  Turns'
<1>1. w \in Procs /\ now \in Nat /\ Shape
    BY DEF Procs, IInv, Shape, Seconds
<1>2. ArePolls' /\ NoGaps' /\ FilesPast'
    BY DEF Turns, ArePolls, NoGaps, InTurn, FilesPast
<1>3. ASSUME NEW p \in Procs, pc'[p] = "write" PROVE job'[p].name[1] <= now'
    BY <1>3 DEF Turns, Others
<1>4. ASSUME InTurn', NEW p \in Procs PROVE InHand(p)'
    <2>1. InTurn /\ InHand(w)
        BY <1>1, <1>4 DEF InTurn, Turns
    <2>2. CASE p = w
        BY <1>1, <2>1, <2>2 DEF InHand, Watching
    <2>3. CASE p # w
        <3>1. pc[p] = "idle"
            BY <1>1, <2>1, <2>3, OthersIdle
        <3> QED
            BY <2>3, <3>1 DEF InHand, Others, Watching
    <2> QED
        BY <2>2, <2>3
<1>5. Settled'
    BY <1>1 DEF Turns, Settled, InTurn, InHand
<1> QED
    BY <1>2, <1>3, <1>4, <1>5 DEF Turns

\* A file is added under the name in hand: one more than any repair has seen.
LEMMA AddedTurns ==
    ASSUME NEW w \in Watchers, IInv, IInv', Turns, pc[w] = "write",
           UNCHANGED <<spacing, now, marker, polls>>, Others(w),
           pc'[w] \in {"idle", "store"},
           NEW file, files' = With(job[w].name, file)
    PROVE  Turns'
<1> DEFINE name == job[w].name
<1>1. w \in Procs /\ now \in Nat /\ Shape /\ name \in Names /\ name[1] <= now
    BY DEF Procs, IInv, Shape, Seconds, Turns
<1>2. name = <<name[1], name[2]>> /\ name[1] \in Nat /\ name[2] \in Nat
    BY <1>1 DEF Names, Seconds
<1>3. DOMAIN files' = DOMAIN files \cup {name}
    BY WithFile
<1>4. InTurn => Follows(name) /\ name \notin DOMAIN files
    BY <1>1 DEF Turns, InHand, IInv, NameIsFree, InTurn
<1> HIDE DEF name
<1>5. ArePolls' /\ FilesPast'
    BY <1>1, <1>3 DEF Turns, ArePolls, FilesPast
<1>6. NoGaps'
    BY <1>3, <1>4 DEF Turns, NoGaps, InTurn, Follows
<1>7. ASSUME NEW p \in Procs, pc'[p] = "write" PROVE job'[p].name[1] <= now'
    BY <1>7 DEF Turns, Others
<1>8. ASSUME InTurn', NEW p \in Procs PROVE InHand(p)'
    <2>1. CASE p = w
        BY <2>1 DEF InHand, Watching
    <2>2. CASE p # w
        <3>1. pc[p] = "idle"
            BY <1>1, <1>8, <2>2, OthersIdle DEF InTurn
        <3> QED
            BY <2>2, <3>1 DEF InHand, Others, Watching
    <2> QED
        BY <2>1, <2>2
<1>9. Settled'
    <2>1. IsFiniteSet(DOMAIN files) /\ Cardinality(DOMAIN files) \in Nat
        BY <1>1, FilesFinite
    <2>2. InTurn => Cardinality(DOMAIN files') = Cardinality(DOMAIN files) + 1
        BY <1>3, <1>4, <2>1, FS_AddElement
    <2> SUFFICES ASSUME InTurn, polls # <<>>, Last(polls).fixed # {}
                 PROVE  /\ marker.there
                        /\ Last(polls).files \in Nat
                        /\ Last(polls).files <= Cardinality(DOMAIN files')
                        /\ Last(polls).files # Cardinality(DOMAIN files')
        BY DEF Settled, InTurn
    <2>3. /\ marker.there
          /\ Last(polls).files \in Nat
          /\ Last(polls).files <= Cardinality(DOMAIN files)
        BY DEF Turns, Settled
    <2> QED
        BY <2>1, <2>2, <2>3
<1> QED
    BY <1>5, <1>6, <1>7, <1>8, <1>9 DEF Turns

\* A poll is added by a process that has nothing more in hand.
LEMMA PolledTurns ==
    ASSUME NEW w \in Procs, IInv, IInv', Turns, pc[w] # "idle", Others(w), pc'[w] = "idle",
           UNCHANGED <<spacing, now, files, marker>>, ArePolls', Settled'
    PROVE  Turns'
<1>1. NoGaps' /\ FilesPast'
    BY DEF Turns, NoGaps, InTurn, FilesPast
<1>2. ASSUME NEW p \in Procs, pc'[p] = "write" PROVE job'[p].name[1] <= now'
    BY <1>2 DEF Turns, Others
<1>3. ASSUME InTurn', NEW p \in Procs PROVE InHand(p)'
    <2>1. pc'[p] = "idle"
        BY <1>3, OthersIdle DEF InTurn, Others
    <2> QED
        BY <2>1 DEF InHand, Watching
<1> QED
    BY <1>1, <1>2, <1>3 DEF Turns

LEMMA StoreTurns ==
    ASSUME NEW i \in Ingests, IInv, IInv', Turns, Store(i)
    PROVE  Turns'
<1> DEFINE poll == [values |-> job[i].payload, total |-> Total(job[i].payload),
                    fixed |-> {}, files |-> 0]
<1>1. /\ i \in Procs /\ pc[i] # "idle" /\ Others(i) /\ pc'[i] = "idle"
      /\ UNCHANGED <<spacing, now, files, marker>>
    BY EndsShape DEF Store, Procs, Watchers, IInv
<1>2. polls' = Append(polls, poll) /\ poll.fixed = {}
    BY DEF Store
<1> HIDE DEF poll
<1>3. ArePolls' /\ Last(polls') = poll
    BY <1>2, AppendedPoll DEF Turns
<1>4. Settled'
    BY <1>2, <1>3 DEF Settled
<1> QED
    BY <1>1, <1>3, <1>4, PolledTurns

\* The repaired poll says of every starter what the archive says.
LEMMA ApplyTurns ==
    ASSUME NEW r \in Repairs, IInv, IInv', Turns, Apply(r)
    PROVE  Turns'
<1> DEFINE values == Corrected(Last(polls).values, job[r].fix)
           poll == [values |-> values, total |-> Total(Verdict),
                    fixed |-> DOMAIN job[r].fix, files |-> Cardinality(DOMAIN files)]
<1>1. /\ r \in Procs /\ pc[r] = "apply" /\ Others(r) /\ pc'[r] = "idle"
      /\ UNCHANGED <<spacing, now, files, marker>>
    BY EndsShape DEF Apply, Procs, IInv
<1>2. polls' = Append(polls, poll) /\ poll.values = values /\ poll.fixed = DOMAIN job[r].fix
      /\ poll.files = Cardinality(DOMAIN files)
    BY DEF Apply
<1>3. /\ DOMAIN values = DOMAIN Last(polls).values
      /\ \A p \in DOMAIN values :
             values[p] = IF p \in DOMAIN job[r].fix THEN job[r].fix[p] ELSE Last(polls).values[p]
    BY DEF Corrected
<1> HIDE DEF poll, values
<1>4. ArePolls' /\ polls' # <<>> /\ Last(polls') = poll
    BY <1>2, AppendedPoll DEF Turns
<1>5. ASSUME InTurn PROVE marker.there /\ Fixes' = {}
    <2>1. Fixes # {} /\ job[r].fix = [q \in Fixes |-> Verdict[q]]
        BY <1>1, <1>5 DEF Turns, InHand
    <2>2. polls # <<>> /\ Fixes = {p \in DOMAIN Last(polls).values \cap Slots :
                                       Last(polls).values[p] # Verdict[p]}
        BY <2>1 DEF Fixes
    <2>3. marker.there
        <3>1. Slots # {}
            BY <2>1, <2>2
        <3>2. FinalFiles # {}
            BY <3>1 DEF Slots
        <3> QED
            BY <3>2 DEF FinalFiles, IInv, Shape
    <2>4. Slots' = Slots /\ Verdict' = Verdict
        BY <1>1, SameVote
    <2>5. Fixes' = {p \in DOMAIN values \cap Slots : values[p] # Verdict[p]}
        BY <1>2, <1>4, <2>4 DEF Fixes
    <2>6. ASSUME NEW p \in DOMAIN values \cap Slots PROVE values[p] = Verdict[p]
        <3>1. CASE p \in Fixes
            BY <1>3, <2>1, <2>6, <3>1
        <3>2. CASE p \notin Fixes
            BY <1>3, <2>1, <2>2, <2>6, <3>2
        <3> QED
            BY <3>1, <3>2
    <2> QED
        BY <2>3, <2>5, <2>6
<1>6. Settled'
    <2>1. Cardinality(DOMAIN files) \in Nat /\ Cardinality(DOMAIN files') = Cardinality(DOMAIN files)
        BY <1>1, FilesFinite DEF IInv
    <2>2. Last(polls').files = Cardinality(DOMAIN files)
        BY <1>2, <1>4
    <2>3. InTurn' = InTurn /\ marker' = marker
        BY <1>1 DEF InTurn
    <2> QED
        BY <1>5, <2>1, <2>2, <2>3 DEF Settled
<1> QED
    BY <1>1, <1>4, <1>6, PolledTurns

LEMMA PlanTurns ==
    ASSUME NEW r \in Repairs, IInv, IInv', Turns, Plan(r)
    PROVE  Turns'
<1>1. /\ r \in Procs /\ UNCHANGED <<spacing, now, files, marker, polls>>
      /\ now \in Nat /\ Shape /\ Shape' /\ pc'[r] = "apply" /\ Fixes # {}
    BY DEF Plan, Moves, Procs, IInv, Shape, Seconds
<1>2. /\ \A q \in Procs \ {r} : pc'[q] = pc[q] /\ job'[q] = job[q]
      /\ job'[r].fix = [p \in Fixes |-> Verdict[p]]
    BY <1>1 DEF Plan, Moves, Shape, JobFields
<1>3. InHand(r)'
    BY <1>1, <1>2, SameFixes DEF InHand, Watching
<1> QED
    BY <1>1, <1>2, <1>3, QuietTurns

LEMMA WatcherTurns ==
    ASSUME NEW w \in Watchers, IInv, IInv', Turns, Mark(w) \/ Skip(w) \/ Write(w) \/ Tear(w)
    PROVE  Turns'
<1>1. w \in Procs /\ Shape
    BY DEF Procs, IInv
<1>2. Saved(w) => Others(w) /\ pc'[w] \in {"idle", "store"}
    BY <1>1, EndsShape DEF Saved, Shape, Others
<1>3. CASE Mark(w)
    BY <1>1, <1>3, MarkedTurns DEF Mark, Moves, Shape, Others
<1>4. CASE Skip(w)
    BY <1>1, <1>2, <1>4, DoneTurns DEF Skip
<1>5. CASE Write(w)
    BY <1>2, <1>5, AddedTurns DEF Write
<1>6. CASE Tear(w)
    BY <1>1, <1>6, EndsShape, MarkedTurns, AddedTurns DEF Tear
<1> QED
    BY <1>3, <1>4, <1>5, <1>6

LEMMA NextTurns == IInv /\ IInv' /\ Turns /\ [Next]_vars => Turns'
<1> SUFFICES ASSUME IInv, IInv', Turns, [Next]_vars PROVE Turns'
    OBVIOUS
<1>1. CASE UNCHANGED vars
    <2>1. now \in Nat /\ now' \in Nat /\ now <= now' /\ Shape /\ Shape'
        BY <1>1 DEF vars, IInv, Shape, Seconds
    <2> QED
        BY <1>1, <2>1, QuietTurns DEF vars
<1>2. CASE Tick \/ Serve \/ Score
    BY <1>2, WorldTurns
<1>3. ASSUME NEW w \in Watchers,
             \/ Begin(w) \/ League(w) \/ Mark(w) \/ Matchups(w)
             \/ Skip(w) \/ Name(w) \/ Write(w) \/ Tear(w)
      PROVE  Turns'
    BY <1>3, StampTurns, NameTurns, WatcherTurns
<1>4. ASSUME NEW i \in Ingests, Store(i) PROVE Turns'
    BY <1>4, StoreTurns
<1>5. ASSUME NEW r \in Repairs, Plan(r) \/ Apply(r) PROVE Turns'
    BY <1>5, PlanTurns, ApplyTurns
<1>6. ASSUME NEW p \in Procs, Die(p) PROVE Turns'
    BY <1>6, EndsShape, DoneTurns DEF Die, IInv
<1> QED
    BY <1>1, <1>2, <1>3, <1>4, <1>5, <1>6 DEF Next

\* In turns, the archive stays in the order of its names and a repair's poll agrees
\* with it.
THEOREM TurnsHold == Spec => [](IInv /\ Turns)
<1>1. Init => Turns
    BY InitTurns
<1>2. IInv /\ IInv' /\ Turns /\ [Next]_vars => Turns'
    BY NextTurns
<1> QED
    BY <1>1, <1>2, Invariance, PTL DEF Spec

\* Among processes that take turns, lockin repair settles a week: until the archive
\* grows or an ingest polls again, there is nothing more to repair.
THEOREM RepairsSettle == Spec => []RepairSettles
<1>1. IInv /\ Turns => RepairSettles
    BY SpacingsAssumption DEF IInv, Shape, Turns, Settled, InTurn, RepairSettles
<1> QED
    BY <1>1, TurnsHold, PTL

\* Among processes that take turns, what snapshots.save has saved or skipped is what
\* the archive's latest snapshot holds, whatever died before it and in what second.
THEOREM ReadingsStay == Spec => EveryReadingKept
<1> DEFINE Kept == spacing # "together" => \A w \in Watchers : (Skip(w) \/ Write(w)) =>
                       \E f \in DOMAIN files' :
                           /\ \A g \in DOMAIN files' \ {f} : Precedes(g, f)
                           /\ files'[f].served = job[w].payload
<1>1. IInv /\ Turns /\ [Next]_vars => [Kept]_vars
    <2> SUFFICES ASSUME IInv, Turns, spacing # "together", NEW w \in Watchers,
                        Skip(w) \/ Write(w)
                 PROVE  \E f \in DOMAIN files' :
                            /\ \A g \in DOMAIN files' \ {f} : Precedes(g, f)
                            /\ files'[f].served = job[w].payload
        OBVIOUS
    <2>1. InTurn /\ w \in Procs
        BY SpacingsAssumption DEF IInv, Shape, InTurn, Procs
    <2>2. CASE Skip(w)
        BY <2>2 DEF Skip, Unchanged, IsLatest
    <2>3. CASE Write(w)
        <3>1. Follows(job[w].name)
            BY <2>1, <2>3 DEF Write, Turns, InHand
        <3>2. /\ DOMAIN files' = DOMAIN files \cup {job[w].name}
              /\ files'[job[w].name].served = job[w].payload
            <4> DEFINE file == Snapshot(job[w].payload, job[w].final)
            <4>1. files' = With(job[w].name, file) /\ file.served = job[w].payload
                BY <2>3 DEF Write, Snapshot
            <4> HIDE DEF file
            <4> QED
                BY <4>1, WithFile
        <3> QED
            BY <3>1, <3>2 DEF Follows
    <2> QED
        BY <2>2, <2>3
<1> QED
    BY <1>1, TurnsHold, PTL DEF Spec, EveryReadingKept
================================================================================
