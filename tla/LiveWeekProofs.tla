---------------------------- MODULE LiveWeekProofs ----------------------------
(***************************************************************************)
(* What LiveWeek promises for every roster, length of week, set of scores   *)
(* and number of ingests: the morning digest banks no one who is not        *)
(* locked, calls no one over a lock whose window had closed, calls every    *)
(* window that is open and none that is shut, asks for help only with       *)
(* cause, and repeats a call only within its window.                        *)
(*                                                                         *)
(* None is inductive: they relate the digest to the world through two       *)
(* tables filled at other times. The strengthening says what those tables   *)
(* are evidence of. Rows fetched since 07:00 UTC are the outcomes           *)
(* (BoxFaithful, StatsFaithful); a poll since then shows either a lock or   *)
(* the latest finished game (PollTruth), always a lock that a later tip     *)
(* has closed (PollFrozen), and no tip that was not (PollTips). Both are    *)
(* read with what the inference says of any games, which comes first.       *)
(***************************************************************************)
EXTENDS LiveWeek, WellFoundedInduction, TLAPS

-----------------------------------------------------------------------------
\* What a counted value can be read as, for every week of games G: any function to
\* a played flag and a score. Nothing is assumed of its days but that a lock is on
\* one of them.

\* state.py, "the one invariant": a starter still riding his latest game is never
\* read as banked, whatever his other games scored.
THEOREM RideIsNeverBanked ==
    ASSUME NEW G, DOMAIN G # {}, NEW counted, Rides(counted, G)
    PROVE  Reading(counted, G) \in {"open", "ambiguous"}
<1>1. CASE DOMAIN G = {LastDay(G)}
  <2>1. InferLock(counted, G) = ReadSingle(counted, G)
    BY <1>1 DEF InferLock
  <2>2. InferLock(counted, G).status = "single_game"
    BY <2>1 DEF ReadSingle, Inference
  <2>3. QED
    BY <2>2 DEF Reading, Undecided
<1>2. CASE DOMAIN G # {LastDay(G)}
  <2>1. InferLock(counted, G) = ReadRide(counted, G)
    BY <1>2 DEF InferLock, ReadSeveral
  <2>2. CASE Earlier(counted, G) # {}
    <3>1. /\ InferLock(counted, G).status = "ambiguous"
          /\ InferLock(counted, G).early = "unknown"
      BY <2>1, <2>2 DEF ReadRide, Inference
    <3>2. QED
      BY <3>1 DEF Reading, Undecided
  <2>3. CASE Earlier(counted, G) = {}
    <3>1. InferLock(counted, G).status = "rode_to_end"
      BY <2>1, <2>3 DEF ReadRide, Inference
    <3>2. QED
      BY <3>1 DEF Reading, Undecided
  <2>4. QED
    BY <2>2, <2>3
<1>3. QED
  BY <1>1, <1>2

\* A lock on a game before the latest is never read as a call still to make, nor
\* as no evidence: it is banked, or flagged as worth two games.
THEOREM EarlierLockIsSeen ==
    ASSUME NEW G, NEW L \in DOMAIN G, G[L].played, L # LastDay(G)
    PROVE  Reading(G[L].score, G) \in {"banked", "ambiguous"}
<1> DEFINE counted == G[L].score
<1>1. L \in Earlier(counted, G) /\ L \in Candidates(counted, G)
  BY DEF Earlier, Candidates
<1>2. InferLock(counted, G) = ReadSeveral(counted, G)
  BY DEF InferLock
<1>3. CASE Rides(counted, G)
  <2>1. InferLock(counted, G) = ReadRide(counted, G)
    BY <1>2, <1>3 DEF ReadSeveral
  <2>2. InferLock(counted, G).status = "ambiguous" /\ InferLock(counted, G).early = "unknown"
    BY <2>1, <1>1 DEF ReadRide, Inference
  <2>3. QED
    BY <2>2 DEF Reading, Undecided
<1>4. CASE ~Rides(counted, G)
  <2>1. InferLock(counted, G) = ReadLocked(counted, G)
    BY <1>1, <1>2, <1>4 DEF ReadSeveral
  <2>2. /\ InferLock(counted, G).status \in {"locked_early", "ambiguous"}
        /\ InferLock(counted, G).early = "yes"
    BY <2>1 DEF ReadLocked, Inference
  <2>3. QED
    BY <2>2 DEF Reading, Undecided
<1>5. QED
  BY <1>3, <1>4

\* A zero is always explained: he may have been in no slot when his games tipped.
THEOREM ZeroIsExplained ==
    ASSUME NEW G, DOMAIN G # {}
    PROVE  Reading(0, G) # "unresolved"
<1> DEFINE read == InferLock(0, G)
<1>1. read.status \in {"single_game", "rode_to_end", "ambiguous", "no_lockable_game", "locked_early"}
  BY DEF InferLock, ReadSingle, ReadSeveral, ReadRide, ReadLocked, ReadUnexplained,
         Undetermined, Inference
<1>2. QED
  BY <1>1 DEF Reading, Undecided

\* core/locks.py, is_resolved: a resolved reading names the game that was locked.
THEOREM ResolvedNamesTheLock ==
    ASSUME NEW G, NEW L \in DOMAIN G, G[L].played,
           Resolved(InferLock(G[L].score, G))
    PROVE  InferLock(G[L].score, G).matched = L
<1> DEFINE counted == G[L].score
<1>1. L \in Candidates(counted, G)
  BY DEF Candidates
<1>2. CASE DOMAIN G = {LastDay(G)}
  <2>1. L = LastDay(G) /\ Rides(counted, G)
    BY <1>2 DEF Rides, RideScore
  <2>2. InferLock(counted, G) = ReadSingle(counted, G)
    BY <1>2 DEF InferLock
  <2>3. QED
    BY <2>1, <2>2 DEF ReadSingle, Inference
<1>3. CASE DOMAIN G # {LastDay(G)} /\ Rides(counted, G)
  <2>1. InferLock(counted, G) = ReadRide(counted, G)
    BY <1>3 DEF InferLock, ReadSeveral
  <2>2. Earlier(counted, G) = {}
    BY <2>1 DEF ReadRide, Inference, Resolved
  <2>3. L = LastDay(G)
    BY <1>1, <2>2 DEF Earlier
  <2>4. QED
    BY <2>1, <2>2, <2>3 DEF ReadRide, Inference
<1>4. CASE DOMAIN G # {LastDay(G)} /\ ~Rides(counted, G)
  <2>1. InferLock(counted, G) = ReadLocked(counted, G)
    BY <1>1, <1>4 DEF InferLock, ReadSeveral
  <2>2. PICK d \in Candidates(counted, G) : Candidates(counted, G) = {d}
    BY <2>1 DEF ReadLocked, Inference, Resolved
  <2>3. InferLock(counted, G).matched = (CHOOSE e \in Candidates(counted, G) : TRUE)
    BY <2>1, <2>2 DEF ReadLocked, Inference
  <2>4. QED
    BY <1>1, <2>2, <2>3
<1>5. QED
  BY <1>2, <1>3, <1>4

-----------------------------------------------------------------------------
\* What the tables are evidence of.

Past(p) == {d \in tipped[p] : d < today}

\* The last of the past games, when there is one.
IsLastPast(p, d) == d \in Past(p) /\ \A e \in Past(p) : e <= d

\* A stamp from after 07:00 UTC today.
ThisMorning == 2 * today + 1

\* Games tip on their day, and by 07:00 UTC the night's are over.
Clocks ==
    \A p \in Players :
        /\ tipped[p] \subseteq schedule[p]
        /\ \A d \in tipped[p] : d <= today
        /\ \A d \in schedule[p] : d < today => d \in tipped[p]
        /\ final[p] \subseteq tipped[p]
        /\ slateFinal => \A d \in tipped[p] \ final[p] : d = today
        /\ ~slateFinal => /\ today \notin tipped[p]
                          /\ \A d \in tipped[p] \ final[p] : d = today - 1

LocksHold ==
    \A p \in Players : lock[p] # NoGame =>
        lock[p] \in final[p] /\ outcome[p][lock[p]].played

\* Rows that hold every game before last night's, at its outcome, and nothing
\* of today's that could be taken for one.
Faithful(rows, p) ==
    /\ DOMAIN rows \subseteq tipped[p]
    /\ \A d \in tipped[p] : d < today - 1 => d \in DOMAIN rows
    /\ \A d \in DOMAIN rows : d < today => rows[d] = outcome[p][d]

StampsPast ==
    /\ run.statsAt <= Stamp
    /\ ingest.statsAt <= Stamp
    /\ poll.at <= Stamp

BoxFaithful == run.statsAt = ThisMorning => \A p \in Players : Faithful(box[p], p)

StatsFaithful ==
    ingest.step = "fetched" /\ ingest.statsAt = ThisMorning =>
        \A p \in Players : Faithful(ingest.stats[p], p)

\* What a riding starter counts when d was his last game: nothing from the bench.
ShownOf(p, d) == IF d \in slotted[p] THEN outcome[p][d].score ELSE 0

PollTruth ==
    poll.at = ThisMorning =>
        \A p \in DOMAIN poll.counted \ poll.tippedToday :
            \/ lock[p] \in Past(p) /\ poll.counted[p] = outcome[p][lock[p]].score
            \/ Past(p) = {}
            \/ \E d \in Past(p) :
                  /\ IsLastPast(p, d)
                  /\ poll.counted[p] = ShownOf(p, d)

PollFrozen ==
    poll.at = ThisMorning =>
        \A p \in DOMAIN poll.counted :
            lock[p] # NoGame /\ (\E d \in Past(p) : lock[p] < d) =>
                poll.counted[p] = outcome[p][lock[p]].score

PollTips ==
    poll.at = ThisMorning => \A p \in poll.tippedToday : today \in tipped[p]

Evidence ==
    Clocks /\ LocksHold /\ StampsPast /\ BoxFaithful /\ StatsFaithful
    /\ PollTruth /\ PollFrozen /\ PollTips

\* A call that was said named a game of an earlier day.
SaidAfter == \A s \in said : s.day < s.asOf

IInv == TypeOK /\ Evidence /\ BankedIsLocked /\ ClosedLockNotRecalled
        /\ SaidAfter /\ RepeatIsSameWindow
-----------------------------------------------------------------------------
\* Every nonempty set of days has a first and a last one.

LEMMA LeastNat ==
    ASSUME NEW S \in SUBSET Nat, S # {}
    PROVE  \E m \in S : \A n \in S : m <= n
<1>1. IsWellFoundedOn(OpToRel(<, Nat), Nat)
  BY NatLessThanWellFounded
<1>2. \E m \in S : \A n \in S : ~(<<n, m>> \in OpToRel(<, Nat))
  BY <1>1, WFMin
<1>3. PICK m \in S : \A n \in S : ~(<<n, m>> \in OpToRel(<, Nat))
  BY <1>2
<1>4. ASSUME NEW n \in S PROVE m <= n
  <2>1. n < m => <<n, m>> \in OpToRel(<, Nat)
    BY DEF OpToRel
  <2>2. ~(n < m)
    BY <1>3, <2>1
  <2>3. QED
    BY <2>2
<1>5. QED
  BY <1>4

LEMMA MaxDayIsLast ==
    ASSUME NEW S \in SUBSET Days, S # {}
    PROVE  MaxDay(S) \in S /\ \A e \in S : e <= MaxDay(S)
<1> DEFINE T == {NDays - d : d \in S}
<1>1. T \in SUBSET Nat /\ T # {}
  BY NDaysAssumption DEF Days
<1> HIDE DEF T
<1>2. PICK t \in T : \A n \in T : t <= n
  BY <1>1, LeastNat
<1>3. PICK d \in S : t = NDays - d
  BY <1>2 DEF T
<1>4. ASSUME NEW e \in S PROVE e <= d
  <2>1. NDays - e \in T
    BY DEF T
  <2>2. t <= NDays - e
    BY <2>1, <1>2
  <2>3. QED
    BY <2>2, <1>3, NDaysAssumption DEF Days
<1>5. QED
  BY <1>4 DEF MaxDay
LEMMA LatestTipped ==
    ASSUME TypeOK, NEW p \in Players, tipped[p] # {}
    PROVE  Latest(p) \in tipped[p] /\ Latest(p) \in Days
BY MaxDayIsLast DEF Latest, TypeOK, WorldTypeOK

-----------------------------------------------------------------------------
\* The types.

LEMMA OutcomeType ==
    ASSUME TypeOK, NEW p \in Players, NEW d \in Days
    PROVE  /\ outcome[p][d] \in Game
           /\ ~outcome[p][d].played => outcome[p][d].score = 0
<1>1. outcome[p][d] \in Outcomes
  BY DEF TypeOK, WorldTypeOK
<1>2. QED
  <2>1. CASE outcome[p][d] = NoOutcome
    BY <2>1 DEF NoOutcome, Game
  <2>2. CASE \E s \in Scores : outcome[p][d] = [played |-> TRUE, score |-> s]
    BY <2>2, ScoresAssumption DEF Game
  <2>3. QED
    BY <1>1, <2>1, <2>2 DEF Outcomes

LEMMA StampType == ASSUME TypeOK PROVE Stamp \in 0..(2 * NDays + 1)
BY NDaysAssumption DEF TypeOK, WorldTypeOK, Stamp, Days

LEMMA CountedType ==
    ASSUME TypeOK, NEW p \in Players, NEW partial \in Partials
    PROVE  Counted(p, partial) \in Int
<1>1. CASE lock[p] # NoGame
  <2>1. outcome[p][lock[p]] \in Game
    BY <1>1, OutcomeType DEF TypeOK, WorldTypeOK
  <2>2. QED
    BY <1>1, <2>1 DEF Counted, Game
<1>2. CASE lock[p] = NoGame /\ tipped[p] # {} /\ Latest(p) \in final[p]
  <2>1. outcome[p][Latest(p)] \in Game
    BY <1>2, LatestTipped, OutcomeType
  <2>2. QED
    BY <1>2, <2>1 DEF Counted, Game
<1>3. CASE lock[p] = NoGame /\ tipped[p] # {} /\ Latest(p) \notin final[p]
  <2>1. p \in DOMAIN partial /\ partial[p] \in Int
    BY <1>3, LatestTipped, ScoresAssumption DEF Partials, Playing
  <2>2. QED
    BY <1>3, <2>1 DEF Counted
<1>4. CASE lock[p] = NoGame /\ tipped[p] = {}
  BY <1>4 DEF Counted
<1>5. QED
  BY <1>1, <1>2, <1>3, <1>4

LEMMA StatsRowsType ==
    ASSUME TypeOK, NEW p \in Players, NEW partial \in Partials, NEW absent
    PROVE  IsPartial(StatsRows(p, partial, absent), Days, Game)
<1> DEFINE rows == StatsRows(p, partial, absent)
<1>1. DOMAIN rows \subseteq tipped[p] /\ tipped[p] \subseteq Days
  BY DEF StatsRows, TypeOK, WorldTypeOK
<1>2. ASSUME NEW d \in DOMAIN rows PROVE rows[d] \in Game
  <2>1. CASE d \in final[p]
    BY <1>1, <2>1, OutcomeType DEF StatsRows
  <2>2. CASE d \notin final[p]
    <3>1. partial[p] \in Int
      BY <1>1, <2>2, ScoresAssumption DEF Partials, Playing
    <3>2. QED
      BY <3>1, <2>2 DEF StatsRows, Game
  <2>3. QED
    BY <2>1, <2>2
<1>3. QED
  BY <1>1, <1>2 DEF IsPartial

LEMMA InitType == Init => TypeOK
BY NDaysAssumption, MaxIngestsAssumption
   DEF Init, TypeOK, WorldTypeOK, IngestTypeOK, BoxTypeOK, PollTypeOK, DigestTypeOK, Days, Outcomes,
       NoOutcome, NoIngest, NoPoll, NoDigest, NoRows, NoGame, IsPartial

\* Whatever ends the report, and a step that touches nothing of a part.
LEMMA NoReportType == ASSUME DigestTypeOK, NoReport PROVE DigestTypeOK'
BY NDaysAssumption DEF DigestTypeOK, NoReport, NoDigest, NoRows, IsPartial

LEMMA SameWorldType == ASSUME WorldTypeOK, UNCHANGED world PROVE WorldTypeOK'
BY DEF WorldTypeOK, world

LEMMA SameTablesType ==
    /\ IngestTypeOK /\ UNCHANGED <<ingest, ingests>> => IngestTypeOK'
    /\ BoxTypeOK /\ UNCHANGED <<run, box>> => BoxTypeOK'
    /\ PollTypeOK /\ UNCHANGED poll => PollTypeOK'
<1>1. IngestTypeOK /\ UNCHANGED <<ingest, ingests>> => IngestTypeOK'
  BY DEF IngestTypeOK, IsPartial
<1>2. BoxTypeOK /\ UNCHANGED <<run, box>> => BoxTypeOK'
  BY DEF BoxTypeOK, IsPartial
<1>3. PollTypeOK /\ UNCHANGED poll => PollTypeOK'
  BY DEF PollTypeOK, IsPartial
<1>4. QED
  BY <1>1, <1>2, <1>3

WorldStep ==
    \/ \E p \in Players : \/ \E inSlot \in BOOLEAN : Tip(p, inSlot)
                          \/ \E d \in Days, result \in Outcomes : Finish(p, d, result)
                          \/ LockGame(p)
    \/ Midnight
    \/ SlateCompletes

LEMMA WorldType == ASSUME TypeOK, WorldStep PROVE TypeOK'
<1>1. NoReport /\ UNCHANGED <<ingest, ingests, tables>>
  BY DEF WorldStep, Tip, Finish, LockGame, Midnight, SlateCompletes
<1>2. DigestTypeOK' /\ IngestTypeOK' /\ BoxTypeOK' /\ PollTypeOK'
  BY <1>1, NoReportType, SameTablesType DEF TypeOK, tables
<1>3. WorldTypeOK'
  <2> USE DEF TypeOK, WorldTypeOK
  <2>1. ASSUME NEW p \in Players, NEW inSlot \in BOOLEAN, Tip(p, inSlot)
        PROVE  WorldTypeOK'
    BY <2>1 DEF Tip
  <2>2. ASSUME NEW p \in Players, NEW d \in Days, NEW result \in Outcomes,
               Finish(p, d, result)
        PROVE  WorldTypeOK'
    BY <2>2 DEF Finish
  <2>3. ASSUME NEW p \in Players, LockGame(p) PROVE WorldTypeOK'
    BY <2>3, LatestTipped DEF LockGame, Lockable
  <2>4. CASE Midnight
    <3>1. today' \in Days
      BY <2>4, NDaysAssumption DEF Midnight, Days
    <3>2. QED
      BY <2>4, <3>1 DEF Midnight
  <2>5. CASE SlateCompletes
    BY <2>5 DEF SlateCompletes
  <2>6. QED
    BY <2>1, <2>2, <2>3, <2>4, <2>5 DEF WorldStep
<1>4. QED
  BY <1>2, <1>3 DEF TypeOK

IngestStep ==
    \/ \E partial \in Partials, absent \in SUBSET Players : FetchStats(partial, absent)
    \/ \E partial \in Partials, silent \in SUBSET Players, whole \in BOOLEAN :
            PollMatchups(partial, silent, whole)
    \/ FinishIngest
    \/ IngestDies

LEMMA NoIngestType ==
    /\ NoIngest.step = "idle" /\ NoIngest.statsAt = 0
    /\ \A p \in Players : IsPartial(NoIngest.stats[p], Days, Game)
BY DEF NoIngest, NoRows, IsPartial

LEMMA IngestType == ASSUME TypeOK, IngestStep PROVE TypeOK'
<1>1. NoReport /\ UNCHANGED world
  BY DEF IngestStep, FetchStats, PollMatchups, FinishIngest, IngestDies
<1>2. DigestTypeOK' /\ WorldTypeOK'
  BY <1>1, NoReportType, SameWorldType DEF TypeOK
<1>3. ASSUME NEW partial \in Partials, NEW absent \in SUBSET Players,
             FetchStats(partial, absent)
      PROVE  IngestTypeOK' /\ BoxTypeOK' /\ PollTypeOK'
  <2>1. ingest'.step = "fetched" /\ ingest'.statsAt \in 0..(2 * NDays + 1)
    BY <1>3, StampType DEF FetchStats
  <2>2. \A p \in Players : IsPartial(ingest'.stats[p], Days, Game)
    BY <1>3, StatsRowsType DEF FetchStats
  <2>3. ingests' \in 0..MaxIngests
    BY <1>3, MaxIngestsAssumption DEF FetchStats, TypeOK, IngestTypeOK
  <2>4. IngestTypeOK'
    BY <2>1, <2>2, <2>3 DEF IngestTypeOK, IsPartial
  <2>5. QED
    BY <1>3, <2>4, SameTablesType DEF FetchStats, tables, TypeOK
<1>4. ASSUME NEW partial \in Partials, NEW silent \in SUBSET Players,
             NEW whole \in BOOLEAN, PollMatchups(partial, silent, whole)
      PROVE  IngestTypeOK' /\ BoxTypeOK' /\ PollTypeOK'
  <2>1. /\ poll'.at \in 0..(2 * NDays + 1) /\ poll'.whole \in BOOLEAN
        /\ poll'.tippedToday \subseteq Players
    BY <1>4, StampType DEF PollMatchups
  <2>2. IsPartial(poll'.counted, Players, Int)
    BY <1>4, CountedType DEF PollMatchups, IsPartial
  <2>3. PollTypeOK'
    BY <2>1, <2>2 DEF PollTypeOK, IsPartial
  <2>4. run' \in [status : {"none", "running", "complete"}, statsAt : 0..(2 * NDays + 1)]
    BY <1>4 DEF PollMatchups, TypeOK, IngestTypeOK
  <2>5. \A p \in Players : IsPartial(box'[p], Days, Game)
    BY <1>4 DEF PollMatchups, TypeOK, IngestTypeOK, IsPartial
  <2>6. BoxTypeOK'
    BY <2>4, <2>5 DEF BoxTypeOK, IsPartial
  <2>7. /\ ingest'.step = "polled" /\ ingest'.statsAt = 0
        /\ ingest'.stats = NoIngest.stats /\ ingests' \in 0..MaxIngests
    BY <1>4 DEF PollMatchups, NoIngest, TypeOK, IngestTypeOK
  <2>8. IngestTypeOK'
    BY <2>7, NoIngestType, NDaysAssumption DEF IngestTypeOK, IsPartial
  <2>9. QED
    BY <2>3, <2>6, <2>8
<1>5. ASSUME ingest' = NoIngest, ingests' = ingests PROVE IngestTypeOK'
  BY <1>5, NoIngestType, NDaysAssumption DEF IngestTypeOK, TypeOK, IsPartial
<1>6. ASSUME FinishIngest PROVE IngestTypeOK' /\ BoxTypeOK' /\ PollTypeOK'
  <2>1. /\ ingest' = NoIngest /\ ingests' = ingests
        /\ run' = [run EXCEPT !.status = "complete"]
        /\ box' = box /\ poll' = poll
    BY <1>6 DEF FinishIngest
  <2>2. BoxTypeOK
    BY DEF TypeOK
  <2>3. run' \in [status : {"none", "running", "complete"}, statsAt : 0..(2 * NDays + 1)]
    BY <2>1, <2>2 DEF BoxTypeOK
  <2>4. BoxTypeOK'
    BY <2>1, <2>2, <2>3 DEF BoxTypeOK, IsPartial
  <2>5. PollTypeOK'
    BY <2>1, SameTablesType DEF TypeOK
  <2>6. QED
    BY <1>5, <2>1, <2>4, <2>5
<1>7. ASSUME IngestDies PROVE IngestTypeOK' /\ BoxTypeOK' /\ PollTypeOK'
  <2>1. /\ ingest' = NoIngest /\ ingests' = ingests
        /\ run' = run /\ box' = box /\ poll' = poll
    BY <1>7 DEF IngestDies, tables
  <2>2. BoxTypeOK' /\ PollTypeOK'
    BY <2>1, SameTablesType DEF TypeOK
  <2>3. QED
    BY <1>5, <2>1, <2>2
<1>8. IngestTypeOK' /\ BoxTypeOK' /\ PollTypeOK'
  BY <1>3, <1>4, <1>6, <1>7 DEF IngestStep
<1>9. QED
  BY <1>2, <1>8 DEF TypeOK
\* The digest's report is typed: a call names a game with a row.
LEMMA SeenType ==
    ASSUME TypeOK, NEW p \in Players
    PROVE  /\ DOMAIN Seen(p) \in SUBSET Days
           /\ \A d \in DOMAIN Seen(p) : Seen(p)[d] \in Game /\ Seen(p)[d] = box[p][d]
           /\ DOMAIN Seen(p) # {} =>
                 /\ LastDay(Seen(p)) \in DOMAIN Seen(p)
                 /\ \A d \in DOMAIN Seen(p) : d <= LastDay(Seen(p))
<1>1. DOMAIN Seen(p) \in SUBSET Days
  BY DEF Seen, TypeOK, BoxTypeOK, IsPartial
<1>2. \A d \in DOMAIN Seen(p) : Seen(p)[d] \in Game /\ Seen(p)[d] = box[p][d]
  BY DEF Seen, TypeOK, BoxTypeOK, IsPartial
<1>3. QED
  BY <1>1, <1>2, MaxDayIsLast DEF LastDay

LEMMA FirstSaidType ==
    ASSUME TypeOK, NEW p \in Players, NEW d \in Days
    PROVE  FirstSaid(p, d) \in 0..NDays
<1> DEFINE mornings == {c.asOf : c \in {x \in said : x.p = p /\ x.day = d /\ x.asOf < today}}
<1>1. mornings \in SUBSET Days
  BY DEF TypeOK, DigestTypeOK
<1>2. CASE mornings = {}
  BY <1>2, NDaysAssumption DEF FirstSaid, NoGame
<1>3. CASE mornings # {}
  <2>1. FirstSaid(p, d) = CHOOSE m \in mornings : \A n \in mornings : m <= n
    BY <1>3 DEF FirstSaid
  <2> HIDE DEF mornings
  <2>2. mornings \in SUBSET Nat
    BY <1>1, NDaysAssumption DEF Days
  <2>3. \E m \in mornings : \A n \in mornings : m <= n
    BY <1>3, <2>2, LeastNat
  <2>4. FirstSaid(p, d) \in mornings
    BY <2>1, <2>3
  <2>5. FirstSaid(p, d) \in Days
    BY <1>1, <2>4
  <2>6. QED
    BY <2>5, NDaysAssumption DEF Days
<1>4. QED
  BY <1>2, <1>3

LEMMA CallsType ==
    ASSUME TypeOK, NEW source, NEW banked, NEW untimed, NEW locks,
           NEW c \in Calls(source, banked, untimed, locks)
    PROVE  c \in CallType
<1>1. PICK p \in {q \in Callable(banked) \ untimed : ~Shut(q)} :
          c = [p |-> p, day |-> LastDay(Seen(p)), score |-> Seen(p)[LastDay(Seen(p))].score,
               lock |-> p \in locks,
               saidOn |-> IF source = "supplied" THEN NoGame ELSE FirstSaid(p, LastDay(Seen(p)))]
  BY DEF Calls
<1>2. p \in Players /\ DOMAIN Seen(p) # {}
  BY <1>1 DEF Callable, Lineup
<1>3. LastDay(Seen(p)) \in Days /\ Seen(p)[LastDay(Seen(p))] \in Game
  BY <1>2, SeenType
<1>4. FirstSaid(p, LastDay(Seen(p))) \in 0..NDays /\ NoGame \in 0..NDays
  BY <1>2, <1>3, FirstSaidType, NDaysAssumption DEF NoGame
<1>5. QED
  BY <1>1, <1>2, <1>3, <1>4 DEF CallType, Game

ReportType(d) ==
    /\ d.asOf = today
    /\ d.source \in {"none", "noted", "abstained", "inferred", "supplied"}
    /\ IsPartial(d.banked, Players, Int)
    /\ d.ambiguous \subseteq Players
    /\ \A c \in d.calls : c \in CallType
    /\ d.tippedAtPoll \subseteq Players

LEMMA DeliverType ==
    ASSUME TypeOK, NEW d, ReportType(d), Deliver(d)
    PROVE  TypeOK'
<1>1. WorldTypeOK' /\ IngestTypeOK' /\ BoxTypeOK' /\ PollTypeOK'
  BY SameWorldType, SameTablesType DEF Deliver, tables, TypeOK
<1>2. today \in Days /\ today \in 0..NDays
  BY NDaysAssumption DEF TypeOK, WorldTypeOK, Days
<1>3. said' \subseteq [p : Players, day : Days, asOf : Days]
  BY <1>2 DEF Deliver, ReportType, CallType, TypeOK, DigestTypeOK
<1>4. DigestTypeOK'
  BY <1>2, <1>3 DEF Deliver, ReportType, DigestTypeOK, IsPartial
<1>5. QED
  BY <1>1, <1>4 DEF TypeOK

LEMMA DeclineType ==
    ASSUME TypeOK, NEW source \in {"noted", "abstained"}, NEW note, Decline(source, note)
    PROVE  TypeOK'
<1>1. ReportType([NoDigest EXCEPT !.asOf = today, !.source = source, !.note = note])
  BY DEF ReportType, NoDigest, NoRows, IsPartial
<1>2. QED
  BY <1>1, DeliverType DEF Decline

LEMMA AdviseType ==
    ASSUME TypeOK, NEW source \in {"inferred", "supplied"}, NEW banked,
           IsPartial(banked, Players, Int), NEW ambiguous \in SUBSET Players,
           NEW untimed, NEW locks, Advise(source, banked, ambiguous, untimed, locks)
    PROVE  TypeOK'
<1> DEFINE d == [asOf |-> today, source |-> source, note |-> "none", banked |-> banked,
                 ambiguous |-> ambiguous,
                 calls |-> Calls(source, banked, untimed, locks),
                 untimed |-> untimed \cap Callable(banked),
                 tippedAtPoll |-> poll.tippedToday]
<1>1. Deliver(d)
  BY DEF Advise
<1>2. \A c \in d.calls : c \in CallType
  BY CallsType
<1>3. poll.tippedToday \subseteq Players
  BY DEF TypeOK, PollTypeOK
<1>4. ReportType(d)
  BY <1>2, <1>3 DEF ReportType
<1>5. QED
  BY <1>1, <1>4, DeliverType

LEMMA DigestType == ASSUME TypeOK, Digest PROVE TypeOK'
<1>1. ASSUME NEW cold \in BOOLEAN, Refuse(cold) PROVE TypeOK'
  BY <1>1, DeclineType DEF Refuse, Abstain
<1>2. ASSUME RefuseUnread PROVE TypeOK'
  BY <1>2, DeclineType DEF RefuseUnread, Abstain
<1>3. ASSUME NEW untimed \in SUBSET Players, NEW locks \in SUBSET Players,
             AdviseInferred(untimed, locks)
      PROVE  TypeOK'
  <2>1. IsPartial(InferredBank, Players, Int)
    BY DEF InferredBank, Read, Lineup, IsPartial, TypeOK, PollTypeOK
  <2>2. Read("ambiguous") \in SUBSET Players
    BY DEF Read, Lineup
  <2>3. QED
    BY <1>3, <2>1, <2>2, AdviseType DEF AdviseInferred
<1>4. ASSUME NEW untimed \in SUBSET Players, NEW locks \in SUBSET Players,
             AdviseSupplied(untimed, locks)
      PROVE  TypeOK'
  <2> DEFINE bank == [p \in {q \in Lineup : lock[q] # NoGame} |-> outcome[p][lock[p]].score]
  <2>1. ASSUME NEW p \in Players, lock[p] # NoGame PROVE outcome[p][lock[p]].score \in Int
    <3>1. lock[p] \in Days
      BY <2>1 DEF TypeOK, WorldTypeOK
    <3>2. QED
      BY <3>1, OutcomeType DEF Game
  <2>2. IsPartial(bank, Players, Int)
    BY <2>1 DEF Lineup, IsPartial
  <2>3. QED
    BY <1>4, <2>2, AdviseType DEF AdviseSupplied
<1>5. QED
  BY <1>1, <1>2, <1>3, <1>4 DEF Digest

LEMMA NextIsStep == Next => WorldStep \/ IngestStep \/ Digest
BY DEF Next, WorldStep, IngestStep

LEMMA StutterType == ASSUME TypeOK, UNCHANGED vars PROVE TypeOK'
<1>1. WorldTypeOK' /\ IngestTypeOK' /\ BoxTypeOK' /\ PollTypeOK'
  BY SameWorldType, SameTablesType DEF vars, tables, TypeOK
<1>2. DigestTypeOK'
  BY DEF vars, TypeOK, DigestTypeOK, IsPartial
<1>3. QED
  BY <1>1, <1>2 DEF TypeOK

\* Every variable keeps its type: the tables hold rows of real days, and a call
\* names a day of the week with a score.
THEOREM TypeCorrect == Spec => []TypeOK
<1>1. TypeOK /\ [Next]_vars => TypeOK'
  BY NextIsStep, WorldType, IngestType, DigestType, StutterType
<1>2. QED
  BY InitType, <1>1, PTL DEF Spec
-----------------------------------------------------------------------------
\* The evidence, step by step.

LEMMA MorningStamp ==
    ASSUME TypeOK PROVE /\ Stamp <= ThisMorning
                        /\ Stamp = ThisMorning => slateFinal
                        /\ ThisMorning <= Stamp => slateFinal
BY DEF TypeOK, WorldTypeOK, Days, Stamp, ThisMorning

LEMMA ClocksKept == ASSUME TypeOK, Clocks, WorldStep PROVE Clocks'
<1> USE DEF TypeOK, WorldTypeOK, Clocks, Days
<1>1. ASSUME NEW p \in Players, NEW inSlot \in BOOLEAN, Tip(p, inSlot) PROVE Clocks'
  BY <1>1 DEF Tip
<1>2. ASSUME NEW p \in Players, NEW d \in Days, NEW result \in Outcomes,
             Finish(p, d, result)
      PROVE  Clocks'
  BY <1>2 DEF Finish
<1>3. ASSUME NEW p \in Players, LockGame(p) PROVE Clocks'
  BY <1>3 DEF LockGame
<1>4. CASE Midnight
  BY <1>4, NDaysAssumption DEF Midnight
<1>5. CASE SlateCompletes
  BY <1>5 DEF SlateCompletes, Playing
<1>6. QED
  BY <1>1, <1>2, <1>3, <1>4, <1>5 DEF WorldStep

LEMMA LocksKept == ASSUME TypeOK, Clocks, LocksHold, WorldStep PROVE LocksHold'
<1> USE DEF TypeOK, WorldTypeOK, LocksHold
<1>1. ASSUME NEW p \in Players, NEW inSlot \in BOOLEAN, Tip(p, inSlot) PROVE LocksHold'
  BY <1>1 DEF Tip
<1>2. ASSUME NEW p \in Players, NEW d \in Days, NEW result \in Outcomes,
             Finish(p, d, result)
      PROVE  LocksHold'
  BY <1>2 DEF Finish
<1>3. ASSUME NEW p \in Players, LockGame(p) PROVE LocksHold'
  BY <1>3 DEF LockGame, Lockable
<1>4. CASE Midnight
  BY <1>4 DEF Midnight
<1>5. CASE SlateCompletes
  BY <1>5 DEF SlateCompletes
<1>6. QED
  BY <1>1, <1>2, <1>3, <1>4, <1>5 DEF WorldStep

\* The world stays in the same morning, or leaves it and every stamp behind.
SameMorning == slateFinal /\ slateFinal' /\ today' = today

LEMMA StampsKept == ASSUME TypeOK, StampsPast, WorldStep PROVE StampsPast'
<1>1. UNCHANGED <<run, ingest, poll>>
  BY DEF WorldStep, Tip, Finish, LockGame, Midnight, SlateCompletes, tables
<1>2. run.statsAt \in Nat /\ ingest.statsAt \in Nat /\ poll.at \in Nat
  BY NDaysAssumption DEF TypeOK, IngestTypeOK, BoxTypeOK, PollTypeOK
<1>3. Stamp \in Nat /\ Stamp' \in Nat /\ Stamp <= Stamp'
  BY NDaysAssumption DEF WorldStep, Tip, Finish, LockGame, Midnight, SlateCompletes,
     TypeOK, WorldTypeOK, Stamp, Days
<1>4. QED
  BY <1>1, <1>2, <1>3 DEF StampsPast

\* A stamp of this morning stays one only within the morning.
LEMMA MorningKept ==
    ASSUME TypeOK, WorldStep, NEW at \in Nat, at <= Stamp, at = ThisMorning'
    PROVE  SameMorning /\ at = ThisMorning
BY NDaysAssumption DEF WorldStep, Tip, Finish, LockGame, Midnight, SlateCompletes,
   TypeOK, WorldTypeOK, Stamp, Days, ThisMorning, SameMorning

\* Within a morning the past games, and what they were worth, stay as they are.
LEMMA PastKept ==
    ASSUME TypeOK, Clocks, WorldStep, SameMorning, NEW p \in Players
    PROVE  /\ Past(p)' = Past(p)
           /\ tipped[p] \subseteq tipped'[p]
           /\ \A d \in Past(p) : /\ outcome'[p][d] = outcome[p][d]
                                 /\ d \in slotted'[p] <=> d \in slotted[p]
           /\ \A d \in tipped'[p] : d < today => d \in tipped[p]
<1> USE DEF TypeOK, WorldTypeOK, Clocks, SameMorning, Past, Days
<1>1. ASSUME NEW q \in Players, NEW inSlot \in BOOLEAN, Tip(q, inSlot)
      PROVE  /\ \A d \in tipped'[p] : d < today => d \in tipped[p]
             /\ tipped[p] \subseteq tipped'[p]
             /\ outcome' = outcome
             /\ \A d \in Past(p) : d \in slotted'[p] <=> d \in slotted[p]
  BY <1>1 DEF Tip
<1>2. ASSUME NEW q \in Players, NEW d \in Days, NEW result \in Outcomes,
             Finish(q, d, result)
      PROVE  /\ UNCHANGED <<tipped, slotted>>
             /\ \A e \in Past(p) : outcome'[p][e] = outcome[p][e]
  <2>1. d = today
    BY <1>2 DEF Finish
  <2>2. QED
    BY <1>2, <2>1 DEF Finish
<1>3. ASSUME NEW q \in Players, LockGame(q) PROVE UNCHANGED <<tipped, slotted, outcome>>
  BY <1>3 DEF LockGame
<1>4. ~Midnight /\ ~SlateCompletes
  BY DEF Midnight, SlateCompletes
<1>5. QED
  BY <1>1, <1>2, <1>3, <1>4 DEF WorldStep

LEMMA FaithfulKept ==
    ASSUME TypeOK, Clocks, WorldStep, SameMorning, NEW p \in Players,
           NEW rows, Faithful(rows, p)
    PROVE  Faithful(rows, p)'
<1>1. today \in Nat /\ today' = today /\ tipped[p] \subseteq Nat /\ tipped'[p] \subseteq Nat
  BY WorldType, NDaysAssumption DEF TypeOK, WorldTypeOK, Days, SameMorning
<1>2. DOMAIN rows \subseteq tipped'[p]
  BY PastKept DEF Faithful
<1>3. ASSUME NEW d \in tipped'[p], d < today - 1 PROVE d \in DOMAIN rows
  BY <1>1, <1>3, PastKept DEF Faithful
<1>4. ASSUME NEW d \in DOMAIN rows, d < today PROVE rows[d] = outcome'[p][d]
  BY <1>1, <1>4, PastKept DEF Faithful, Past
<1>5. QED
  BY <1>1, <1>2, <1>3, <1>4 DEF Faithful

LEMMA RowsKept ==
    ASSUME TypeOK, Clocks, StampsPast, BoxFaithful, StatsFaithful, WorldStep
    PROVE  BoxFaithful' /\ StatsFaithful'
<1>1. UNCHANGED <<run, box, ingest>>
  BY DEF WorldStep, Tip, Finish, LockGame, Midnight, SlateCompletes, tables
<1>2. run.statsAt \in Nat /\ ingest.statsAt \in Nat
  BY NDaysAssumption DEF TypeOK, IngestTypeOK, BoxTypeOK
<1>3. BoxFaithful'
  <2>1. SUFFICES ASSUME run.statsAt = ThisMorning', NEW p \in Players
                 PROVE  Faithful(box[p], p)'
    BY <1>1 DEF BoxFaithful
  <2>2. SameMorning /\ run.statsAt = ThisMorning
    BY <1>2, <2>1, MorningKept DEF StampsPast
  <2>3. Faithful(box[p], p)
    BY <2>2 DEF BoxFaithful
  <2>4. QED
    BY <1>1, <2>2, <2>3, FaithfulKept DEF Faithful
<1>4. StatsFaithful'
  <2>1. SUFFICES ASSUME ingest.step = "fetched", ingest.statsAt = ThisMorning',
                        NEW p \in Players
                 PROVE  Faithful(ingest.stats[p], p)'
    BY <1>1 DEF StatsFaithful
  <2>2. SameMorning /\ ingest.statsAt = ThisMorning
    BY <1>2, <2>1, MorningKept DEF StampsPast
  <2>3. Faithful(ingest.stats[p], p)
    BY <2>1, <2>2 DEF StatsFaithful
  <2>4. QED
    BY <1>1, <2>2, <2>3, FaithfulKept DEF Faithful
<1>5. QED
  BY <1>3, <1>4
LEMMA PollTruthKept ==
    ASSUME TypeOK, Clocks, StampsPast, PollTruth, WorldStep
    PROVE  PollTruth'
<1>1. UNCHANGED poll
  BY DEF WorldStep, Tip, Finish, LockGame, Midnight, SlateCompletes, tables
<1>2. SUFFICES ASSUME poll.at = ThisMorning', NEW p \in DOMAIN poll.counted \ poll.tippedToday
               PROVE  \/ lock'[p] \in Past(p)' /\ poll.counted[p] = outcome'[p][lock'[p]].score
                      \/ Past(p)' = {}
                      \/ \E d \in Past(p)' :
                            /\ IsLastPast(p, d)'
                            /\ poll.counted[p] = ShownOf(p, d)'
  BY <1>1 DEF PollTruth
<1>3. p \in Players
  BY DEF TypeOK, PollTypeOK, IsPartial
<1>4. SameMorning /\ poll.at = ThisMorning
  <2>1. poll.at \in Nat
    BY NDaysAssumption DEF TypeOK, PollTypeOK
  <2>2. QED
    BY <1>2, <2>1, MorningKept DEF StampsPast
<1>5. /\ Past(p)' = Past(p)
      /\ \A d \in Past(p) : /\ outcome'[p][d] = outcome[p][d]
                            /\ d \in slotted'[p] <=> d \in slotted[p]
  BY <1>3, <1>4, PastKept
<1>6. lock[p] \in Past(p) => lock'[p] = lock[p]
  BY <1>3 DEF WorldStep, Tip, Finish, LockGame, Midnight, SlateCompletes,
              Past, TypeOK, WorldTypeOK, Days, NoGame
<1>7. CASE lock[p] \in Past(p) /\ poll.counted[p] = outcome[p][lock[p]].score
  BY <1>5, <1>6, <1>7
<1>8. CASE Past(p) = {}
  BY <1>5, <1>8
<1>9. ASSUME NEW d \in Past(p), IsLastPast(p, d),
             poll.counted[p] = ShownOf(p, d)
      PROVE  /\ d \in Past(p)' /\ IsLastPast(p, d)'
             /\ poll.counted[p] = ShownOf(p, d)'
  BY <1>5, <1>9 DEF IsLastPast, ShownOf
<1>10. QED
  BY <1>4, <1>7, <1>8, <1>9 DEF PollTruth

LEMMA PollFrozenKept ==
    ASSUME TypeOK, Clocks, LocksHold, StampsPast, PollFrozen, WorldStep
    PROVE  PollFrozen'
<1>1. UNCHANGED poll
  BY DEF WorldStep, Tip, Finish, LockGame, Midnight, SlateCompletes, tables
<1>2. SUFFICES ASSUME poll.at = ThisMorning', NEW p \in DOMAIN poll.counted,
                      lock'[p] # NoGame, NEW e \in Past(p)', lock'[p] < e
               PROVE  poll.counted[p] = outcome'[p][lock'[p]].score
  BY <1>1 DEF PollFrozen
<1>3. p \in Players
  BY DEF TypeOK, PollTypeOK, IsPartial
<1>4. SameMorning /\ poll.at = ThisMorning
  <2>1. poll.at \in Nat
    BY NDaysAssumption DEF TypeOK, PollTypeOK
  <2>2. QED
    BY <1>2, <2>1, MorningKept DEF StampsPast
<1>5. e \in Past(p)
  BY <1>2, <1>3, <1>4, PastKept
<1>6. lock'[p] = lock[p]
  <2>1. ASSUME LockGame(p) PROVE FALSE
    <3>1. lock'[p] = Latest(p) /\ e \in tipped[p]
      BY <1>3, <1>5, <2>1 DEF LockGame, Past, TypeOK, WorldTypeOK
    <3>2. e <= Latest(p)
      BY <1>3, <3>1, MaxDayIsLast DEF Latest, TypeOK, WorldTypeOK
    <3>3. e \in Nat /\ Latest(p) \in Nat
      BY <1>3, <3>1, LatestTipped, NDaysAssumption DEF TypeOK, WorldTypeOK, Days
    <3>4. QED
      BY <1>2, <3>1, <3>2, <3>3
  <2>2. QED
    BY <1>3, <2>1 DEF WorldStep, Tip, Finish, LockGame, Midnight, SlateCompletes,
                      TypeOK, WorldTypeOK
<1>7. poll.counted[p] = outcome[p][lock[p]].score
  BY <1>2, <1>4, <1>5, <1>6 DEF PollFrozen
<1>8. outcome'[p][lock[p]] = outcome[p][lock[p]]
  BY <1>2, <1>3, <1>6 DEF WorldStep, Tip, Finish, LockGame, Midnight, SlateCompletes,
     LocksHold, TypeOK, WorldTypeOK
<1>9. QED
  BY <1>6, <1>7, <1>8

LEMMA PollTipsKept ==
    ASSUME TypeOK, Clocks, StampsPast, PollTips, WorldStep
    PROVE  PollTips'
<1>1. UNCHANGED poll
  BY DEF WorldStep, Tip, Finish, LockGame, Midnight, SlateCompletes, tables
<1>2. SUFFICES ASSUME poll.at = ThisMorning', NEW p \in poll.tippedToday
               PROVE  today' \in tipped'[p]
  BY <1>1 DEF PollTips
<1>3. p \in Players /\ poll.at \in Nat
  BY NDaysAssumption DEF TypeOK, PollTypeOK
<1>4. SameMorning /\ poll.at = ThisMorning
  BY <1>2, <1>3, MorningKept DEF StampsPast
<1>5. tipped[p] \subseteq tipped'[p]
  BY <1>3, <1>4, PastKept
<1>6. QED
  BY <1>2, <1>4, <1>5 DEF PollTips, SameMorning

LEMMA EvidenceWorld == ASSUME TypeOK, Evidence, WorldStep PROVE Evidence'
BY ClocksKept, LocksKept, StampsKept, RowsKept, PollTruthKept, PollFrozenKept,
   PollTipsKept DEF Evidence

-----------------------------------------------------------------------------
\* The ingest fills the tables with evidence.

LEMMA SameWorldEvidence ==
    ASSUME UNCHANGED world
    PROVE  /\ Clocks => Clocks'
           /\ LocksHold => LocksHold'
           /\ Stamp' = Stamp /\ ThisMorning' = ThisMorning
           /\ \A p : Past(p)' = Past(p)
           /\ \A p, rows : Faithful(rows, p) => Faithful(rows, p)'
<1>1. Clocks => Clocks'
  BY DEF world, Clocks
<1>2. LocksHold => LocksHold'
  BY DEF world, LocksHold
<1>3. Stamp' = Stamp /\ ThisMorning' = ThisMorning
  BY DEF world, Stamp, ThisMorning
<1>4. \A p : Past(p)' = Past(p)
  BY DEF world, Past
<1>5. \A p, rows : Faithful(rows, p) => Faithful(rows, p)'
  BY DEF world, Faithful
<1>6. QED
  BY <1>1, <1>2, <1>3, <1>4, <1>5

\* Rows asked for after 07:00 UTC are the outcomes, however few they are.
LEMMA FetchedRowsFaithful ==
    ASSUME TypeOK, Clocks, slateFinal, NEW p \in Players, NEW partial, NEW absent
    PROVE  Faithful(StatsRows(p, partial, absent), p)
<1> DEFINE rows == StatsRows(p, partial, absent)
<1>1. DOMAIN rows = {e \in tipped[p] : p \in absent => e < today - 1}
  BY DEF StatsRows
<1>2. ASSUME NEW d \in tipped[p], d < today PROVE d \in final[p]
  BY <1>2 DEF Clocks, TypeOK, WorldTypeOK, Days
<1>3. ASSUME NEW d \in DOMAIN rows, d < today PROVE rows[d] = outcome[p][d]
  BY <1>1, <1>2, <1>3 DEF StatsRows
<1>4. QED
  BY <1>1, <1>3 DEF Faithful

\* The poll of the morning shows a lock, or the last of the past games.
LEMMA PolledValue ==
    ASSUME TypeOK, Clocks, LocksHold, slateFinal, NEW p \in Players,
           NEW partial, today \notin tipped[p]
    PROVE  \/ lock[p] \in Past(p) /\ Counted(p, partial) = outcome[p][lock[p]].score
           \/ Past(p) = {}
           \/ \E d \in Past(p) :
                 /\ IsLastPast(p, d)
                 /\ Counted(p, partial) = ShownOf(p, d)
<1>1. tipped[p] = Past(p) /\ final[p] = Past(p)
  BY DEF Past, Clocks, TypeOK, WorldTypeOK, Days
<1>2. CASE lock[p] # NoGame
  BY <1>1, <1>2 DEF Counted, LocksHold
<1>3. CASE lock[p] = NoGame /\ tipped[p] = {}
  BY <1>1, <1>3
<1>4. CASE lock[p] = NoGame /\ tipped[p] # {}
  <2>1. IsLastPast(p, Latest(p))
    BY <1>1, <1>4, MaxDayIsLast DEF IsLastPast, Latest, TypeOK, WorldTypeOK
  <2>2. Counted(p, partial) = ShownOf(p, Latest(p))
    BY <1>1, <1>4, <2>1 DEF Counted, IsLastPast, ShownOf
  <2>3. QED
    BY <2>1, <2>2 DEF IsLastPast
<1>5. QED
  BY <1>2, <1>3, <1>4

LEMMA SamePollEvidence ==
    ASSUME UNCHANGED world, UNCHANGED poll, PollTruth, PollFrozen, PollTips
    PROVE  PollTruth' /\ PollFrozen' /\ PollTips'
BY DEF PollTruth, PollFrozen, PollTips, IsLastPast, ShownOf, Past, ThisMorning, world

LEMMA SameBoxEvidence ==
    ASSUME UNCHANGED world, box' = box, run'.statsAt = run.statsAt, BoxFaithful
    PROVE  BoxFaithful'
BY DEF BoxFaithful, Faithful, ThisMorning, world

LEMMA EvidenceFetched ==
    ASSUME TypeOK, Evidence, NEW partial \in Partials, NEW absent \in SUBSET Players,
           FetchStats(partial, absent)
    PROVE  Evidence'
<1>1. /\ UNCHANGED world /\ run' = run /\ box' = box /\ poll' = poll
      /\ ingest'.statsAt = Stamp
      /\ \A p \in Players : ingest'.stats[p] = StatsRows(p, partial, absent)
  BY DEF FetchStats, tables
<1>2. Clocks' /\ LocksHold' /\ Stamp' = Stamp /\ ThisMorning' = ThisMorning
  BY <1>1, SameWorldEvidence DEF Evidence
<1>3. StampsPast'
  <2>1. Stamp \in Int
    BY StampType
  <2>2. QED
    BY <1>1, <1>2, <2>1 DEF Evidence, StampsPast
<1>4. StatsFaithful'
  <2>1. SUFFICES ASSUME Stamp = ThisMorning, NEW p \in Players
                 PROVE  Faithful(ingest.stats[p], p)'
    BY <1>1, <1>2 DEF StatsFaithful
  <2>2. Faithful(StatsRows(p, partial, absent), p)
    BY <2>1, MorningStamp, FetchedRowsFaithful DEF Evidence
  <2>3. QED
    BY <1>1, <2>2 DEF Faithful, world
<1>5. QED
  BY <1>1, <1>2, <1>3, <1>4, SamePollEvidence, SameBoxEvidence DEF Evidence

LEMMA EvidencePolled ==
    ASSUME TypeOK, Evidence, NEW partial \in Partials, NEW silent \in SUBSET Players,
           NEW whole \in BOOLEAN, PollMatchups(partial, silent, whole)
    PROVE  Evidence'
<1>1. /\ UNCHANGED world /\ box' = ingest.stats /\ run'.statsAt = ingest.statsAt
      /\ ingest.step = "fetched" /\ ingest'.step = "polled" /\ ingest'.statsAt = 0
      /\ poll'.at = Stamp
      /\ poll'.counted = [p \in Players \ silent |-> Counted(p, partial)]
      /\ poll'.tippedToday = {p \in Players : today \in tipped[p]}
  BY DEF PollMatchups, NoIngest
<1>2. Clocks' /\ LocksHold' /\ Stamp' = Stamp /\ ThisMorning' = ThisMorning
  BY <1>1, SameWorldEvidence DEF Evidence
<1>3. StampsPast' /\ StatsFaithful'
  BY <1>1, <1>2, StampType DEF Evidence, StampsPast, StatsFaithful
<1>4. BoxFaithful'
  BY <1>1, <1>2 DEF Evidence, StatsFaithful, BoxFaithful, Faithful, world
<1>5. PollTruth'
  <2>1. SUFFICES ASSUME Stamp = ThisMorning, NEW p \in Players \ silent,
                        today \notin tipped[p]
                 PROVE  \/ lock[p] \in Past(p) /\ Counted(p, partial) = outcome[p][lock[p]].score
                        \/ Past(p) = {}
                        \/ \E d \in Past(p) :
                              /\ IsLastPast(p, d)
                              /\ Counted(p, partial) = ShownOf(p, d)
    BY <1>1, <1>2 DEF PollTruth, IsLastPast, ShownOf, Past, world
  <2>2. QED
    BY <2>1, MorningStamp, PolledValue DEF Evidence
<1>6. PollFrozen'
  BY <1>1, <1>2 DEF PollFrozen, Counted, Past, world
<1>7. PollTips'
  BY <1>1, <1>2 DEF PollTips, world
<1>8. QED
  BY <1>2, <1>3, <1>4, <1>5, <1>6, <1>7 DEF Evidence

LEMMA EvidenceIngest == ASSUME TypeOK, Evidence, IngestStep PROVE Evidence'
<1>1. ASSUME FinishIngest \/ IngestDies PROVE Evidence'
  <2>1. /\ UNCHANGED world /\ box' = box /\ poll' = poll
        /\ run'.statsAt = run.statsAt /\ ingest'.statsAt = 0 /\ ingest'.step = "idle"
    <3>1. CASE FinishIngest
      BY <3>1 DEF FinishIngest, NoIngest, TypeOK, BoxTypeOK
    <3>2. CASE IngestDies
      BY <3>2 DEF IngestDies, NoIngest, tables
    <3>3. QED
      BY <1>1, <3>1, <3>2
  <2>2. Clocks' /\ LocksHold' /\ Stamp' = Stamp
    BY <2>1, SameWorldEvidence DEF Evidence
  <2>3. StampsPast' /\ StatsFaithful'
    BY <2>1, <2>2, StampType DEF Evidence, StampsPast, StatsFaithful
  <2>4. QED
    BY <2>1, <2>2, <2>3, SamePollEvidence, SameBoxEvidence DEF Evidence
<1>2. QED
  BY <1>1, EvidenceFetched, EvidencePolled DEF IngestStep

LEMMA EvidenceSame == ASSUME Evidence, UNCHANGED <<world, ingest, tables>> PROVE Evidence'
<1>1. UNCHANGED <<world, ingest, run, box, poll>>
  BY DEF tables
<1>2. StampsPast' /\ StatsFaithful'
  BY <1>1 DEF Evidence, StampsPast, StatsFaithful, Faithful, Stamp, ThisMorning, world
<1>3. QED
  BY <1>1, <1>2, SameWorldEvidence, SamePollEvidence, SameBoxEvidence DEF Evidence

LEMMA EvidenceInit == Init => Evidence
BY NDaysAssumption
   DEF Init, Evidence, Clocks, LocksHold, StampsPast, BoxFaithful, StatsFaithful,
       PollTruth, PollFrozen, PollTips, Stamp, ThisMorning, NoIngest, NoPoll, NoRows, NoGame, Days
-----------------------------------------------------------------------------
\* The digest. Past every refusal, what it has seen is the truth of the past.

LEMMA NothingRefused ==
    ASSUME Refusal(FALSE) = "none"
    PROVE  slateFinal /\ StatsEvidence /\ poll.whole /\ Unsettled = {}
BY DEF Refusal

LEMMA SeenIsPast ==
    ASSUME TypeOK, Evidence, Refusal(FALSE) = "none", NEW p \in Players
    PROVE  /\ DOMAIN Seen(p) = Past(p)
           /\ \A d \in Past(p) : Seen(p)[d] = outcome[p][d] /\ d \in final[p]
<1>1. slateFinal /\ StatsEvidence /\ Unsettled = {}
  BY NothingRefused
<1>2. run.statsAt = ThisMorning
  <2>1. run.statsAt >= ThisMorning
    BY <1>1 DEF StatsEvidence, SlateFinalAt, KnownThrough, ThisMorning, TypeOK, WorldTypeOK, Days
  <2>2. run.statsAt <= Stamp /\ run.statsAt \in Nat /\ Stamp \in Nat /\ ThisMorning \in Nat
    BY StampType, NDaysAssumption
       DEF Evidence, StampsPast, TypeOK, WorldTypeOK, BoxTypeOK, Days, ThisMorning
  <2>3. QED
    BY <2>1, <2>2, MorningStamp
<1>3. Faithful(box[p], p)
  BY <1>2 DEF Evidence, BoxFaithful
<1>4. /\ today \in Nat /\ tipped[p] \subseteq Nat /\ schedule[p] \subseteq Nat
      /\ DOMAIN box[p] \subseteq Nat
  BY NDaysAssumption DEF TypeOK, WorldTypeOK, BoxTypeOK, IsPartial, Days
<1>5. \A d \in DOMAIN Seen(p) : d \in Past(p) /\ Seen(p)[d] = outcome[p][d]
  BY <1>3, <1>4 DEF Seen, KnownThrough, Faithful, Past
<1>6. ASSUME NEW d \in Past(p) PROVE d \in DOMAIN Seen(p)
  <2>1. CASE d < today - 1
    BY <1>3, <1>4, <2>1 DEF Past, Faithful, Seen, KnownThrough
  <2>2. CASE d = today - 1
    <3>1. d \in schedule[p]
      BY DEF Past, Evidence, Clocks
    <3>2. QED
      BY <1>1, <2>2, <3>1 DEF Unsettled, KnownThrough
  <2>3. QED
    BY <1>4, <2>1, <2>2 DEF Past
<1>7. \A d \in Past(p) : d \in final[p]
  BY <1>1, <1>4 DEF Past, Evidence, Clocks
<1>8. QED
  BY <1>5, <1>6, <1>7

LEMMA PollOfTheMorning ==
    ASSUME TypeOK, Evidence, PollUsable
    PROVE  poll.at = ThisMorning
<1>1. poll.at >= ThisMorning
  BY DEF PollUsable, SlateFinalAt, KnownThrough, ThisMorning, TypeOK, WorldTypeOK, Days
<1>2. poll.at <= Stamp /\ poll.at \in Nat /\ Stamp \in Nat /\ ThisMorning \in Nat
  BY StampType, NDaysAssumption
     DEF Evidence, StampsPast, TypeOK, WorldTypeOK, PollTypeOK, Days, ThisMorning
<1>3. QED
  BY <1>1, <1>2, MorningStamp

LEMMA LastSeen ==
    ASSUME TypeOK, Evidence, Refusal(FALSE) = "none", NEW p \in Players,
           NEW d, IsLastPast(p, d)
    PROVE  LastDay(Seen(p)) = d
<1>1. /\ LastDay(Seen(p)) \in Past(p) /\ d \in Past(p)
      /\ \A e \in Past(p) : e <= LastDay(Seen(p)) /\ e <= d
  BY SeenIsPast, SeenType DEF IsLastPast
<1>2. Past(p) \subseteq Nat
  BY NDaysAssumption DEF Past, TypeOK, WorldTypeOK, Days
<1>3. QED
  BY <1>1, <1>2

\* A poll of the morning that a game rides out is read as undecided, so that a
\* player read as banked has locked.
LEMMA ReadBankedIsLocked ==
    ASSUME TypeOK, Evidence, Refusal(FALSE) = "none", PollUsable,
           NEW p \in Read("banked"), p \notin poll.tippedToday,
           Past(p) \subseteq slotted[p]
    PROVE  lock[p] \in final[p] /\ poll.counted[p] = outcome[p][lock[p]].score
<1>1. /\ p \in Players /\ p \in DOMAIN poll.counted /\ DOMAIN Seen(p) # {}
      /\ Reading(poll.counted[p], Seen(p)) = "banked"
  BY DEF Read, Lineup
<1>2. \/ lock[p] \in Past(p) /\ poll.counted[p] = outcome[p][lock[p]].score
      \/ Past(p) = {}
      \/ \E d \in Past(p) :
            /\ IsLastPast(p, d)
            /\ poll.counted[p] = ShownOf(p, d)
  BY <1>1, PollOfTheMorning DEF Evidence, PollTruth
<1>3. Past(p) # {}
  BY <1>1, SeenIsPast
<1>4. ASSUME NEW d \in Past(p), IsLastPast(p, d), poll.counted[p] = outcome[p][d].score
      PROVE  FALSE
  <2>1. LastDay(Seen(p)) = d /\ Seen(p)[d] = outcome[p][d]
    BY <1>1, <1>4, LastSeen, SeenIsPast
  <2>2. ~outcome[p][d].played => outcome[p][d].score = 0
    BY <1>1, OutcomeType DEF Past, TypeOK, WorldTypeOK
  <2>3. Rides(poll.counted[p], Seen(p))
    BY <1>4, <2>1, <2>2 DEF Rides, RideScore
  <2>4. QED
    BY <1>1, <2>3, RideIsNeverBanked
<1>5. lock[p] \in Past(p) /\ poll.counted[p] = outcome[p][lock[p]].score
  BY <1>2, <1>3, <1>4 DEF ShownOf
<1>6. QED
  BY <1>1, <1>5, SeenIsPast

LEMMA CallNames ==
    ASSUME NEW source, NEW banked, NEW untimed, NEW locks,
           NEW c \in Calls(source, banked, untimed, locks)
    PROVE  /\ c.p \in Lineup /\ c.p \in Players /\ c.p \notin DOMAIN banked
           /\ c.day = LastDay(Seen(c.p)) /\ DOMAIN Seen(c.p) # {}
           /\ Seen(c.p)[c.day].played
BY DEF Calls, Callable, Lineup

\* A call over a lock whose window had closed: the poll shows the lock, and an
\* earlier lock is banked or flagged.
LEMMA CalledOverClosedLock ==
    ASSUME TypeOK, Evidence, Refusal(FALSE) = "none", PollUsable, Unresolved = {},
           NEW untimed, NEW locks,
           NEW c \in Calls("inferred", InferredBank, untimed, locks),
           lock[c.p] # NoGame, lock[c.p] < c.day
    PROVE  c.p \in Read("ambiguous")
<1> DEFINE p == c.p
           G == Seen(p)
           L == lock[p]
<1>1. /\ p \in Lineup /\ p \in Players /\ p \notin DOMAIN InferredBank
      /\ c.day = LastDay(G) /\ DOMAIN G # {} /\ G[c.day].played
  BY CallNames
<1>2. DOMAIN G = Past(p) /\ \A d \in Past(p) : G[d] = outcome[p][d]
  BY <1>1, SeenIsPast
<1>3. c.day \in Past(p)
  BY <1>1, <1>2, SeenType
<1>4. L \in Past(p) /\ outcome[p][L].played
  <2>1. L \in final[p] /\ outcome[p][L].played
    BY <1>1 DEF Evidence, LocksHold
  <2>2. L \in tipped[p]
    BY <1>1, <2>1 DEF Evidence, Clocks
  <2>3. L \in Nat /\ c.day \in Nat /\ today \in Nat /\ c.day < today
    BY <1>1, <1>3, <2>2, NDaysAssumption DEF Past, TypeOK, WorldTypeOK, Days
  <2>4. QED
    BY <2>1, <2>2, <2>3 DEF Past
<1>5. p \in DOMAIN poll.counted
  <2>1. c.day \in DOMAIN G /\ G[c.day].played
    BY <1>1, <1>2, <1>3
  <2>2. QED
    BY <1>1, <2>1 DEF Unresolved
<1>6. poll.counted[p] = G[L].score
  BY <1>2, <1>3, <1>4, <1>5, PollOfTheMorning DEF Evidence, PollFrozen
<1>7. Reading(poll.counted[p], G) \in {"banked", "ambiguous"}
  <2>1. L \in DOMAIN G /\ G[L].played
    BY <1>2, <1>4
  <2>2. L \in Nat /\ L # LastDay(G)
    BY <1>1, <1>4, NDaysAssumption DEF Past, TypeOK, WorldTypeOK, Days
  <2>3. Reading(G[L].score, G) \in {"banked", "ambiguous"}
    BY <2>1, <2>2, EarlierLockIsSeen
  <2>4. QED
    BY <1>6, <2>3
<1>8. Reading(poll.counted[p], G) # "banked"
  BY <1>1, <1>5 DEF InferredBank, Read
<1>9. QED
  BY <1>1, <1>5, <1>7, <1>8 DEF Read
LEMMA SuppliedBank ==
    ASSUME TypeOK, Evidence, NEW p \in Players, lock[p] # NoGame
    PROVE  lock[p] \in final[p]
BY DEF Evidence, LocksHold

\* No report, no claim.
LEMMA NoReportSafe == ASSUME digest' = NoDigest PROVE BankedIsLocked' /\ ClosedLockNotRecalled'
BY DEF NoDigest, NoRows, BankedIsLocked, ClosedLockNotRecalled

LEMMA DeclineSafe ==
    ASSUME NEW source, NEW note, Decline(source, note)
    PROVE  BankedIsLocked' /\ ClosedLockNotRecalled'
BY DEF Decline, Deliver, NoDigest, NoRows, BankedIsLocked, ClosedLockNotRecalled

LEMMA InferredSafe ==
    ASSUME TypeOK, Evidence, NEW untimed \in SUBSET Players, NEW locks \in SUBSET Players,
           AdviseInferred(untimed, locks)
    PROVE  BankedIsLocked' /\ ClosedLockNotRecalled'
<1>1. /\ PollUsable /\ Unresolved = {} /\ Refusal(FALSE) = "none"
      /\ UNCHANGED world
      /\ digest'.asOf = today /\ digest'.source = "inferred"
      /\ digest'.banked = InferredBank /\ digest'.ambiguous = Read("ambiguous")
      /\ digest'.calls = Calls("inferred", InferredBank, untimed, locks)
      /\ digest'.tippedAtPoll = poll.tippedToday
  BY DEF AdviseInferred, Advise, Deliver
<1>2. BankedIsLocked'
  <2>1. SUFFICES ASSUME NEW p \in Read("banked"), p \notin poll.tippedToday,
                        {d \in tipped[p] : d < today} \subseteq slotted[p]
                 PROVE  lock[p] \in final[p] /\ poll.counted[p] = outcome[p][lock[p]].score
    BY <1>1 DEF BankedIsLocked, HeldSlot, InferredBank, world
  <2>2. QED
    BY <1>1, <2>1, ReadBankedIsLocked DEF Past
<1>3. ClosedLockNotRecalled'
  BY <1>1, CalledOverClosedLock DEF ClosedLockNotRecalled, world
<1>4. QED
  BY <1>2, <1>3

LEMMA SuppliedSafe ==
    ASSUME TypeOK, Evidence, NEW untimed \in SUBSET Players, NEW locks \in SUBSET Players,
           AdviseSupplied(untimed, locks)
    PROVE  BankedIsLocked' /\ ClosedLockNotRecalled'
<1> DEFINE bank == [p \in {q \in Lineup : lock[q] # NoGame} |-> outcome[p][lock[p]].score]
<1>1. /\ UNCHANGED world /\ digest'.banked = bank
      /\ digest'.calls = Calls("supplied", bank, untimed, locks)
  BY DEF AdviseSupplied, Advise, Deliver
<1>2. BankedIsLocked'
  BY <1>1, SuppliedBank DEF BankedIsLocked, Lineup, world
<1>3. ASSUME NEW c \in Calls("supplied", bank, untimed, locks), lock[c.p] # NoGame
      PROVE  FALSE
  BY <1>3, CallNames
<1>4. ClosedLockNotRecalled'
  BY <1>1, <1>3 DEF ClosedLockNotRecalled, world
<1>5. QED
  BY <1>2, <1>4

LEMMA DigestSafe ==
    ASSUME TypeOK, Evidence, Digest PROVE BankedIsLocked' /\ ClosedLockNotRecalled'
BY DeclineSafe, InferredSafe, SuppliedSafe DEF Digest, Refuse, RefuseUnread, Abstain

-----------------------------------------------------------------------------
\* Repeats, and what a digest leaves uncalled.

\* What FirstSaid finds is a call that was said, on an earlier morning.
LEMMA FirstSaidIsSaid ==
    ASSUME TypeOK, NEW p \in Players, NEW d \in Days, FirstSaid(p, d) # NoGame
    PROVE  /\ [p |-> p, day |-> d, asOf |-> FirstSaid(p, d)] \in said
           /\ FirstSaid(p, d) < today
<1> DEFINE mornings == {c.asOf : c \in {x \in said : x.p = p /\ x.day = d /\ x.asOf < today}}
<1>1. mornings \in SUBSET Nat
  BY NDaysAssumption DEF TypeOK, DigestTypeOK, Days
<1>2. FirstSaid(p, d) \in mornings
  <2>1. /\ mornings # {}
        /\ FirstSaid(p, d) = CHOOSE m \in mornings : \A n \in mornings : m <= n
    BY DEF FirstSaid
  <2> HIDE DEF mornings
  <2>2. \E m \in mornings : \A n \in mornings : m <= n
    BY <1>1, <2>1, LeastNat
  <2>3. QED
    BY <2>1, <2>2
<1>3. PICK c \in said : c.p = p /\ c.day = d /\ c.asOf < today /\ c.asOf = FirstSaid(p, d)
  BY <1>2
<1>4. c = [p |-> p, day |-> d, asOf |-> FirstSaid(p, d)]
  BY <1>3 DEF TypeOK, DigestTypeOK
<1>5. QED
  BY <1>3, <1>4

\* A call is on the last of the past games, which nothing has followed: its window
\* is open, and the row it goes by is the game's.
LEMMA CallIsOpen ==
    ASSUME TypeOK, Evidence, Refusal(FALSE) = "none",
           NEW source, NEW banked, NEW untimed, NEW locks,
           NEW c \in Calls(source, banked, untimed, locks)
    PROVE  /\ c.p \in Players /\ c.day \in Past(c.p)
           /\ tipped[c.p] = Past(c.p) /\ c.day = Latest(c.p) /\ c.day \in final[c.p]
           /\ \A e \in Past(c.p) : e <= c.day
           /\ outcome[c.p][c.day] = [played |-> TRUE, score |-> c.score]
<1> DEFINE p == c.p
<1>1. /\ p \in Players /\ c.day = LastDay(Seen(p)) /\ DOMAIN Seen(p) # {}
      /\ Seen(p)[c.day].played /\ c.score = Seen(p)[c.day].score /\ ~Shut(p)
  BY DEF Calls, Callable, Lineup
<1> HIDE DEF p
<1>2. DOMAIN Seen(p) = Past(p) /\ \A d \in Past(p) : Seen(p)[d] = outcome[p][d] /\ d \in final[p]
  BY <1>1, SeenIsPast
<1>3. /\ c.day \in Past(p) /\ \A e \in Past(p) : e <= c.day
      /\ Seen(p)[c.day] \in Game
  BY <1>1, <1>2, SeenType
<1>4. tipped[p] = Past(p)
  <2>1. ASSUME NEW d \in tipped[p], ~(d < today) PROVE FALSE
    <3>1. d \in Ahead(p)
      BY <1>1, <2>1, NDaysAssumption
         DEF Ahead, KnownThrough, Evidence, Clocks, TypeOK, WorldTypeOK, Days
    <3>2. QED
      BY <1>1, <2>1, <3>1 DEF Shut
  <2>2. QED
    BY <2>1 DEF Past
<1>5. c.day = Latest(p)
  <2>1. /\ Latest(p) \in Past(p) /\ \A e \in Past(p) : e <= Latest(p)
    <3>1. tipped[p] \in SUBSET Days /\ tipped[p] # {}
      BY <1>1, <1>3, <1>4 DEF TypeOK, WorldTypeOK
    <3>2. QED
      BY <1>4, <3>1, MaxDayIsLast DEF Latest
  <2>2. Past(p) \subseteq Nat
    BY <1>1, NDaysAssumption DEF Past, TypeOK, WorldTypeOK, Days
  <2>3. QED
    BY <1>3, <2>1, <2>2
<1>6. outcome[p][c.day] = [played |-> TRUE, score |-> c.score]
  BY <1>1, <1>2, <1>3 DEF Game
<1>7. QED
  BY <1>1, <1>2, <1>3, <1>4, <1>5, <1>6 DEF p

LEMMA CallRepeats ==
    ASSUME TypeOK, Evidence, SaidAfter, Refusal(FALSE) = "none",
           NEW source, NEW banked, NEW untimed, NEW locks,
           NEW c \in Calls(source, banked, untimed, locks), c.saidOn # NoGame
    PROVE  /\ c.day < c.saidOn /\ c.saidOn < today
           /\ \A d \in schedule[c.p] : d <= c.day \/ d >= today
           /\ [p |-> c.p, day |-> c.day, asOf |-> c.saidOn] \in said
<1>1. /\ c.p \in Players /\ c.day \in Past(c.p) /\ \A e \in Past(c.p) : e <= c.day
  BY CallIsOpen
<1>2. c.saidOn = FirstSaid(c.p, c.day) /\ c.day \in Days
  BY <1>1 DEF Calls, Past, TypeOK, WorldTypeOK
<1>3. [p |-> c.p, day |-> c.day, asOf |-> c.saidOn] \in said /\ c.saidOn < today
  BY <1>1, <1>2, FirstSaidIsSaid
<1>4. c.day < c.saidOn
  BY <1>3 DEF SaidAfter
<1>5. ASSUME NEW d \in schedule[c.p] PROVE d <= c.day \/ d >= today
  <2>1. d \in Int /\ today \in Int
    BY <1>1, NDaysAssumption DEF TypeOK, WorldTypeOK, Days
  <2>2. d < today => d \in Past(c.p)
    BY <1>1 DEF Evidence, Clocks, Past
  <2>3. QED
    BY <1>1, <2>1, <2>2
<1>6. QED
  BY <1>3, <1>4, <1>5

LEMMA NoReportRepeats ==
    ASSUME SaidAfter, digest' = NoDigest, said' = said
    PROVE  SaidAfter' /\ RepeatIsSameWindow'
BY DEF SaidAfter, NoDigest, RepeatIsSameWindow

LEMMA AdviseRepeats ==
    ASSUME TypeOK, Evidence, SaidAfter,
           NEW source, NEW banked, NEW ambiguous, NEW untimed, NEW locks,
           Advise(source, banked, ambiguous, untimed, locks)
    PROVE  SaidAfter' /\ RepeatIsSameWindow'
<1> DEFINE calls == Calls(source, banked, untimed, locks)
<1>1. /\ Refusal(FALSE) = "none" /\ UNCHANGED world
      /\ digest'.asOf = today /\ digest'.calls = calls
      /\ said' = said \cup {[p |-> c.p, day |-> c.day, asOf |-> today] : c \in {x \in calls : x.lock}}
  BY DEF Advise, Deliver
<1>2. \A c \in calls : c.day < today
  BY <1>1, CallIsOpen DEF Past
<1>3. \A c \in calls : c.saidOn # NoGame =>
         /\ c.day < c.saidOn /\ c.saidOn < today
         /\ \A d \in schedule[c.p] : d <= c.day \/ d >= today
         /\ [p |-> c.p, day |-> c.day, asOf |-> c.saidOn] \in said
  BY <1>1, CallRepeats
<1> HIDE DEF calls
<1>4. SaidAfter'
  BY <1>1, <1>2 DEF SaidAfter
<1>5. RepeatIsSameWindow'
  BY <1>1, <1>3 DEF RepeatIsSameWindow, world
<1>6. QED
  BY <1>4, <1>5

LEMMA DigestRepeats ==
    ASSUME TypeOK, Evidence, SaidAfter, Digest PROVE SaidAfter' /\ RepeatIsSameWindow'
<1>1. ASSUME NEW source, NEW note, Decline(source, note)
      PROVE  SaidAfter' /\ RepeatIsSameWindow'
  <2>1. digest'.calls = {} /\ said' = said
    BY <1>1 DEF Decline, Deliver, NoDigest
  <2>2. QED
    BY <2>1 DEF SaidAfter, RepeatIsSameWindow
<1>2. QED
  BY <1>1, AdviseRepeats DEF Digest, Refuse, RefuseUnread, Abstain, AdviseInferred, AdviseSupplied

\* A player on whom a poll of before his tip is not silent is explained: he locked,
\* or counts his last game, or sat it out.
LEMMA PollExplained ==
    ASSUME TypeOK, Evidence, Refusal(FALSE) = "none", PollUsable,
           NEW p \in Players, p \in DOMAIN poll.counted \ poll.tippedToday,
           DOMAIN Seen(p) # {}
    PROVE  Reading(poll.counted[p], Seen(p)) # "unresolved"
<1> DEFINE counted == poll.counted[p]
           G == Seen(p)
<1>1. DOMAIN G = Past(p) /\ \A d \in Past(p) : G[d] = outcome[p][d]
  BY SeenIsPast
<1>2. LastDay(G) \in DOMAIN G
  BY SeenType
<1>3. \/ lock[p] \in Past(p) /\ counted = outcome[p][lock[p]].score
      \/ \E d \in Past(p) : IsLastPast(p, d) /\ counted = ShownOf(p, d)
  BY <1>1, PollOfTheMorning DEF Evidence, PollTruth
<1>4. CASE lock[p] \in Past(p) /\ counted = outcome[p][lock[p]].score
  <2>1. lock[p] # NoGame
    BY <1>4, NDaysAssumption DEF Past, TypeOK, WorldTypeOK, Days, NoGame
  <2>2. lock[p] \in DOMAIN G /\ G[lock[p]].played /\ counted = G[lock[p]].score
    BY <1>1, <1>4, <2>1 DEF Evidence, LocksHold
  <2>3. CASE lock[p] # LastDay(G)
    BY <2>2, <2>3, EarlierLockIsSeen
  <2>4. CASE lock[p] = LastDay(G)
    <3>1. Rides(counted, G)
      BY <2>2, <2>4 DEF Rides, RideScore
    <3>2. QED
      BY <3>1, RideIsNeverBanked
  <2>5. QED
    BY <2>3, <2>4
<1>5. ASSUME NEW d \in Past(p), IsLastPast(p, d), counted = ShownOf(p, d)
      PROVE  Reading(counted, G) # "unresolved"
  <2>1. CASE d \in slotted[p]
    <3>1. LastDay(G) = d /\ G[d] = outcome[p][d] /\ counted = outcome[p][d].score
      BY <1>1, <1>5, <2>1, LastSeen DEF ShownOf
    <3>2. ~outcome[p][d].played => outcome[p][d].score = 0
      BY OutcomeType DEF Past, TypeOK, WorldTypeOK
    <3>3. Rides(counted, G)
      BY <3>1, <3>2 DEF Rides, RideScore
    <3>4. QED
      BY <3>3, RideIsNeverBanked
  <2>2. CASE d \notin slotted[p]
    BY <1>5, <2>2, ZeroIsExplained DEF ShownOf
  <2>3. QED
    BY <2>1, <2>2
<1>6. QED
  BY <1>3, <1>4, <1>5

\* Whoever can still be locked on an earlier night's game has not been banked.
LEMMA OpenIsNotBanked ==
    ASSUME TypeOK, Evidence, Refusal(FALSE) = "none", PollUsable, NEW p \in Players,
           Lockable(p), lock[p] = NoGame, Latest(p) < today
    PROVE  /\ IsLastPast(p, Latest(p)) /\ tipped[p] = Past(p)
           /\ p \notin DOMAIN InferredBank
<1> DEFINE d == Latest(p)
<1>1. d \in tipped[p] /\ (\A e \in tipped[p] : e <= d) /\ tipped[p] \subseteq Nat
  BY MaxDayIsLast, NDaysAssumption DEF Lockable, Latest, TypeOK, WorldTypeOK, Days
<1>2. d \in slotted[p] /\ outcome[p][d].played
  BY DEF Lockable
<1> HIDE DEF d
<1>3. today \in Nat
  BY NDaysAssumption DEF TypeOK, WorldTypeOK, Days
<1>4. tipped[p] = Past(p) /\ today \notin tipped[p]
  BY <1>1, <1>3 DEF Past, d
<1>5. IsLastPast(p, d)
  BY <1>1, <1>4 DEF IsLastPast
<1>6. ASSUME p \in Read("banked") PROVE FALSE
  <2>1. p \in DOMAIN poll.counted /\ DOMAIN Seen(p) # {} /\ Reading(poll.counted[p], Seen(p)) = "banked"
    BY <1>6 DEF Read
  <2>2. p \notin poll.tippedToday
    BY <1>4, PollOfTheMorning DEF Evidence, PollTips
  <2>3. lock[p] \notin Past(p)
    BY NDaysAssumption DEF Past, TypeOK, WorldTypeOK, Days, NoGame
  <2>4. PICK e \in Past(p) : IsLastPast(p, e) /\ poll.counted[p] = ShownOf(p, e)
    BY <1>5, <2>1, <2>2, <2>3, PollOfTheMorning DEF Evidence, PollTruth, IsLastPast
  <2>5. e = d
    BY <1>1, <1>4, <1>5, <2>4 DEF IsLastPast
  <2>6. LastDay(Seen(p)) = d /\ Seen(p)[d] = outcome[p][d]
    BY <1>5, LastSeen, SeenIsPast DEF IsLastPast
  <2>7. Rides(poll.counted[p], Seen(p))
    BY <1>2, <2>4, <2>5, <2>6 DEF Rides, RideScore, ShownOf
  <2>8. QED
    BY <2>1, <2>7, RideIsNeverBanked
<1>7. QED
  BY <1>4, <1>5, <1>6 DEF InferredBank, d
-----------------------------------------------------------------------------
\* The invariant is inductive.

LEMMA InitInv == Init => IInv
<1>1. ASSUME Init PROVE /\ BankedIsLocked /\ ClosedLockNotRecalled
                        /\ SaidAfter /\ RepeatIsSameWindow
  BY <1>1 DEF Init, NoDigest, NoRows, BankedIsLocked, ClosedLockNotRecalled, SaidAfter,
              RepeatIsSameWindow
<1>2. QED
  BY <1>1, InitType, EvidenceInit DEF IInv

LEMMA NextInv == ASSUME IInv, [Next]_vars PROVE IInv'
<1>1. TypeOK /\ Evidence /\ BankedIsLocked /\ ClosedLockNotRecalled /\ SaidAfter /\ RepeatIsSameWindow
  BY DEF IInv
<1>2. TypeOK'
  BY <1>1, NextIsStep, WorldType, IngestType, DigestType, StutterType
<1>3. CASE WorldStep
  <2>1. digest' = NoDigest /\ said' = said
    BY <1>3 DEF WorldStep, Tip, Finish, LockGame, Midnight, SlateCompletes, NoReport
  <2>2. QED
    BY <1>1, <1>2, <1>3, <2>1, EvidenceWorld, NoReportSafe, NoReportRepeats DEF IInv
<1>4. CASE IngestStep
  <2>1. digest' = NoDigest /\ said' = said
    BY <1>4 DEF IngestStep, FetchStats, PollMatchups, FinishIngest, IngestDies, NoReport
  <2>2. QED
    BY <1>1, <1>2, <1>4, <2>1, EvidenceIngest, NoReportSafe, NoReportRepeats DEF IInv
<1>5. CASE Digest
  <2>1. UNCHANGED <<world, ingest, tables>>
    BY <1>5 DEF Digest, Refuse, RefuseUnread, AdviseInferred, AdviseSupplied,
                Advise, Abstain, Decline, Deliver
  <2>2. QED
    BY <1>1, <1>2, <1>5, <2>1, EvidenceSame, DigestSafe, DigestRepeats DEF IInv
<1>6. CASE UNCHANGED vars
  <2>1. UNCHANGED <<world, ingest, tables, digest, said>>
    BY <1>6 DEF vars
  <2>2. Evidence'
    BY <1>1, <2>1, EvidenceSame
  <2>3. BankedIsLocked' /\ ClosedLockNotRecalled'
    BY <1>1, <2>1 DEF BankedIsLocked, ClosedLockNotRecalled, HeldSlot, world
  <2>4. SaidAfter' /\ RepeatIsSameWindow'
    BY <1>1, <2>1 DEF SaidAfter, RepeatIsSameWindow, world
  <2>5. QED
    BY <1>2, <2>2, <2>3, <2>4 DEF IInv
<1>7. QED
  BY <1>3, <1>4, <1>5, <1>6, NextIsStep

\* The strengthening itself: what the tables are evidence of, at every moment.
THEOREM Invariance == Spec => []IInv
BY InitInv, NextInv, PTL DEF Spec

\* Whoever a digest counts as banked, from a poll that predates his tip of the
\* day, has locked that score on Sleeper by the time the digest speaks.
THEOREM NoPhantomBank == Spec => []BankedIsLocked
<1>1. IInv => BankedIsLocked
  BY DEF IInv
<1>2. QED
  BY <1>1, Invariance, PTL

\* No digest calls a game over a lock whose window had closed, but for the tie it
\* warns of.
THEOREM NoCallOverALock == Spec => []ClosedLockNotRecalled
<1>1. IInv => ClosedLockNotRecalled
  BY DEF IInv
<1>2. QED
  BY <1>1, Invariance, PTL
\* A call repeated on a later morning was first made on the morning it names, in
\* the same window: no game of his has come between (runs.earlier_lock_calls).
THEOREM RepeatsNameTheirWindow == Spec => []RepeatIsSameWindow
<1>1. IInv => RepeatIsSameWindow
  BY DEF IInv
<1>2. QED
  BY <1>1, Invariance, PTL

\* What advice reports, and of what: either reading of the lock state.
LEMMA AdvisedReport ==
    ASSUME NEW source, NEW banked, NEW ambiguous, NEW untimed, NEW locks,
           Advise(source, banked, ambiguous, untimed, locks)
    PROVE  /\ Refusal(FALSE) = "none"
           /\ digest'.source = source /\ digest'.note = "none"
           /\ digest'.calls = Calls(source, banked, untimed, locks)
           /\ digest'.untimed = untimed \cap Callable(banked)
BY DEF Advise, Deliver

LEMMA ReadingReport ==
    ASSUME NEW untimed, NEW locks, AdviseInferred(untimed, locks) \/ AdviseSupplied(untimed, locks)
    PROVE  /\ Refusal(FALSE) = "none" /\ digest'.note = "none"
           /\ \E source, banked : digest'.calls = Calls(source, banked, untimed, locks)
           /\ AdviseSupplied(untimed, locks) => digest'.source = "supplied"
<1>1. CASE AdviseInferred(untimed, locks)
  <2>1. Advise("inferred", InferredBank, Read("ambiguous"), untimed, locks)
    BY <1>1 DEF AdviseInferred
  <2>2. /\ Refusal(FALSE) = "none" /\ digest'.note = "none"
        /\ digest'.calls = Calls("inferred", InferredBank, untimed, locks)
    BY <2>1 DEF Advise, Deliver
  <2>3. AdviseSupplied(untimed, locks) => digest'.source = "supplied"
    BY AdvisedReport DEF AdviseSupplied
  <2>4. QED
    BY <2>2, <2>3
<1>2. CASE AdviseSupplied(untimed, locks)
  <2> DEFINE bank == [p \in {q \in Lineup : lock[q] # NoGame} |-> outcome[p][lock[p]].score]
  <2>1. Advise("supplied", bank, {}, untimed, locks)
    BY <1>2 DEF AdviseSupplied
  <2> HIDE DEF bank
  <2>2. /\ Refusal(FALSE) = "none" /\ digest'.note = "none" /\ digest'.source = "supplied"
        /\ digest'.calls = Calls("supplied", bank, untimed, locks)
    BY <2>1 DEF Advise, Deliver
  <2>3. QED
    BY <2>2
<1>3. QED
  BY <1>1, <1>2

\* What any step's digest reports, where it is not the advice of an inferred or
\* supplied lock state.
LEMMA ReportKinds ==
    ASSUME Next
    PROVE  \/ digest' = NoDigest
           \/ digest'.calls = {} /\ digest'.source \in {"noted", "abstained"}
           \/ \E untimed, locks \in SUBSET Players :
                 AdviseInferred(untimed, locks) \/ AdviseSupplied(untimed, locks)
<1>1. CASE WorldStep
  BY <1>1 DEF WorldStep, Tip, Finish, LockGame, Midnight, SlateCompletes, NoReport
<1>2. CASE IngestStep
  BY <1>2 DEF IngestStep, FetchStats, PollMatchups, FinishIngest, IngestDies, NoReport
<1>3. ASSUME NEW source \in {"noted", "abstained"}, NEW note, Decline(source, note)
      PROVE  digest'.calls = {} /\ digest'.source \in {"noted", "abstained"}
  BY <1>3 DEF Decline, Deliver, NoDigest
<1>4. CASE Digest
  BY <1>3, <1>4 DEF Digest, Refuse, RefuseUnread, Abstain
<1>5. QED
  BY <1>1, <1>2, <1>4, NextIsStep

\* A call is on a finished game at its final score, with no tip of his since: the
\* digest never prices a half-played slate or a window already shut.
THEOREM CallsStayOpen == Spec => CallsAreOpen
<1> DEFINE Open(c) == /\ c.day = Latest(c.p) /\ c.day \in final[c.p] /\ c.day < today
                      /\ outcome[c.p][c.day] = [played |-> TRUE, score |-> c.score]
<1>1. ASSUME IInv, Next, NEW c \in digest'.calls PROVE Open(c)
  <2>1. TypeOK /\ Evidence
    BY <1>1 DEF IInv
  <2>2. PICK untimed, locks \in SUBSET Players :
           AdviseInferred(untimed, locks) \/ AdviseSupplied(untimed, locks)
    BY <1>1, ReportKinds DEF NoDigest
  <2>3. PICK source, banked :
           Refusal(FALSE) = "none" /\ c \in Calls(source, banked, untimed, locks)
    BY <1>1, <2>2, ReadingReport
  <2>4. QED
    BY <2>1, <2>3, CallIsOpen DEF Past
<1>2. IInv /\ [Next]_vars => [\A c \in digest'.calls : Open(c)]_vars
  BY <1>1
<1>3. QED
  BY <1>2, Invariance, PTL DEF Spec, CallsAreOpen

\* A poll that predates the day's tips and lists every starter is explained: the
\* digest asks for --locked only with cause (state.infer_state).
THEOREM AsksWithCause == Spec => UnclearHasCause
<1> DEFINE Cause == poll.tippedToday # {} \/ Players \ DOMAIN poll.counted # {}
<1>1. ASSUME IInv, Next, digest'.note = "lock state unclear" PROVE Cause
  <2>1. TypeOK /\ Evidence
    BY <1>1 DEF IInv
  <2>2. PollUsable /\ Unresolved # {} /\ Refusal(FALSE) = "none"
    <3>1. CASE WorldStep \/ IngestStep
      <4>1. digest' = NoDigest
        BY <3>1 DEF WorldStep, Tip, Finish, LockGame, Midnight, SlateCompletes,
                    IngestStep, FetchStats, PollMatchups, FinishIngest, IngestDies, NoReport
      <4>2. QED
        BY <1>1, <4>1 DEF NoDigest
    <3>2. ASSUME NEW source, NEW note, Decline(source, note) PROVE note = "lock state unclear"
      BY <1>1, <3>2 DEF Decline, Deliver, NoDigest
    <3>3. ASSUME NEW cold \in BOOLEAN, Refuse(cold) PROVE FALSE
      BY <3>2, <3>3 DEF Refuse, Abstain, Refusal
    <3>4. CASE RefuseUnread
      BY <3>2, <3>4 DEF RefuseUnread, Abstain
    <3>5. ASSUME NEW untimed, NEW locks, AdviseInferred(untimed, locks) \/ AdviseSupplied(untimed, locks)
          PROVE  FALSE
      BY <1>1, <3>5, ReadingReport
    <3>6. QED
      BY <1>1, <3>1, <3>3, <3>4, <3>5, NextIsStep DEF Digest
  <2>3. ASSUME ~Cause PROVE Unresolved = {}
    <3>1. poll.tippedToday = {} /\ Players \subseteq DOMAIN poll.counted
      BY <2>3
    <3>2. Read("unresolved") = {}
      BY <2>1, <2>2, <3>1, PollExplained DEF Read, Lineup
    <3>3. QED
      BY <3>1, <3>2 DEF Unresolved, Lineup
  <2>4. QED
    BY <2>2, <2>3
<1>2. IInv /\ [Next]_vars => [digest'.note = "lock state unclear" => Cause]_vars
  BY <1>1
<1>3. QED
  BY <1>2, Invariance, PTL DEF Spec, UnclearHasCause

\* Whoever can still be locked on a game of an earlier night, and has a game to
\* ride for, is called on it at its score, or has no tipoff to close the call with.
THEOREM OpenWindowsAreCalled == Spec => OpenWindowCalled
<1> DEFINE Due(p) == Lockable(p) /\ lock[p] = NoGame /\ Latest(p) < today /\ Ahead(p) # {}
           Called(p) == \/ p \in digest'.untimed
                        \/ \E c \in digest'.calls :
                              c.p = p /\ c.day = Latest(p) /\ c.score = outcome[p][c.day].score
<1>1. ASSUME IInv, Next, digest'.source = "inferred", NEW p \in Players, Due(p)
      PROVE  Called(p)
  <2>1. TypeOK /\ Evidence
    BY <1>1 DEF IInv
  <2>2. PICK untimed, locks \in SUBSET Players :
           AdviseInferred(untimed, locks) \/ AdviseSupplied(untimed, locks)
    BY <1>1, ReportKinds DEF NoDigest
  <2>3. AdviseInferred(untimed, locks)
    BY <1>1, <2>2, ReadingReport
  <2>4. /\ PollUsable /\ Refusal(FALSE) = "none"
        /\ digest'.untimed = untimed \cap Callable(InferredBank)
        /\ digest'.calls = Calls("inferred", InferredBank, untimed, locks)
    BY <2>3 DEF AdviseInferred, Advise, Deliver
  <2>5. /\ IsLastPast(p, Latest(p)) /\ tipped[p] = Past(p) /\ p \notin DOMAIN InferredBank
    BY <1>1, <2>1, <2>4, OpenIsNotBanked
  <2>6. /\ DOMAIN Seen(p) = Past(p) /\ Latest(p) \in Past(p)
        /\ Seen(p)[Latest(p)] = outcome[p][Latest(p)]
    BY <2>1, <2>4, <2>5, SeenIsPast DEF IsLastPast
  <2>7. LastDay(Seen(p)) = Latest(p)
    BY <2>1, <2>4, <2>5, LastSeen
  <2>8. p \in Callable(InferredBank)
    BY <1>1, <2>5, <2>6, <2>7 DEF Callable, Lineup, Lockable
  <2>9. ~Shut(p)
    BY <2>1, <2>5, NDaysAssumption
       DEF Shut, Ahead, KnownThrough, Past, TypeOK, WorldTypeOK, Days
  <2>10. CASE p \in untimed
    BY <2>4, <2>8, <2>10
  <2>11. CASE p \notin untimed
    <3> DEFINE call == [p |-> p, day |-> LastDay(Seen(p)), score |-> Seen(p)[LastDay(Seen(p))].score,
                        lock |-> p \in locks, saidOn |-> FirstSaid(p, LastDay(Seen(p)))]
    <3>1. call \in digest'.calls
      BY <2>4, <2>8, <2>9, <2>11 DEF Calls
    <3>2. call.p = p /\ call.day = Latest(p) /\ call.score = outcome[p][Latest(p)].score
      BY <2>6, <2>7
    <3>3. QED
      BY <3>1, <3>2
  <2>12. QED
    BY <2>10, <2>11
<1>2. IInv /\ [Next]_vars
        => [digest'.source = "inferred" => \A p \in Players : Due(p) => Called(p)]_vars
  BY <1>1
<1>3. QED
  BY <1>2, Invariance, PTL DEF Spec, OpenWindowCalled
===============================================================================
