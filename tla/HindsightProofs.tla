---------------------------- MODULE HindsightProofs ----------------------------
(***************************************************************************)
(* Proofs about module Hindsight, for any roster, any length of week, any    *)
(* scores and any number of runs and weeks: what a final counted score       *)
(* proves of the week that led to it. The judge sees the digests' rows and   *)
(* the final scores; the theorems compare what it says with the locks that   *)
(* were made.                                                              *)
(***************************************************************************)
EXTENDS Hindsight, FiniteSetTheorems, WellFoundedInduction, TLAPS

WeekType == [ran : BOOLEAN, clean : BOOLEAN, well : BOOLEAN]

\* A lock is on a game that has finished and was played.
WorldOK ==
    /\ schedule \in [Players -> SUBSET Days]
    /\ matchup \in BOOLEAN
    /\ today \in 1..(NDays + 1)
    /\ tipped \in BOOLEAN
    /\ held \in [Players -> SUBSET Days]
    /\ DOMAIN results = Players
    /\ \A p \in Players :
          /\ DOMAIN results[p] \subseteq schedule[p]
          /\ \A d \in DOMAIN results[p] : d < today /\ results[p][d] \in Game
    /\ DOMAIN lock = Players
    /\ \A p \in Players : lock[p] # NoGame =>
          lock[p] \in DOMAIN results[p] /\ results[p][lock[p]].played

RowsOK == \A r \in runs : r.asOf \in 1..today /\ BankOK(r.banked)

\* Once a week is scored nothing in it changes: the final poll is of its games.
ScoredOK ==
    /\ BankOK(final.counted)
    /\ final.scored =>
          /\ today = NDays + 1
          /\ final.missing \subseteq Starters
          /\ final.whole => Starters = Players
          /\ \A p \in Starters : p \notin final.missing => final.counted[p] = Counted(p, FALSE, 0)

\* The weeks the report has called clean did go well.
PastOK ==
    /\ past \in Seq(WeekType)
    /\ \A w \in 1..Len(past) : past[w].clean => past[w].well

IInv == WorldOK /\ RowsOK /\ ScoredOK /\ PastOK

-----------------------------------------------------------------------------
\* Days: every nonempty set of them has a last one.

LEMMA DaysAreNat == Days \subseteq Nat \ {0} /\ NoGame \notin Days /\ NDays \in Nat
BY NDaysAssumption DEF Days, NoGame

LEMMA DaysAreInt == \A d \in Days : d \in Int /\ d # NoGame
BY NDaysAssumption DEF Days, NoGame

LEMMA LeastNat ==
    ASSUME NEW S \in SUBSET Nat, S # {}
    PROVE  \E m \in S : \A n \in S : m <= n
<1>1. IsWellFoundedOn(OpToRel(<, Nat), Nat)
  BY NatLessThanWellFounded
<1>2. PICK m \in S : \A n \in S : ~(<<n, m>> \in OpToRel(<, Nat))
  BY <1>1, WFMin
<1>3. ASSUME NEW n \in S PROVE m <= n
  <2>1. n < m => <<n, m>> \in OpToRel(<, Nat)
    BY DEF OpToRel
  <2>2. ~(n < m)
    BY <1>2, <2>1
  <2> QED BY <2>2
<1> QED BY <1>3

LEMMA MaxDayIsLast ==
    ASSUME NEW S \in SUBSET Days, S # {}
    PROVE  MaxDay(S) \in S /\ \A e \in S : e <= MaxDay(S)
<1> DEFINE T == {NDays - d : d \in S}
<1>1. T \in SUBSET Nat /\ T # {}
  BY NDaysAssumption DEF Days
<1> HIDE DEF T
<1>2. PICK t \in T : \A n \in T : t <= n
  BY <1>1, LeastNat
<1>3. PICK d \in S : t = NDays - d
  BY <1>2 DEF T
<1>4. ASSUME NEW e \in S PROVE e <= d
  <2>1. NDays - e \in T
    BY DEF T
  <2>2. t <= NDays - e
    BY <2>1, <1>2
  <2> QED BY <2>2, <1>3, NDaysAssumption DEF Days
<1> QED BY <1>4 DEF MaxDay

-----------------------------------------------------------------------------
\* What a counted value is read as, for any games.

LEMMA ReadOfRide ==
    ASSUME NEW G, NEW counted, DOMAIN G # {}, Rides(counted, G)
    PROVE  \/ InferLock(counted, G).status \in {"single_game", "rode_to_end"}
           \/ /\ InferLock(counted, G).status = "ambiguous"
              /\ InferLock(counted, G).early = "unknown"
<1>1. CASE DOMAIN G = {LastDay(G)}
  BY <1>1 DEF InferLock, ReadSingle, Inference
<1>2. CASE DOMAIN G # {LastDay(G)}
  <2>1. InferLock(counted, G) = ReadRide(counted, G)
    BY <1>2 DEF InferLock, ReadSeveral
  <2> QED BY <2>1 DEF ReadRide, Inference
<1> QED BY <1>1, <1>2

LEMMA ReadOfLock ==
    ASSUME NEW G, NEW L \in DOMAIN G, G[L].played, ~Rides(G[L].score, G)
    PROVE  LET read == InferLock(G[L].score, G)
           IN  \/ read.status = "locked_early" /\ read.matched = L
               \/ /\ read.status = "ambiguous" /\ read.early = "yes"
                  /\ read.candidates = Candidates(G[L].score, G)
<1> DEFINE counted == G[L].score
           candidates == Candidates(counted, G)
<1>1. L \in candidates
  BY DEF Candidates
<1>2. DOMAIN G # {LastDay(G)}
  BY DEF Rides, RideScore
<1>3. InferLock(counted, G) = ReadLocked(counted, G)
  BY <1>1, <1>2 DEF InferLock, ReadSeveral
<1>4. CASE \E d \in candidates : candidates = {d}
  <2>1. /\ InferLock(counted, G).status = "locked_early"
        /\ InferLock(counted, G).matched = CHOOSE d \in candidates : TRUE
    BY <1>3, <1>4 DEF ReadLocked, Inference
  <2>2. candidates = {L}
    BY <1>1, <1>4
  <2> QED BY <2>1, <2>2
<1>5. CASE ~\E d \in candidates : candidates = {d}
  BY <1>3, <1>5 DEF ReadLocked, Inference
<1> QED BY <1>4, <1>5

LEMMA ReadOfNothing ==
    ASSUME NEW G, NEW counted, DOMAIN G # {}, ~Rides(counted, G), Candidates(counted, G) = {}
    PROVE  InferLock(counted, G).status \in {"no_lockable_game", "unresolved"}
BY DEF InferLock, ReadSingle, ReadSeveral, ReadUnexplained, Undetermined, Inference

LEMMA ReadOfNoGames ==
    ASSUME NEW G, NEW counted, DOMAIN G = {}
    PROVE  InferLock(counted, G).status \in {"no_games", "unresolved"}
BY DEF InferLock, ReadNoGames, Undetermined, Inference

-----------------------------------------------------------------------------
\* A starter's week, once it is scored: what his value proves of his lock.

LEMMA GamesOf ==
    ASSUME WorldOK, NEW p \in Players
    PROVE  /\ DOMAIN results[p] \in SUBSET Days
           /\ DOMAIN results[p] # {} =>
                /\ LastDay(results[p]) \in DOMAIN results[p]
                /\ \A d \in DOMAIN results[p] : d <= LastDay(results[p])
           /\ \A d \in DOMAIN results[p] : /\ results[p][d].played \in BOOLEAN
                                           /\ results[p][d].score \in Int
           /\ lock[p] # NoGame => lock[p] \in DOMAIN results[p] /\ results[p][lock[p]].played
<1>1. DOMAIN results[p] \in SUBSET Days
  BY DEF WorldOK
<1>2. DOMAIN results[p] # {} => /\ LastDay(results[p]) \in DOMAIN results[p]
                                /\ \A d \in DOMAIN results[p] : d <= LastDay(results[p])
  BY <1>1, MaxDayIsLast DEF LastDay
<1>3. \A d \in DOMAIN results[p] : results[p][d] \in Game
  BY DEF WorldOK
<1> QED BY <1>1, <1>2, <1>3 DEF WorldOK, Game

\* The days a reading blames are games before his last; there are none exactly
\* when he rode it, or locked it; and his lock is among them.
LEMMA TruthFacts ==
    ASSUME IInv, final.scored, NEW p \in Starters, PlainZeros(p), TruthOf(p).read
    PROVE  /\ p \in Players /\ p \notin final.missing
           /\ TruthOf(p).days \in SUBSET DOMAIN results[p]
           /\ TruthOf(p).days = {} => lock[p] = NoGame \/ lock[p] = LastDay(results[p])
           /\ TruthOf(p).days # {} => /\ lock[p] \in TruthOf(p).days
                                      /\ LastDay(results[p]) \notin TruthOf(p).days
                                      /\ final.counted[p] = results[p][lock[p]].score
           /\ Inferred(p).status = "locked_early" => TruthOf(p).days = {Inferred(p).matched}
           /\ Inferred(p).status = "rode_to_end" => TruthOf(p).days = {}
<1> DEFINE G == results[p]
           v == final.counted[p]
           read == InferLock(v, G)
           L == lock[p]
<1>1. p \in Players
  BY DEF IInv, ScoredOK, BankOK, Starters
<1>2. p \notin final.missing
  BY DEF TruthOf, Truth
<1>3. v = Counted(p, FALSE, 0)
  BY <1>2 DEF IInv, ScoredOK
<1>4. /\ DOMAIN G \in SUBSET Days
      /\ DOMAIN G # {} => LastDay(G) \in DOMAIN G
      /\ L # NoGame => L \in DOMAIN G /\ G[L].played
  BY <1>1, GamesOf DEF IInv
<1>5. Inferred(p) = read
  BY DEF Inferred
<1>6. TruthOf(p) =
        CASE read.status = "locked_early" -> Truth(TRUE, {read.matched})
          [] read.status = "ambiguous" /\ read.early = "yes" -> Truth(TRUE, read.candidates)
          [] read.status \in NoEarlyLock -> Truth(TRUE, {})
          [] OTHER -> Truth(FALSE, {})
  BY <1>2, <1>5 DEF TruthOf, NoEarlyLock
<1> HIDE DEF read
<1>7. CASE DOMAIN G = {}
  <2>1. read.status \in {"no_games", "unresolved"}
    BY <1>7, ReadOfNoGames DEF read
  <2>2. TruthOf(p).days = {}
    BY <1>6, <2>1 DEF Truth, NoEarlyLock
  <2> QED BY <1>1, <1>2, <1>4, <1>5, <1>7, <2>1, <2>2
<1>8. CASE DOMAIN G # {} /\ Rides(v, G) /\ (L = NoGame \/ L = LastDay(G))
  <2>1. \/ read.status \in {"single_game", "rode_to_end"}
        \/ read.status = "ambiguous" /\ read.early = "unknown"
    BY <1>8, ReadOfRide DEF read
  <2>2. TruthOf(p).days = {}
    BY <1>6, <2>1 DEF Truth, NoEarlyLock
  <2> QED BY <1>1, <1>2, <1>4, <1>5, <1>8, <2>1, <2>2
<1>9. CASE DOMAIN G # {} /\ Rides(v, G) /\ L # NoGame /\ L # LastDay(G)
  <2>1. v = G[L].score
    BY <1>3, <1>9 DEF Counted
  <2>2. InferLock(v, G) = ReadRide(v, G)
    BY <1>4, <1>9 DEF InferLock, ReadSeveral
  <2>3. L \in Earlier(v, G)
    BY <1>4, <1>9, <2>1 DEF Earlier, Candidates
  <2>4. read.status = "ambiguous" /\ read.early = "unknown"
    BY <2>2, <2>3 DEF ReadRide, Inference, read
  <2> QED BY <1>6, <2>4 DEF Truth, NoEarlyLock
<1>10. CASE DOMAIN G # {} /\ ~Rides(v, G) /\ L # NoGame
  <2>1. v = G[L].score
    BY <1>3, <1>10 DEF Counted
  <2>2. L \in DOMAIN G /\ G[L].played
    BY <1>4, <1>10
  <2>3. \/ read.status = "locked_early" /\ read.matched = L
        \/ /\ read.status = "ambiguous" /\ read.early = "yes"
           /\ read.candidates = Candidates(v, G)
    BY <1>10, <2>1, <2>2, ReadOfLock DEF read
  <2>4. LastDay(G) \notin Candidates(v, G)
    BY <1>10 DEF Candidates, Rides, RideScore
  <2>5. L \in Candidates(v, G) /\ Candidates(v, G) \in SUBSET DOMAIN G
    BY <2>1, <2>2 DEF Candidates
  <2>6. \/ TruthOf(p).days = {L} /\ read.status = "locked_early" /\ read.matched = L
        \/ TruthOf(p).days = Candidates(v, G) /\ read.status = "ambiguous"
    <3>1. CASE read.status = "locked_early" /\ read.matched = L
      <4>1. TruthOf(p) = Truth(TRUE, {read.matched})
        BY <1>6, <3>1 DEF NoEarlyLock
      <4> QED BY <3>1, <4>1 DEF Truth
    <3>2. CASE /\ read.status = "ambiguous" /\ read.early = "yes"
               /\ read.candidates = Candidates(v, G)
      <4>1. TruthOf(p) = Truth(TRUE, read.candidates)
        BY <1>6, <3>2 DEF NoEarlyLock
      <4> QED BY <3>2, <4>1 DEF Truth
    <3> QED BY <2>3, <3>1, <3>2
  <2> QED BY <1>1, <1>2, <1>5, <2>1, <2>2, <2>4, <2>5, <2>6
<1>11. CASE DOMAIN G # {} /\ ~Rides(v, G) /\ L = NoGame
  <2>1. LastDay(G) \notin held[p] /\ v = 0
    BY <1>3, <1>11, DaysAreNat DEF Counted, Rides, IInv, ScoredOK, WorldOK
  <2>2. ~HeldSlot(p)
    BY <1>4, <1>11, <2>1 DEF HeldSlot
  <2>3. Candidates(v, G) = {}
    BY <2>1, <2>2 DEF PlainZeros, Candidates
  <2>4. read.status \in {"no_lockable_game", "unresolved"}
    BY <1>11, <2>3, ReadOfNothing DEF read
  <2> QED BY <1>6, <2>4 DEF Truth, NoEarlyLock
<1> QED BY <1>7, <1>8, <1>9, <1>10, <1>11

\* What a list should have shown is what could be known of his lock that morning.
LEMMA ExpectedIsReal ==
    ASSUME IInv, final.scored, NEW p \in Starters, PlainZeros(p),
           NEW day \in Int, Expected(p, day).sure
    PROVE  Expected(p, day) =
             IF Knowable(p, day) THEN Showing(results[p][lock[p]].score) ELSE Nothing
<1> DEFINE days == TruthOf(p).days
           last == LastDay(results[p])
<1>1. p \in Players
  BY DEF IInv, ScoredOK, BankOK, Starters
<1>2. /\ DOMAIN results[p] \in SUBSET Days
      /\ \A d \in DOMAIN results[p] : d \in Int /\ d <= last
      /\ lock[p] # NoGame => lock[p] \in DOMAIN results[p]
      /\ \A d \in Before(p, day) : d \in DOMAIN results[p]
  <2>1. DOMAIN results[p] \in SUBSET Days
    BY <1>1, GamesOf DEF IInv
  <2>2. \A d \in DOMAIN results[p] : d <= last
    BY <1>1, GamesOf DEF IInv
  <2>3. lock[p] # NoGame => lock[p] \in DOMAIN results[p]
    BY <1>1, GamesOf DEF IInv
  <2>4. \A d \in Before(p, day) : d \in DOMAIN results[p]
    BY DEF Before
  <2>5. \A d \in DOMAIN results[p] : d \in Int
    <3>1. \A d \in Days : d \in Int
      BY DaysAreNat
    <3> QED BY <2>1, <3>1
  <2> QED BY <2>1, <2>2, <2>3, <2>4, <2>5
<1>3. CASE ~LockCanShow(p, day)
  <2>1. ASSUME Knowable(p, day) PROVE FALSE
    <3>1. lock[p] # NoGame /\ lock[p] \in DOMAIN results[p]
      BY <1>2, <2>1 DEF Knowable
    <3>2. PICK d \in Before(p, day) : d > lock[p]
      BY <2>1 DEF Knowable
    <3>3. lock[p] \in Int /\ d \in Int
      BY <1>2, <3>1, <3>2
    <3>4. d < day /\ lock[p] < day /\ d # lock[p]
      BY <3>2, <3>3 DEF Before
    <3>5. lock[p] \in Before(p, day)
      BY <3>1, <3>4 DEF Before
    <3> QED BY <1>3, <3>2, <3>4, <3>5 DEF LockCanShow
  <2> QED BY <1>3, <2>1 DEF Expected
<1>4. CASE LockCanShow(p, day)
  <2>1. TruthOf(p).read
    BY <1>4 DEF Expected, Unsettled
  <2>2. /\ days \in SUBSET DOMAIN results[p]
        /\ days = {} => lock[p] = NoGame \/ lock[p] = last
        /\ days # {} => lock[p] \in days /\ final.counted[p] = results[p][lock[p]].score
    BY <2>1, TruthFacts
  <2>3. CASE \A d \in Before(p, day), e \in days : d <= e
    <3>1. Expected(p, day) = Nothing
      BY <1>4, <2>1, <2>3 DEF Expected
    <3>2. ASSUME NEW d \in Before(p, day), lock[p] # NoGame PROVE ~(d > lock[p])
      <4>1. d \in Int /\ lock[p] \in Int /\ d <= last
        BY <1>2, <3>2
      <4>2. CASE days = {}
        BY <2>2, <3>2, <4>1, <4>2
      <4>3. CASE days # {}
        BY <2>2, <2>3, <4>1, <4>3
      <4> QED BY <4>2, <4>3
    <3> QED BY <3>1, <3>2 DEF Knowable
  <2>4. CASE ~\A d \in Before(p, day), e \in days : d <= e
    <3>1. \E d \in Before(p, day) : \A e \in days : d > e
      BY <1>4, <2>1, <2>4 DEF Expected, Unsettled
    <3>2. Expected(p, day) = Showing(final.counted[p])
      BY <1>4, <2>1, <2>4, <3>1 DEF Expected
    <3>3. days # {}
      BY <2>4
    <3>4. lock[p] \in days /\ final.counted[p] = results[p][lock[p]].score
      BY <2>2, <3>3
    <3>5. lock[p] # NoGame
      BY <1>2, <2>2, <3>4, DaysAreNat
    <3>6. Knowable(p, day)
      BY <3>1, <3>4, <3>5 DEF Knowable
    <3> QED BY <3>2, <3>4, <3>6
  <2> QED BY <2>3, <2>4
<1> QED BY <1>3, <1>4

LEMMA HeldIsPlain == \A p : HeldSlot(p) => PlainZeros(p)
BY DEF PlainZeros

-----------------------------------------------------------------------------
\* What follows for the week at hand.

\* shadow.verdict: a verdict that is given is right (lockin/shadow.py verdict).
LEMMA VerdictHolds == IInv => VerdictIsTrue
<1> SUFFICES ASSUME IInv, final.scored, NEW p \in Starters, HeldSlot(p),
                    NEW d \in DOMAIN results[p], NEW e \in DOMAIN results[p],
                    NEW action \in {"LOCK", "PASS"}, d < e
             PROVE  LET verdict == Verdict(action, d, TruthOf(p))
                    IN  /\ verdict = "moot" => lock[p] # NoGame /\ lock[p] < d
                        /\ verdict = "followed" => (lock[p] = d) = (action = "LOCK")
                        /\ verdict = "overridden" => (lock[p] = d) = (action = "PASS")
  BY DEF VerdictIsTrue
<1> DEFINE days == TruthOf(p).days
           last == LastDay(results[p])
<1>1. CASE ~TruthOf(p).read
  BY <1>1 DEF Verdict
<1>2. CASE TruthOf(p).read
  <2>1. /\ p \in Players /\ days \in SUBSET DOMAIN results[p]
        /\ days = {} => lock[p] = NoGame \/ lock[p] = last
        /\ days # {} => lock[p] \in days
    BY <1>2, TruthFacts, HeldIsPlain
  <2>2. /\ DOMAIN results[p] \in SUBSET Days
        /\ \A x \in DOMAIN results[p] : x <= last
    BY <2>1, GamesOf DEF IInv
  <2>3. d \in Int /\ e \in Int /\ d # NoGame /\ d # last
    <3>1. d \in Days /\ e \in Days
      BY <2>2
    <3>2. d \in Int /\ e \in Int /\ d # NoGame
      BY <3>1, DaysAreNat
    <3> QED BY <2>2, <3>2
  <2>4. CASE days # {} /\ \A x \in days : x < d
    <3>1. Verdict(action, d, TruthOf(p)) = "moot"
      BY <1>2, <2>4 DEF Verdict
    <3>2. lock[p] \in Days
      BY <2>1, <2>2, <2>4
    <3> QED BY <2>1, <2>4, <3>1, <3>2, DaysAreNat
  <2>5. CASE /\ ~(days # {} /\ \A x \in days : x < d)
             /\ (\E x, y \in days : x # y) /\ \E x \in days : x <= d
    BY <1>2, <2>5 DEF Verdict
  <2>6. CASE /\ ~(days # {} /\ \A x \in days : x < d)
             /\ ~((\E x, y \in days : x # y) /\ \E x \in days : x <= d)
    <3>1. Verdict(action, d, TruthOf(p)) =
            IF (d \in days) = (action = "LOCK") THEN "followed" ELSE "overridden"
      BY <1>2, <2>6 DEF Verdict
    <3>2. d \in days <=> lock[p] = d
      <4>1. CASE days = {}
        BY <2>1, <2>3, <4>1
      <4>2. CASE days # {} /\ \E x, y \in days : x # y
        BY <2>1, <2>3, <2>6, <4>2
      <4>3. CASE days # {} /\ ~\E x, y \in days : x # y
        BY <2>1, <4>3
      <4> QED BY <4>1, <4>2, <4>3
    <3>3. action = "LOCK" \/ action = "PASS"
      OBVIOUS
    <3> QED BY <3>1, <3>2, <3>3
  <2> QED BY <2>4, <2>5, <2>6
<1> QED BY <1>1, <1>2

\* Two of his games are in the same place of his week only if they are the same.
LEMMA PositionsDiffer ==
    ASSUME WorldOK, NEW p \in Players, NEW d \in DOMAIN results[p], NEW e \in DOMAIN results[p],
           Position(p, d) = Position(p, e)
    PROVE  d = e
<1> DEFINE upTo(x) == {y \in DOMAIN results[p] : y <= x}
<1>1. DOMAIN results[p] \in SUBSET Days /\ \A x \in DOMAIN results[p] : x \in Int
  <2>1. DOMAIN results[p] \in SUBSET Days
    BY GamesOf
  <2>2. \A x \in Days : x \in Int
    BY DaysAreNat
  <2> QED BY <2>1, <2>2
<1>2. \A x : IsFiniteSet(upTo(x))
  <2>1. IsFiniteSet(Days)
    BY FS_Interval, DaysAreNat DEF Days
  <2> QED BY <1>1, <2>1, FS_Subset
<1>3. ASSUME NEW x \in DOMAIN results[p], NEW y \in DOMAIN results[p], x <= y,
             Position(p, x) = Position(p, y)
      PROVE  x = y
  <2>1. x \in Int /\ y \in Int
    BY <1>1
  <2>2. upTo(x) \in SUBSET upTo(y)
    BY <1>1, <1>3, <2>1
  <2>3. Cardinality(upTo(y)) = Cardinality(upTo(x))
    BY <1>3 DEF Position
  <2>4. upTo(y) = upTo(x)
    <3> HIDE DEF upTo
    <3> QED BY <1>2, <2>2, <2>3, FS_Subset
  <2>5. y \in upTo(y)
    BY <2>1
  <2>6. y \in upTo(x)
    BY <2>4, <2>5
  <2>7. y <= x
    BY <2>6
  <2> QED BY <1>3, <2>1, <2>7
<1>4. d <= e \/ e <= d
  BY <1>1
<1> QED BY <1>3, <1>4

\* managers.evaluate_managers: a manager is charged with the decisions he faced,
\* and with what he did (lockin/managers.py evaluate_managers).
LEMMA ChargesHold == IInv => ChargedAsFaced
<1> SUFFICES ASSUME IInv, final.scored, NEW p \in Starters \ final.missing, HeldSlot(p),
                    NEW d \in Decisions(p)
             PROVE  /\ lock[p] = NoGame \/ lock[p] >= d
                    /\ ChoseLock(p, d) <=> lock[p] = d
  BY DEF ChargedAsFaced
<1> DEFINE last == LastDay(results[p])
<1>1. /\ d \in DOMAIN results[p] /\ Resolvable(p)
      /\ \E e \in DOMAIN results[p] : e > d
      /\ \A e \in DOMAIN results[p] : e < d => ~ChoseLock(p, e)
  BY DEF Decisions
<1>2. p \in Players
  BY DEF IInv, ScoredOK, BankOK, Starters
<1>3. DOMAIN results[p] \in SUBSET Days /\ \A x \in DOMAIN results[p] : x <= last
  BY <1>2, GamesOf DEF IInv
<1>4. \A x \in DOMAIN results[p] : x \in Int /\ x # NoGame
  <2>1. \A x \in Days : x \in Int /\ x # NoGame
    BY DaysAreInt
  <2> QED BY <1>3, <2>1
<1>5. d # last
  BY <1>1, <1>3, <1>4
<1>6. TruthOf(p).read
  BY <1>1 DEF Resolvable, TruthOf, Truth, NoEarlyLock
<1>7. CASE Inferred(p).status = "rode_to_end"
  <2>1. lock[p] = NoGame \/ lock[p] = last
    BY <1>6, <1>7, TruthFacts, HeldIsPlain
  <2>2. last >= d /\ d # NoGame
    BY <1>1, <1>3, <1>4
  <2>3. ~ChoseLock(p, d)
    BY <1>7 DEF ChoseLock
  <2> QED BY <1>5, <2>1, <2>2, <2>3
<1>8. CASE Inferred(p).status = "locked_early"
  <2>1. /\ TruthOf(p).days = {Inferred(p).matched} /\ lock[p] \in TruthOf(p).days
        /\ lock[p] \in DOMAIN results[p]
    BY <1>6, <1>8, TruthFacts, HeldIsPlain
  <2>2. Inferred(p).matched = lock[p]
    BY <2>1
  <2>3. \A e \in DOMAIN results[p] : ChoseLock(p, e) <=> lock[p] = e
    BY <1>2, <1>8, <2>1, <2>2, PositionsDiffer DEF ChoseLock, IInv
  <2>4. lock[p] \in Int /\ d \in Int
    BY <1>1, <1>4, <2>1
  <2>5. ~(lock[p] < d)
    BY <1>1, <2>1, <2>3
  <2> QED BY <1>1, <2>3, <2>4, <2>5
<1> QED BY <1>1, <1>7, <1>8 DEF Resolvable

\* shadow._state: what the report holds against a list was wrong in it
\* (lockin/shadow.py _state).
LEMMA MissesHold == IInv => NoFalseMiss
<1> SUFFICES ASSUME IInv, final.scored, NEW x \in Misses, x[2] \in Starters, HeldSlot(x[2])
             PROVE  Have(x[1], x[2]) # Real(x[1], x[2])
  BY DEF NoFalseMiss
<1>1. /\ x \in Inferring \X Players
      /\ Want(x[1], x[2]).sure
      /\ Have(x[1], x[2]) # Want(x[1], x[2])
  BY DEF Misses, Checked, Unverified, Judged
<1>2. x[1] \in runs
  BY <1>1 DEF Inferring, LiveRuns
<1>3. x[1].asOf \in Int
  BY <1>2 DEF IInv, RowsOK
<1>4. Want(x[1], x[2]) = Expected(x[2], x[1].asOf)
  BY DEF Want
<1>5. Want(x[1], x[2]) = Real(x[1], x[2])
  BY <1>1, <1>3, <1>4, ExpectedIsReal, HeldIsPlain DEF Real
<1> QED BY <1>1, <1>5

\* WeekSummary.clean: a week called clean did go well (lockin/shadow.py _state,
\* _mornings, WeekSummary).
LEMMA CleanHolds == IInv => CleanWentWell
<1> SUFFICES ASSUME IInv, final.scored, Clean, \A p \in Players : PlainZeros(p)
             PROVE  WentWell
  BY DEF CleanWentWell
<1>1. Starters = Players
  BY DEF Clean, IInv, ScoredOK
<1>2. ASSUME NEW day \in Days PROVE \E r \in runs : r.live /\ r.asOf = day
  <2>1. ~MorningOwes(day)
    BY DEF Clean
  <2>2. Morning(day) # {}
    BY <2>1 DEF MorningOwes, InferredOn, Exempted
  <2> QED BY <2>2 DEF Morning, LiveRuns
<1>3. ASSUME NEW r \in runs, NEW p \in Players, r.live, r.source = "inferred"
      PROVE  Have(r, p) = Real(r, p)
  <2>1. <<r, p>> \in Judged
    BY <1>1, <1>3 DEF Judged, Inferring, LiveRuns
  <2>2. Want(r, p).sure /\ Have(r, p) = Want(r, p)
    BY <2>1 DEF Clean, Misses, Checked, Unverified
  <2>3. r.asOf \in Int
    BY DEF IInv, RowsOK
  <2>4. Want(r, p) = Expected(p, r.asOf)
    BY <1>1 DEF Want
  <2> QED BY <1>1, <2>2, <2>3, <2>4, ExpectedIsReal DEF Real
<1> QED BY <1>2, <1>3 DEF WentWell

\* ThisWeek is a week the report keeps, and clean only if it went well.
LEMMA ThisWeekOK ==
    ASSUME IInv, final.scored
    PROVE  ThisWeek \in WeekType /\ (ThisWeek.clean => ThisWeek.well)
<1>1. Clean \in BOOLEAN
  BY DEF Clean
<1>2. ((\A p \in Players : PlainZeros(p)) => WentWell) \in BOOLEAN
  OBVIOUS
<1>3. ThisWeek \in WeekType
  BY <1>1, <1>2 DEF ThisWeek, WeekType
<1>4. ThisWeek.clean => Clean
  BY <1>1 DEF ThisWeek
<1>5. ((\A p \in Players : PlainZeros(p)) => WentWell) => ThisWeek.well
  BY <1>2 DEF ThisWeek
<1> QED BY <1>3, <1>4, <1>5, CleanHolds DEF CleanWentWell

\* The season with this week appended.
LEMMA SeasonOK ==
    ASSUME IInv, final.scored
    PROVE  /\ Append(past, ThisWeek) \in Seq(WeekType)
           /\ Len(Append(past, ThisWeek)) = Len(past) + 1
           /\ \A w \in 1..(Len(past) + 1) :
                 Append(past, ThisWeek)[w].clean => Append(past, ThisWeek)[w].well
<1> DEFINE week == ThisWeek
<1>1. week \in WeekType /\ (week.clean => week.well)
  BY ThisWeekOK
<1>2. past \in Seq(WeekType) /\ \A w \in 1..Len(past) : past[w].clean => past[w].well
  BY DEF IInv, PastOK
<1> HIDE DEF week
<1>3. /\ Append(past, week) \in Seq(WeekType) /\ Len(Append(past, week)) = Len(past) + 1
      /\ Len(past) \in Nat
  BY <1>1, <1>2
<1>4. ASSUME NEW w \in 1..(Len(past) + 1)
      PROVE  Append(past, week)[w].clean => Append(past, week)[w].well
  <2>1. CASE w = Len(past) + 1
    <3>1. Append(past, week)[w] = week
      BY <1>1, <1>2, <2>1
    <3> QED BY <1>1, <3>1
  <2>2. CASE w \in 1..Len(past)
    <3>1. Append(past, week)[w] = past[w]
      BY <1>1, <1>2, <2>2
    <3> QED BY <1>2, <2>2, <3>1
  <2> QED BY <1>3, <2>1, <2>2
<1> QED BY <1>3, <1>4 DEF week

\* Weeks tracked are those from the first on: the last GateWeeks are among them
\* when they are as many as the gate asks for.
LEMMA LastAreTracked ==
    ASSUME NEW weeks \in Seq(WeekType), Cardinality(Tracked(weeks)) >= GateWeeks
    PROVE  /\ Len(weeks) >= GateWeeks
           /\ \A w \in 1..Len(weeks) : w > Len(weeks) - GateWeeks => w \in Tracked(weeks)
<1> DEFINE N == Len(weeks)
           T == Tracked(weeks)
<1>1. N \in Nat /\ DOMAIN weeks = 1..N
  OBVIOUS
<1>2. IsFiniteSet(1..N) /\ Cardinality(1..N) = N
  BY <1>1, FS_Interval
<1>3. T \in SUBSET (1..N)
  BY <1>1 DEF Tracked
<1>4. GateWeeks \in Nat /\ GateWeeks >= 1
  BY GateWeeksAssumption
<1>5. IsFiniteSet(T) /\ Cardinality(T) <= N /\ Cardinality(T) \in Nat
  BY <1>2, <1>3, FS_Subset, FS_CardinalityType
<1>6. N >= GateWeeks
  BY <1>1, <1>4, <1>5
<1>7. T # {}
  BY <1>4, FS_EmptySet
<1>8. PICK u \in T : TRUE
  BY <1>7
<1>9. PICK v \in 1..u : FirstTracked(weeks, v)
  BY <1>1, <1>3, <1>8 DEF Tracked
<1>10. u \in 1..N /\ v \in 1..N
  BY <1>1, <1>3, <1>8, <1>9
<1>11. \A w \in T : w \in v..N
  <2> SUFFICES ASSUME NEW w \in T PROVE w \in v..N
    OBVIOUS
  <2>1. w \in 1..N
    BY <1>3
  <2>2. PICK x \in 1..w : FirstTracked(weeks, x)
    BY <1>1, <1>3 DEF Tracked
  <2>3. ~(x < v)
    BY <1>10, <2>1, <2>2, <1>9 DEF FirstTracked
  <2> QED BY <1>1, <1>10, <2>1, <2>2, <2>3
<1>12. IsFiniteSet(v..N) /\ Cardinality(v..N) = N - v + 1
  BY <1>1, <1>10, FS_Interval
<1>13. Cardinality(T) <= N - v + 1
  <2>1. T \in SUBSET (v..N)
    BY <1>11
  <2> HIDE DEF T
  <2> QED BY <1>12, <2>1, FS_Subset
<1>14. ASSUME NEW w \in 1..N, w > N - GateWeeks PROVE w \in T
  <2>1. v <= w
    BY <1>1, <1>4, <1>5, <1>10, <1>13, <1>14
  <2>2. v \in 1..w
    BY <1>10, <2>1
  <2> QED BY <1>1, <1>9, <2>2 DEF Tracked
<1> QED BY <1>6, <1>14

\* ShadowReport.gate: the weeks that opened it went well (lockin/shadow.py gate,
\* weeks).
LEMMA GateHolds == IInv => GateIsEarned
<1> SUFFICES ASSUME IInv, final.scored, GatePassed(Append(past, ThisWeek))
             PROVE  /\ Len(past) + 1 >= GateWeeks
                    /\ \A w \in DOMAIN Append(past, ThisWeek) :
                          w > Len(past) + 1 - GateWeeks => Append(past, ThisWeek)[w].well
  BY DEF GateIsEarned
<1> DEFINE weeks == Append(past, ThisWeek)
<1>1. /\ weeks \in Seq(WeekType) /\ Len(weeks) = Len(past) + 1
      /\ \A w \in 1..Len(weeks) : weeks[w].clean => weeks[w].well
  BY SeasonOK
<1>2. /\ Cardinality(Tracked(weeks)) >= GateWeeks
      /\ \A w \in Tracked(weeks) : w > Len(weeks) - GateWeeks => weeks[w].clean
  BY DEF GatePassed
<1> HIDE DEF weeks
<1>3. /\ Len(weeks) >= GateWeeks
      /\ \A w \in 1..Len(weeks) : w > Len(weeks) - GateWeeks => w \in Tracked(weeks)
  BY <1>1, <1>2, LastAreTracked
<1>4. DOMAIN weeks = 1..Len(weeks)
  BY <1>1
<1>5. ASSUME NEW w \in DOMAIN weeks, w > Len(past) + 1 - GateWeeks PROVE weeks[w].well
  <2>1. w \in 1..Len(weeks)
    BY <1>4
  <2>2. w > Len(weeks) - GateWeeks
    <3>1. Len(weeks) = Len(past) + 1
      BY <1>1
    <3>2. Len(past) \in Nat /\ GateWeeks \in Int /\ w \in Int
      BY <2>1, GateWeeksAssumption DEF IInv, PastOK
    <3> QED BY <3>1, <3>2, <1>5
  <2>3. w \in Tracked(weeks)
    BY <1>3, <2>1, <2>2
  <2> QED BY <1>1, <1>2, <2>1, <2>2, <2>3
<1> QED BY <1>1, <1>3, <1>5 DEF weeks

-----------------------------------------------------------------------------
\* The invariant.

LEMMA CountedInt ==
    ASSUME WorldOK, NEW p \in Players, NEW evening \in BOOLEAN, NEW partial \in Int
    PROVE  Counted(p, evening, partial) \in Int
<1>1. \A d \in DOMAIN results[p] : results[p][d].score \in Int
  BY GamesOf
<1>2. lock[p] # NoGame => lock[p] \in DOMAIN results[p]
  BY GamesOf
<1>3. DOMAIN results[p] # {} => RideScore(results[p]) \in Int
  BY GamesOf DEF RideScore
<1> QED BY <1>1, <1>2, <1>3 DEF Counted

LEMMA Initially == Init => IInv
<1> SUFFICES ASSUME Init PROVE IInv
  OBVIOUS
<1>1. WorldOK
  <2>1. today \in 1..(NDays + 1)
    BY NDaysAssumption DEF Init, Monday
  <2>2. \A p \in Players : DOMAIN results[p] = {} /\ lock[p] = NoGame
    BY DEF Init, NoGames
  <2>3. DOMAIN results = Players /\ DOMAIN lock = Players
    BY DEF Init
  <2>4. /\ schedule \in [Players -> SUBSET Days] /\ matchup \in BOOLEAN /\ tipped \in BOOLEAN
        /\ held \in [Players -> SUBSET Days]
    BY DEF Init
  <2> QED BY <2>1, <2>2, <2>3, <2>4 DEF WorldOK
<1>2. RowsOK
  BY DEF Init, RowsOK
<1>3. ScoredOK
  BY DEF Init, ScoredOK, NotFinal, NoBank, BankOK
<1>4. PastOK
  BY DEF Init, PastOK
<1> QED BY <1>1, <1>2, <1>3, <1>4 DEF IInv

\* While the week is not over it is not scored.
LEMMA Underway ==
    ASSUME IInv, today \in Days
    PROVE  ~final.scored
<1>1. final.scored => today = NDays + 1
  BY DEF IInv, ScoredOK
<1>2. today # NDays + 1
  BY NDaysAssumption DEF Days
<1> QED BY <1>1, <1>2

LEMMA TipKeeps ==
    ASSUME IInv, NEW inSlot \in SUBSET Players, Tip(inSlot)
    PROVE  IInv'
<1>1. /\ today \in Days /\ tipped' = TRUE
      /\ UNCHANGED <<schedule, matchup, today, results, lock, runs, final, past>>
  BY DEF Tip
<1>2. held' \in [Players -> SUBSET Days]
  BY <1>1 DEF Tip, IInv, WorldOK
<1>3. WorldOK'
  BY <1>1, <1>2 DEF IInv, WorldOK
<1>4. ScoredOK'
  BY <1>1, Underway DEF IInv, ScoredOK
<1> QED BY <1>1, <1>3, <1>4 DEF IInv, RowsOK, PastOK

LEMMA NightKeeps ==
    ASSUME IInv,
           NEW outcome \in [{p \in Players : today \in schedule[p]} -> Outcomes],
           Night(outcome)
    PROVE  IInv'
<1>1. /\ today \in Days /\ tipped' = FALSE /\ today' = today + 1
      /\ UNCHANGED <<schedule, matchup, held, lock, runs, final, past>>
  BY DEF Night
<1>2. today' \in 1..(NDays + 1) /\ 1..today \subseteq 1..today'
  BY <1>1, NDaysAssumption DEF Days
<1>3. DOMAIN results' = Players
  BY DEF Night
<1>4. ASSUME NEW p \in Players
      PROVE  /\ DOMAIN results'[p] = DOMAIN results[p] \cup ({today} \cap schedule[p])
             /\ \A d \in DOMAIN results'[p] :
                   results'[p][d] = IF d = today THEN outcome[p] ELSE results[p][d]
  BY DEF Night
<1>5. ASSUME NEW o \in Outcomes PROVE o \in Game
  <2>1. CASE o = [played |-> FALSE, score |-> 0]
    BY <2>1 DEF Game
  <2>2. CASE \E x \in Scores : o = [played |-> TRUE, score |-> x]
    BY <2>2, ScoresAssumption DEF Game
  <2> QED BY <2>1, <2>2 DEF Outcomes
<1>6. ASSUME NEW p \in Players
      PROVE  /\ DOMAIN results'[p] \subseteq schedule[p]
             /\ \A d \in DOMAIN results'[p] : d < today' /\ results'[p][d] \in Game
             /\ lock[p] # NoGame => lock[p] \in DOMAIN results'[p] /\ results'[p][lock[p]].played
  <2>1. /\ DOMAIN results[p] \subseteq schedule[p]
        /\ \A d \in DOMAIN results[p] : d < today /\ results[p][d] \in Game
        /\ lock[p] # NoGame => lock[p] \in DOMAIN results[p] /\ results[p][lock[p]].played
    BY DEF IInv, WorldOK
  <2>2. today \in Int /\ \A d \in DOMAIN results[p] : d \in Int /\ d # today
    <3>1. DOMAIN results[p] \in SUBSET Days
      BY GamesOf DEF IInv
    <3>2. \A d \in DOMAIN results[p] : d \in Int
      BY <3>1, DaysAreInt
    <3>3. today \in Int
      BY <1>1, DaysAreInt
    <3> QED BY <2>1, <3>2, <3>3
  <2>3. ASSUME NEW d \in DOMAIN results'[p] PROVE d < today' /\ results'[p][d] \in Game
    <3>1. CASE d = today
      <4>1. today \in schedule[p]
        BY <1>4, <2>1, <3>1
      <4>2. outcome[p] \in Outcomes
        BY <4>1
      <4> QED BY <1>1, <1>4, <1>5, <2>2, <3>1, <4>2
    <3>2. CASE d # today
      <4>1. d \in DOMAIN results[p]
        BY <1>4, <3>2
      <4> QED BY <1>1, <1>4, <2>1, <2>2, <3>2, <4>1
    <3> QED BY <3>1, <3>2
  <2>4. lock[p] \in DOMAIN results[p] => results'[p][lock[p]] = results[p][lock[p]]
    BY <1>4, <2>2
  <2> QED BY <1>4, <2>1, <2>3, <2>4
<1>7. WorldOK'
  BY <1>1, <1>2, <1>3, <1>6 DEF IInv, WorldOK
<1>8. ScoredOK'
  BY <1>1, Underway DEF IInv, ScoredOK
<1>9. RowsOK'
  BY <1>1, <1>2 DEF IInv, RowsOK
<1> QED BY <1>1, <1>7, <1>8, <1>9 DEF IInv, PastOK

LEMMA LockKeeps ==
    ASSUME IInv, NEW p \in Players, LockGame(p)
    PROVE  IInv'
<1>1. /\ DOMAIN results[p] # {} /\ ~final.scored
      /\ results[p][LastDay(results[p])].played
      /\ lock' = [lock EXCEPT ![p] = LastDay(results[p])]
      /\ UNCHANGED <<schedule, matchup, today, tipped, results, held, runs, final, past>>
  BY DEF LockGame
<1>2. LastDay(results[p]) \in DOMAIN results[p]
  BY <1>1, GamesOf DEF IInv
<1>3. DOMAIN lock' = Players
  BY <1>1 DEF IInv, WorldOK
<1>4. ASSUME NEW o \in Players, lock'[o] # NoGame
      PROVE  lock'[o] \in DOMAIN results[o] /\ results[o][lock'[o]].played
  <2>1. CASE o = p
    BY <1>1, <1>2, <2>1 DEF IInv, WorldOK
  <2>2. CASE o # p
    BY <1>1, <1>4, <2>2 DEF IInv, WorldOK
  <2> QED BY <2>1, <2>2
<1>5. WorldOK'
  BY <1>1, <1>3, <1>4 DEF IInv, WorldOK
<1>6. ScoredOK'
  BY <1>1 DEF IInv, ScoredOK
<1> QED BY <1>1, <1>5, <1>6 DEF IInv, RowsOK, PastOK

LEMMA RecordedKeeps ==
    ASSUME IInv, NEW live, NEW asOf \in 1..today, NEW source, NEW abstained, NEW exempt,
           NEW banked, BankOK(banked),
           Recorded(Row(live, asOf, source, abstained, exempt, banked))
    PROVE  IInv'
<1> DEFINE row == Row(live, asOf, source, abstained, exempt, banked)
<1>1. /\ UNCHANGED <<schedule, matchup, today, tipped, results, held, lock, final, past>>
      /\ runs' = runs \cup {row}
  BY DEF Recorded, world
<1>2. row.asOf = asOf /\ row.banked = banked
  BY DEF Row
<1> HIDE DEF row
<1>3. RowsOK'
  BY <1>1, <1>2 DEF IInv, RowsOK
<1>4. WorldOK'
  BY <1>1 DEF IInv, WorldOK
<1>5. ScoredOK'
  BY <1>1 DEF IInv, ScoredOK, Starters, Counted
<1> QED BY <1>1, <1>3, <1>4, <1>5 DEF IInv, PastOK

LEMMA RunsKeep ==
    ASSUME IInv,
           \/ RunAbstains \/ RunNoMatchup \/ RunSupplied
           \/ \E evening \in BOOLEAN, partial \in Scores : RunInferred(evening, partial)
           \/ \E day \in Days : Replay(day)
    PROVE  IInv'
<1>1. BankOK(NoBank)
  BY DEF BankOK, NoBank
<1>2. today \in Days => today \in 1..today
  BY DaysAreNat DEF Days
<1>3. CASE RunAbstains \/ RunNoMatchup
  <2>1. today \in 1..today
    BY <1>2, <1>3 DEF RunAbstains, RunNoMatchup, Recorded
  <2>2. \/ Recorded(Row(TRUE, today, "none", TRUE, FALSE, NoBank))
        \/ Recorded(Row(TRUE, today, "none", FALSE, TRUE, NoBank))
    BY <1>3 DEF RunAbstains, RunNoMatchup
  <2> QED BY <1>1, <2>1, <2>2, RecordedKeeps
<1>4. CASE RunSupplied
  <2> DEFINE bank == [p \in {q \in Players : lock[q] # NoGame} |-> results[p][lock[p]].score]
  <2>1. BankOK(bank)
    <3>1. ASSUME NEW p \in Players, lock[p] # NoGame PROVE results[p][lock[p]].score \in Int
      BY <3>1, GamesOf DEF IInv
    <3> QED BY <3>1 DEF BankOK
  <2> HIDE DEF bank
  <2>2. Recorded(Row(TRUE, today, "supplied", FALSE, FALSE, bank))
    BY <1>4 DEF RunSupplied, bank
  <2>3. today \in 1..today
    BY <1>2, <2>2 DEF Recorded
  <2> QED BY <2>1, <2>2, <2>3, RecordedKeeps
<1>5. ASSUME NEW evening \in BOOLEAN, NEW partial \in Scores, RunInferred(evening, partial)
      PROVE  IInv'
  <2> DEFINE value(p) == Counted(p, evening, partial)
             bank == [p \in {q \in Players : DOMAIN results[q] # {}
                                             /\ Reading(value(q), results[q]) = "banked"}
                        |-> value(p)]
  <2>1. BankOK(bank)
    <3>1. partial \in Int
      BY ScoresAssumption
    <3>2. \A p \in Players : value(p) \in Int
      BY <3>1, CountedInt DEF IInv
    <3> HIDE DEF value
    <3> QED BY <3>2 DEF BankOK
  <2>2. Recorded(Row(TRUE, today, "inferred", FALSE, FALSE, bank))
    BY <1>5 DEF RunInferred
  <2> HIDE DEF bank, value
  <2>3. today \in 1..today
    BY <1>2, <2>2 DEF Recorded
  <2> QED BY <2>1, <2>2, <2>3, RecordedKeeps
<1>6. ASSUME NEW day \in Days, Replay(day) PROVE IInv'
  <2>1. Recorded(Row(FALSE, day, "assumed", FALSE, FALSE, NoBank)) /\ day < today
    BY <1>6 DEF Replay
  <2>2. today \in Days
    BY <2>1 DEF Recorded
  <2>3. day \in 1..today
    BY <2>1, <2>2, NDaysAssumption DEF Days
  <2> QED BY <1>1, <2>1, <2>3, RecordedKeeps
<1> QED BY <1>3, <1>4, <1>5, <1>6

LEMMA ScoreKeeps ==
    ASSUME IInv, NEW starters \in SUBSET Players, NEW missing \in SUBSET Players,
           NEW whole \in BOOLEAN, Score(starters, missing, whole)
    PROVE  IInv'
<1> DEFINE counted == [p \in starters |-> IF p \in missing THEN 0 ELSE Counted(p, FALSE, 0)]
<1>1. /\ today = NDays + 1 /\ missing \subseteq starters
      /\ whole => starters = Players
      /\ final' = [scored |-> TRUE, whole |-> whole, missing |-> missing, counted |-> counted]
      /\ UNCHANGED <<schedule, matchup, today, tipped, results, held, lock, runs, past>>
  BY DEF Score, world
<1>2. \A p \in Players : Counted(p, FALSE, 0)' = Counted(p, FALSE, 0)
  BY <1>1 DEF Counted
<1>3. \A p \in Players : Counted(p, FALSE, 0) \in Int
  <2>1. 0 \in Int /\ FALSE \in BOOLEAN
    OBVIOUS
  <2> QED BY <2>1, CountedInt DEF IInv
<1>4. DOMAIN counted = starters /\ BankOK(counted)
  <2>1. ASSUME NEW p \in starters PROVE counted[p] \in Int
    <3>1. CASE p \in missing
      BY <3>1
    <3>2. CASE p \notin missing
      <4>1. counted[p] = Counted(p, FALSE, 0)
        BY <3>2
      <4> QED BY <1>3, <4>1
    <3> QED BY <3>1, <3>2
  <2>2. DOMAIN counted = starters
    OBVIOUS
  <2> HIDE DEF counted
  <2> QED BY <2>1, <2>2 DEF BankOK
<1>5. \A p \in starters : p \notin missing => counted[p] = Counted(p, FALSE, 0)
  OBVIOUS
<1> HIDE DEF counted
<1>6. /\ final'.scored /\ final'.whole = whole /\ final'.missing = missing
      /\ final'.counted = counted /\ Starters' = starters
  BY <1>1, <1>4 DEF Starters
<1>7. ScoredOK'
  BY <1>1, <1>2, <1>4, <1>5, <1>6 DEF ScoredOK
<1>8. WorldOK'
  BY <1>1 DEF IInv, WorldOK
<1> QED BY <1>1, <1>7, <1>8 DEF IInv, RowsOK, PastOK

LEMMA WeekKeeps ==
    ASSUME IInv, NextWeek
    PROVE  IInv'
<1>1. WorldOK'
  <2>1. today' \in 1..(NDays + 1)
    BY NDaysAssumption DEF NextWeek, Monday
  <2>2. \A p \in Players : DOMAIN results'[p] = {} /\ lock'[p] = NoGame
    BY DEF NextWeek, NoGames
  <2>3. DOMAIN results' = Players /\ DOMAIN lock' = Players
    BY DEF NextWeek
  <2>4. /\ schedule' \in [Players -> SUBSET Days] /\ matchup' \in BOOLEAN /\ tipped' \in BOOLEAN
        /\ held' \in [Players -> SUBSET Days]
    BY DEF NextWeek
  <2> QED BY <2>1, <2>2, <2>3, <2>4 DEF WorldOK
<1>2. RowsOK'
  BY DEF NextWeek, RowsOK
<1>3. ScoredOK'
  BY DEF NextWeek, ScoredOK, NotFinal, NoBank, BankOK
<1>4. PastOK'
  <2>1. past' = Append(past, ThisWeek) /\ final.scored
    BY DEF NextWeek
  <2> QED BY <2>1, SeasonOK DEF PastOK
<1> QED BY <1>1, <1>2, <1>3, <1>4 DEF IInv

LEMMA NextKeeps == IInv /\ [Next]_vars => IInv'
<1> SUFFICES ASSUME IInv, [Next]_vars PROVE IInv'
  OBVIOUS
<1>1. CASE UNCHANGED vars
  <2>1. UNCHANGED <<schedule, matchup, today, tipped, results, held, lock, runs, final, past>>
    BY <1>1 DEF vars, world
  <2>2. WorldOK' /\ RowsOK' /\ PastOK'
    BY <2>1 DEF IInv, WorldOK, RowsOK, PastOK
  <2>3. ScoredOK'
    BY <2>1 DEF IInv, ScoredOK, Starters, Counted
  <2> QED BY <2>2, <2>3 DEF IInv
<1>2. ASSUME NEW inSlot \in SUBSET Players, Tip(inSlot) PROVE IInv'
  BY <1>2, TipKeeps
<1>3. ASSUME NEW outcome \in [{p \in Players : today \in schedule[p]} -> Outcomes],
             Night(outcome)
      PROVE  IInv'
  BY <1>3, NightKeeps
<1>4. ASSUME NEW p \in Players, LockGame(p) PROVE IInv'
  BY <1>4, LockKeeps
<1>5. CASE \/ RunAbstains \/ RunNoMatchup \/ RunSupplied
           \/ \E evening \in BOOLEAN, partial \in Scores : RunInferred(evening, partial)
           \/ \E day \in Days : Replay(day)
  BY <1>5, RunsKeep
<1>6. ASSUME NEW starters \in SUBSET Players, NEW missing \in SUBSET Players,
             NEW whole \in BOOLEAN, Score(starters, missing, whole)
      PROVE  IInv'
  BY <1>6, ScoreKeeps
<1>7. CASE NextWeek
  BY <1>7, WeekKeeps
<1> QED BY <1>1, <1>2, <1>3, <1>4, <1>5, <1>6, <1>7 DEF Next

\* The strengthening, in every behaviour: what the final poll counts is of the
\* week's own games and locks, and the weeks the report called clean went well
\* (lockin/shadow.py, lockin/locks.py, lockin/managers.py).
THEOREM Invariance == Spec => []IInv
BY Initially, NextKeeps, PTL DEF Spec

-----------------------------------------------------------------------------
\* The theorems.

LEMMA TypesHold == IInv => TypeOK
<1> SUFFICES ASSUME IInv PROVE TypeOK
  OBVIOUS
<1>1. \A p \in Players : /\ DOMAIN results[p] \subseteq schedule[p]
                         /\ \A d \in DOMAIN results[p] : results[p][d] \in Game
                         /\ lock[p] \in DOMAIN results[p] \cup {NoGame}
  BY DEF IInv, WorldOK
<1>2. \A w \in DOMAIN past : past[w] \in [ran : BOOLEAN, clean : BOOLEAN, well : BOOLEAN]
  <2>1. \A w \in DOMAIN past : past[w] \in WeekType
    BY DEF IInv, PastOK
  <2> QED BY <2>1 DEF WeekType
<1>3. /\ schedule \in [Players -> SUBSET Days] /\ matchup \in BOOLEAN
      /\ today \in 1..(NDays + 1) /\ tipped \in BOOLEAN /\ held \in [Players -> SUBSET Days]
  BY DEF IInv, WorldOK
<1> QED BY <1>1, <1>2, <1>3 DEF TypeOK, IInv, RowsOK, ScoredOK

\* The shape of every variable: a lock is on a game that has finished
\* (lockin/shadow.py, lockin/locks.py).
THEOREM Types == Spec => []TypeOK
BY Invariance, TypesHold, PTL

\* A week the report calls clean did go well, for any roster and any scores: no
\* wrong list slips through (lockin/shadow.py WeekSummary.clean).
THEOREM CleanIsTrue == Spec => []CleanWentWell
BY Invariance, CleanHolds, PTL

\* The gate opens only on weeks that went well, however long the season and
\* however tracking began (lockin/shadow.py gate).
THEOREM GateIsTrue == Spec => []GateIsEarned
BY Invariance, GateHolds, PTL

\* A miss is never a false alarm (lockin/shadow.py _state).
THEOREM MissesAreTrue == Spec => []NoFalseMiss
BY Invariance, MissesHold, PTL

\* A verdict that is given is right (lockin/shadow.py verdict).
THEOREM VerdictsAreTrue == Spec => []VerdictIsTrue
BY Invariance, VerdictHolds, PTL

\* A manager is charged with the decisions he faced, and with what he did in each
\* (lockin/managers.py evaluate_managers).
THEOREM ChargesAreTrue == Spec => []ChargedAsFaced
BY Invariance, ChargesHold, PTL
================================================================================
