---------------------------- MODULE RolloutProofs ----------------------------
(***************************************************************************)
(* The worth of a call, for any draws and any rosters (lockin/rollout.py,   *)
(* lockin/core/winprob.py): a break-even is the decision, a replay takes no *)
(* open window and reads no later game, and a standing rule is what a later *)
(* morning asks.                                                           *)
(***************************************************************************)
EXTENDS Rollout, FiniteSetTheorems, WellFoundedInduction, TLAPS

-----------------------------------------------------------------------------
\* The grid.

LEMMA FewerSteps ==
    ASSUME NEW k \in Int, NEW m \in Int, k * Step < (m + 1) * Step
    PROVE  k <= m /\ k * Step <= m * Step
<1>1. CASE k <= m
  <2>1. m - k \in Nat /\ (m - k) * Step >= 0
    BY <1>1, StepAssumption
  <2>2. (m - k) * Step = m * Step - k * Step
    BY StepAssumption
  <2> QED BY <1>1, <2>1, <2>2, StepAssumption
<1>2. CASE k >= m + 1
  <2>1. (k - (m + 1)) * Step >= 0
    BY <1>2, StepAssumption
  <2>2. (k - (m + 1)) * Step = k * Step - (m + 1) * Step
    BY StepAssumption
  <2> QED BY <2>1, <2>2, StepAssumption
<1> QED BY <1>1, <1>2

\* OnGrid(x) is the first score of the grid that is not below x.
LEMMA OnGridIsCeiling ==
    ASSUME NEW x \in Int
    PROVE  /\ OnGrid(x) \in Int
           /\ x <= OnGrid(x) /\ OnGrid(x) < x + Step
           /\ \E k \in Int : OnGrid(x) = k * Step
<1> DEFINE q == (-x) \div Step
           r == (-x) % Step
<1>1. q \in Int /\ r \in 0..(Step - 1) /\ -x = Step * q + r
  BY StepAssumption
<1>2. OnGrid(x) = - (q * Step)
  BY DEF OnGrid
<1> HIDE DEF q, r
<1>3. q * Step = Step * q /\ q * Step \in Int /\ (- q) * Step = - (q * Step)
  BY <1>1, StepAssumption
<1>4. OnGrid(x) = x + r
  BY <1>1, <1>2, <1>3
<1>5. -q \in Int /\ OnGrid(x) = (-q) * Step
  BY <1>1, <1>2, <1>3
<1>6. OnGrid(x) \in Int /\ x <= OnGrid(x) /\ OnGrid(x) < x + Step
  BY <1>1, <1>4, StepAssumption
<1> QED BY <1>5, <1>6

\* Between two scores of the grid that differ there is a step.
LEMMA GridScores ==
    ASSUME NEW x \in Int, NEW m \in Int, x <= m * Step
    PROVE  /\ OnGrid(x) <= m * Step
           /\ x < m * Step /\ OnGrid(x) = x => OnGrid(x) + Step <= m * Step
<1>1. PICK k \in Int : OnGrid(x) = k * Step
  BY OnGridIsCeiling
<1>2. m * Step \in Int /\ k * Step \in Int /\ (m + 1) * Step = m * Step + Step
      /\ (k + 1) * Step = k * Step + Step
  BY StepAssumption
<1>3. OnGrid(x) <= m * Step
  <2>1. k * Step < (m + 1) * Step
    <3>1. OnGrid(x) < x + Step
      BY OnGridIsCeiling
    <3> QED BY <1>1, <1>2, <3>1, StepAssumption
  <2> QED BY <1>1, <2>1, FewerSteps
<1>4. ASSUME x < m * Step, OnGrid(x) = x
      PROVE  OnGrid(x) + Step <= m * Step
  <2>1. (k + 1) * Step < (m + 1) * Step
    BY <1>1, <1>2, <1>4, StepAssumption
  <2>2. (k + 1) * Step <= m * Step
    BY <2>1, FewerSteps
  <2> QED BY <1>1, <1>2, <2>2
<1> QED BY <1>3, <1>4

-----------------------------------------------------------------------------
\* One simulation of several has the highest of any number they have.

LEMMA Highest ==
    ASSUME NEW S, IsFiniteSet(S), S # {}, NEW f \in [S -> Int]
    PROVE  \E s \in S : \A u \in S : f[u] <= f[s]
<1> DEFINE Above(s) == {u \in S : f[u] > f[s]}
           Ranks == {Cardinality(Above(s)) : s \in S}
<1>1. \A s \in S : IsFiniteSet(Above(s)) /\ Cardinality(Above(s)) \in Nat
  BY FS_Subset, FS_CardinalityType
<1>2. Ranks \subseteq Nat /\ Ranks # {}
  BY <1>1
<1>3. PICK n \in Ranks : \A m \in Ranks : ~ (<<m, n>> \in OpToRel(<, Nat))
  BY <1>2, NatLessThanWellFounded, WFMin
<1>4. \A m \in Ranks : ~ (m < n)
  BY <1>2, <1>3 DEF OpToRel
<1>5. PICK s \in S : n = Cardinality(Above(s))
  OBVIOUS
<1>6. ASSUME NEW u \in S, f[u] > f[s] PROVE FALSE
  <2>1. Above(u) \subseteq Above(s) /\ u \in Above(s) /\ u \notin Above(u)
    BY <1>6
  <2>2. Cardinality(Above(u)) <= Cardinality(Above(s))
        /\ Cardinality(Above(u)) # Cardinality(Above(s))
    BY <1>1, <2>1, FS_Subset
  <2>3. Cardinality(Above(u)) \in Ranks
    OBVIOUS
  <2>4. ~ (Cardinality(Above(u)) < Cardinality(Above(s)))
    BY <1>4, <1>5, <2>3
  <2>5. Cardinality(Above(u)) \in Nat /\ Cardinality(Above(s)) \in Nat
    BY <1>1
  <2> HIDE DEF Above
  <2> QED BY <2>2, <2>4, <2>5
<1> QED BY <1>6

\* The same of a property that some of them have.
LEMMA LowestSuch ==
    ASSUME NEW S \in SUBSET Sims, S # {}, NEW f \in Sample
    PROVE  \E s \in S : \A u \in S : f[s] <= f[u]
<1> DEFINE g == [s \in S |-> - f[s]]
<1>1. IsFiniteSet(S)
  BY SimsAssumption, FS_Subset
<1>2. g \in [S -> Int]
  BY DEF Sample
<1>3. PICK s \in S : \A u \in S : g[u] <= g[s]
  BY <1>1, <1>2, Highest
<1>4. \A u \in S : f[s] <= f[u]
  BY <1>3 DEF Sample
<1> QED BY <1>4

-----------------------------------------------------------------------------
\* What a score is worth.

LEMMA BeatenFacts ==
    ASSUME NEW deficit \in Sample, NEW c \in Int
    PROVE  /\ Beaten(deficit, c) \in Nat
           /\ Beaten(deficit, c) > 0 => \E s \in Sims : deficit[s] <= c
<1> DEFINE won  == {s \in Sims : deficit[s] < c}
           tied == {s \in Sims : deficit[s] = c}
<1>1. Cardinality(won) \in Nat /\ Cardinality(tied) \in Nat
  BY SimsAssumption, FS_Subset, FS_CardinalityType
<1>2. Beaten(deficit, c) = 2 * Cardinality(won) + Cardinality(tied)
  BY DEF Beaten
<1>3. ASSUME won = {}, tied = {} PROVE Beaten(deficit, c) = 0
  BY <1>2, <1>3, FS_EmptySet
<1>4. won # {} \/ tied # {} => \E s \in Sims : deficit[s] <= c
  BY DEF Sample
<1> HIDE DEF won, tied
<1> QED BY <1>1, <1>2, <1>3, <1>4

\* A higher score is worth no less.
LEMMA BeatenMonotone ==
    ASSUME NEW deficit \in Sample, NEW c \in Int, NEW e \in Int, c <= e
    PROVE  Beaten(deficit, c) <= Beaten(deficit, e)
<1> DEFINE won(x)  == {s \in Sims : deficit[s] < x}
           tied(x) == {s \in Sims : deficit[s] = x}
<1>1. CASE c = e
  BY <1>1, BeatenFacts
<1>2. CASE c < e
  <2>1. \A x \in Int : /\ IsFiniteSet(won(x)) /\ Cardinality(won(x)) \in Nat
                       /\ IsFiniteSet(tied(x)) /\ Cardinality(tied(x)) \in Nat
    BY SimsAssumption, FS_Subset, FS_CardinalityType
  <2>2. won(c) \cup tied(c) \subseteq won(e) /\ won(c) \cap tied(c) = {}
    BY <1>2 DEF Sample
  <2>3. Cardinality(won(c) \cup tied(c)) = Cardinality(won(c)) + Cardinality(tied(c))
    <3>1. Cardinality(won(c) \cap tied(c)) = 0
      BY <2>2, FS_EmptySet
    <3>2. Cardinality(won(c) \cup tied(c))
            = Cardinality(won(c)) + Cardinality(tied(c)) - Cardinality(won(c) \cap tied(c))
      BY <2>1, FS_Union
    <3> HIDE DEF won, tied
    <3> QED BY <2>1, <3>1, <3>2
  <2>4. Cardinality(won(c) \cup tied(c)) <= Cardinality(won(e))
    BY <2>1, <2>2, FS_Subset
  <2>5. /\ Beaten(deficit, c) = 2 * Cardinality(won(c)) + Cardinality(tied(c))
        /\ Beaten(deficit, e) = 2 * Cardinality(won(e)) + Cardinality(tied(e))
    BY DEF Beaten
  <2> HIDE DEF won, tied
  <2> QED BY <2>1, <2>3, <2>4, <2>5
<1> QED BY <1>1, <1>2

\* Below a score that beats anyone there is a candidate worth as much.
LEMMA CandidateBelow ==
    ASSUME NEW deficit \in Sample, NEW m \in Int, Beaten(deficit, m * Step) > 0
    PROVE  \E c \in Candidates(deficit) :
              c \in Int /\ c <= m * Step /\ Beaten(deficit, c) = Beaten(deficit, m * Step)
<1> DEFINE score  == m * Step
           beaten == {s \in Sims : deficit[s] <= score}
<1>1. score \in Int
  BY StepAssumption
<1>2. beaten # {} /\ beaten \in SUBSET Sims /\ IsFiniteSet(beaten)
  BY <1>1, BeatenFacts, SimsAssumption, FS_Subset
<1> DEFINE f == [s \in beaten |-> deficit[s]]
<1>3. f \in [beaten -> Int]
  BY DEF Sample
<1>4. PICK s \in beaten : \A u \in beaten : f[u] <= f[s]
  BY <1>2, <1>3, Highest
<1>5. s \in Sims /\ deficit[s] \in Int /\ deficit[s] <= score
      /\ \A u \in Sims : deficit[u] <= score => deficit[u] <= deficit[s]
  BY <1>4 DEF Sample
<1> DEFINE grid == OnGrid(deficit[s])
<1>6. grid \in Int /\ deficit[s] <= grid /\ grid <= score
  BY <1>5, OnGridIsCeiling, GridScores
<1>7. grid \in Candidates(deficit) /\ grid + Step \in Candidates(deficit)
  BY <1>5 DEF Candidates
<1>8. ASSUME NEW c \in Int, deficit[s] < c, c <= score
      PROVE  deficit[s] < score => Beaten(deficit, c) = Beaten(deficit, score)
  <2> SUFFICES ASSUME deficit[s] < score
               PROVE  Beaten(deficit, c) = Beaten(deficit, score)
    OBVIOUS
  <2>1. \A u \in Sims : /\ deficit[u] < c <=> deficit[u] < score
                       /\ deficit[u] # c /\ deficit[u] # score
    BY <1>1, <1>5, <1>8 DEF Sample
  <2>2. /\ {u \in Sims : deficit[u] < c} = {u \in Sims : deficit[u] < score}
        /\ {u \in Sims : deficit[u] = c} = {u \in Sims : deficit[u] = score}
    BY <2>1
  <2> QED BY <2>2 DEF Beaten
<1>9. CASE deficit[s] = score
  BY <1>1, <1>5, <1>6, <1>7, <1>9
<1>10. CASE deficit[s] < score /\ deficit[s] < grid
  BY <1>6, <1>7, <1>8, <1>10
<1>11. CASE deficit[s] < score /\ deficit[s] = grid
  <2>1. grid + Step <= score /\ grid + Step \in Int /\ deficit[s] < grid + Step
    BY <1>5, <1>6, <1>11, GridScores, StepAssumption
  <2> QED BY <1>7, <1>8, <1>11, <2>1
<1> QED BY <1>1, <1>5, <1>6, <1>9, <1>10, <1>11

-----------------------------------------------------------------------------
LEMMA CandidatesAreScores ==
    ASSUME NEW deficit \in Sample
    PROVE  Candidates(deficit) \subseteq Int
BY OnGridIsCeiling, StepAssumption DEF Candidates, Sample

\* Some candidate that is better is the lowest.
LEMMA LowestBetter ==
    ASSUME NEW deficit \in Sample, NEW B \in SUBSET Candidates(deficit), B # {}
    PROVE  Min(B) \in B /\ \A c \in B : Min(B) <= c
<1> DEFINE at(k)  == [s \in Sims |-> OnGrid(deficit[s]) + k]
           has(k) == {s \in Sims : at(k)[s] \in B}
<1>1. at(0) \in Sample /\ at(Step) \in Sample
  BY OnGridIsCeiling, StepAssumption DEF Sample
<1>2. B \subseteq Int
  BY CandidatesAreScores
<1>3. \A c \in B : \/ \E s \in has(0) : c = at(0)[s]
                   \/ \E s \in has(Step) : c = at(Step)[s]
  <2> TAKE c \in B
  <2>1. PICK s \in Sims : c = OnGrid(deficit[s]) \/ c = OnGrid(deficit[s]) + Step
    BY DEF Candidates
  <2>2. OnGrid(deficit[s]) \in Int
    BY OnGridIsCeiling DEF Sample
  <2>3. at(0)[s] = OnGrid(deficit[s]) /\ at(Step)[s] = OnGrid(deficit[s]) + Step
    BY <2>2
  <2> QED BY <2>1, <2>3
<1>4. \A k \in {0, Step} : has(k) # {} =>
         \E low \in B : \A s \in has(k) : low <= at(k)[s]
  <2> TAKE k \in {0, Step}
  <2> HAVE has(k) # {}
  <2>1. at(k) \in Sample /\ has(k) \in SUBSET Sims
    BY <1>1
  <2>2. PICK s \in has(k) : \A u \in has(k) : at(k)[s] <= at(k)[u]
    BY <2>1, LowestSuch
  <2> QED BY <2>2
<1>5. \E low \in B : \A c \in B : low <= c
  <2> HIDE DEF at, has
  <2>1. CASE has(0) = {}
    BY <1>3, <1>4, <2>1
  <2>2. CASE has(Step) = {}
    BY <1>3, <1>4, <2>2
  <2>3. CASE has(0) # {} /\ has(Step) # {}
    <3>1. PICK l \in B : \A s \in has(0) : l <= at(0)[s]
      BY <1>4, <2>3
    <3>2. PICK h \in B : \A s \in has(Step) : h <= at(Step)[s]
      BY <1>4, <2>3
    <3>3. CASE l <= h
      BY <1>2, <1>3, <3>1, <3>2, <3>3
    <3>4. CASE h <= l
      BY <1>2, <1>3, <3>1, <3>2, <3>4
    <3> QED BY <1>2, <3>3, <3>4
  <2> QED BY <2>1, <2>2, <2>3
<1> QED BY <1>5 DEF Min

\* The decision is the comparison with the break-even: what a standing rule
\* prints days ahead is what evaluate_lock would say that night, for any
\* simulations and any score on the grid (lockin/core/winprob.py evaluate_lock,
\* lock_threshold).
THEOREM ThresholdAgrees ==
    ASSUME NEW rest \in Sample, NEW future \in Sample, NEW opponent \in Sample,
           NEW m \in Int
    PROVE  EvaluateLock(rest, future, m * Step, opponent)
             <=> AtLeast(m * Step, LockThreshold(rest, future, opponent))
<1> DEFINE score   == m * Step
           deficit == Deficit(rest, opponent)
           passed  == PassWorth(rest, future, opponent)
           better  == Better(rest, future, opponent)
<1>1. score \in Int /\ deficit \in Sample
  BY StepAssumption DEF Deficit, Sample
<1>2. passed \in Nat
  <2>1. \A T \in SUBSET Sims : Cardinality(T) \in Nat
    BY SimsAssumption, FS_Subset, FS_CardinalityType
  <2> DEFINE mine == [s \in Sims |-> rest[s] + future[s]]
             won  == {s \in Sims : mine[s] > opponent[s]}
             tied == {s \in Sims : mine[s] = opponent[s]}
  <2>2. Cardinality(won) \in Nat /\ Cardinality(tied) \in Nat
    BY <2>1
  <2>3. passed = 2 * Cardinality(won) + Cardinality(tied)
    BY DEF PassWorth, WinProbability
  <2> HIDE DEF won, tied, passed
  <2> QED BY <2>2, <2>3
<1>3. LockWorth(rest, score, opponent) = Beaten(deficit, score)
  <2> DEFINE mine == [s \in Sims |-> rest[s] + score]
  <2>1. \A s \in Sims : /\ rest[s] \in Int /\ opponent[s] \in Int
                       /\ mine[s] = rest[s] + score
                       /\ deficit[s] = opponent[s] - rest[s]
    BY DEF Deficit, Sample
  <2>2. LockWorth(rest, score, opponent)
          = 2 * Cardinality({s \in Sims : mine[s] > opponent[s]})
              + Cardinality({s \in Sims : mine[s] = opponent[s]})
    BY DEF LockWorth, WinProbability
  <2>3. Beaten(deficit, score)
          = 2 * Cardinality({s \in Sims : deficit[s] < score})
              + Cardinality({s \in Sims : deficit[s] = score})
    BY DEF Beaten
  <2> HIDE DEF mine, deficit, score
  <2>4. \A s \in Sims : mine[s] > opponent[s] <=> deficit[s] < score
    BY <1>1, <2>1
  <2>5. \A s \in Sims : mine[s] = opponent[s] <=> deficit[s] = score
    BY <1>1, <2>1
  <2>6. {s \in Sims : mine[s] > opponent[s]} = {s \in Sims : deficit[s] < score}
    BY ONLY <2>4, Zenon
  <2>7. {s \in Sims : mine[s] = opponent[s]} = {s \in Sims : deficit[s] = score}
    BY ONLY <2>5, Zenon
  <2> QED BY <2>2, <2>3, <2>6, <2>7
<1>4. better = {c \in Candidates(deficit) : Beaten(deficit, c) > passed}
  BY DEF Better
<1>5. better # {} => Min(better) \in better /\ \A c \in better : Min(better) <= c
  BY <1>1, <1>4, LowestBetter
<1>6. better \subseteq Int
  BY <1>1, <1>4, CandidatesAreScores
<1>7. ASSUME Beaten(deficit, score) > passed
      PROVE  better # {} /\ score >= Min(better)
  <2>1. Beaten(deficit, score) > 0
    BY <1>1, <1>2, <1>7, BeatenFacts
  <2>2. PICK c \in Candidates(deficit) :
            c \in Int /\ c <= score /\ Beaten(deficit, c) = Beaten(deficit, score)
    BY <1>1, <2>1, CandidateBelow
  <2>3. c \in better
    BY <1>4, <1>7, <2>2
  <2> QED BY <1>1, <1>5, <1>6, <2>2, <2>3
<1>8. ASSUME better # {}, score >= Min(better)
      PROVE  Beaten(deficit, score) > passed
  <2>1. Min(better) \in Int /\ Beaten(deficit, Min(better)) > passed
    BY <1>4, <1>5, <1>6, <1>8
  <2>2. Beaten(deficit, Min(better)) <= Beaten(deficit, score)
    BY <1>1, <1>8, <2>1, BeatenMonotone
  <2>3. Beaten(deficit, Min(better)) \in Nat /\ Beaten(deficit, score) \in Nat
    BY <1>1, <2>1, BeatenFacts
  <2> QED BY <1>2, <2>1, <2>2, <2>3
<1>9. EvaluateLock(rest, future, score, opponent) <=> Beaten(deficit, score) > passed
  BY <1>3 DEF EvaluateLock
<1>10. AtLeast(score, LockThreshold(rest, future, opponent))
         <=> better # {} /\ score >= Min(better)
  <2>1. CASE better = {}
    BY <2>1 DEF AtLeast, LockThreshold
  <2>2. CASE better # {}
    <3>1. Min(better) # NoScore
      BY <1>5, <1>6, <2>2, ThresholdsAssumption
    <3> QED BY <2>2, <3>1 DEF AtLeast, LockThreshold
  <2> QED BY <2>1, <2>2
<1> QED BY <1>7, <1>8, <1>9, <1>10
-----------------------------------------------------------------------------
\* Least and greatest.

LEMMA LeastNat ==
    ASSUME NEW T \in SUBSET Nat, T # {}
    PROVE  \E n \in T : \A m \in T : n <= m
<1>1. PICK n \in T : \A m \in T : ~ (<<m, n>> \in OpToRel(<, Nat))
  BY NatLessThanWellFounded, WFMin
<1>2. \A m \in T : ~ (m < n)
  BY <1>1 DEF OpToRel
<1> QED BY <1>2

\* A set of sets that is not empty has one none of whose elements can go.
LEMMA SmallestSet ==
    ASSUME NEW S, IsFiniteSet(S), NEW T \in SUBSET (SUBSET S), T # {}
    PROVE  \E s \in T : \A x \in s : s \ {x} \notin T
<1> DEFINE Sizes == {Cardinality(s) : s \in T}
<1>1. \A s \in T : IsFiniteSet(s) /\ Cardinality(s) \in Nat
  BY FS_Subset, FS_CardinalityType
<1>2. PICK n \in Sizes : \A m \in Sizes : n <= m
  <2>1. Sizes \subseteq Nat /\ Sizes # {}
    BY <1>1
  <2> QED BY ONLY <2>1, LeastNat
<1>3. PICK s \in T : n = Cardinality(s)
  OBVIOUS
<1>4. \A x \in s : Cardinality(s \ {x}) = n - 1
  BY <1>1, <1>3, FS_RemoveElement
<1>5. n \in Nat /\ \A x \in s : s \ {x} \notin T
  BY <1>1, <1>2, <1>3, <1>4
<1> QED BY <1>5

LEMMA Extremes ==
    ASSUME NEW S, IsFiniteSet(S), S # {}, S \subseteq Int
    PROVE  /\ Min(S) \in S /\ \A x \in S : Min(S) <= x
           /\ Max(S) \in S /\ \A x \in S : x <= Max(S)
<1> DEFINE up == [s \in S |-> s]
           down == [s \in S |-> - s]
<1>1. up \in [S -> Int] /\ down \in [S -> Int]
  OBVIOUS
<1>2. PICK h \in S : \A u \in S : up[u] <= up[h]
  BY <1>1, Highest
<1>3. PICK l \in S : \A u \in S : down[u] <= down[l]
  BY <1>1, Highest
<1>4. \A u \in S : h >= u /\ l <= u
  <2> TAKE u \in S
  <2>1. up[u] = u /\ up[h] = h /\ down[u] = - u /\ down[l] = - l
    OBVIOUS
  <2>2. up[u] <= up[h] /\ down[u] <= down[l]
    BY <1>2, <1>3
  <2>3. u \in Int /\ h \in Int /\ l \in Int
    OBVIOUS
  <2> HIDE DEF up, down
  <2> QED BY <2>1, <2>2, <2>3
<1>5. Min(S) \in S /\ \A x \in S : Min(S) <= x
  BY <1>4 DEF Min
<1>6. Max(S) \in S /\ \A x \in S : Max(S) >= x
  BY <1>4 DEF Max
<1> QED BY <1>5, <1>6

-----------------------------------------------------------------------------
\* A sum is a fold over the subsets of what is summed, one element at a time.

OneOf(s) == CHOOSE x \in s : TRUE

LEMMA SumSteps ==
    ASSUME NEW f, IsFiniteSet(DOMAIN f)
    PROVE  \E h : /\ SumOf(f) = h[DOMAIN f]
                  /\ \A s \in SUBSET DOMAIN f :
                        h[s] = IF s = {} THEN 0 ELSE f[OneOf(s)] + h[s \ {OneOf(s)}]
<1> DEFINE S == DOMAIN f
           Body(h, s) == IF s = {} THEN 0 ELSE f[OneOf(s)] + h[s \ {OneOf(s)}]
           Upto(n) == {s \in SUBSET S : Cardinality(s) <= n}
           Bad == {n \in Nat : ~ \E h : \A s \in Upto(n) : h[s] = Body(h, s)}
<1>1. \A s \in SUBSET S : /\ IsFiniteSet(s) /\ Cardinality(s) \in Nat
                          /\ (s = {} <=> Cardinality(s) = 0)
                          /\ (s # {} => /\ OneOf(s) \in s
                                        /\ Cardinality(s \ {OneOf(s)}) = Cardinality(s) - 1)
  BY FS_Subset, FS_CardinalityType, FS_EmptySet, FS_RemoveElement DEF OneOf
<1>2. ASSUME Bad # {} PROVE FALSE
  <2>1. PICK n \in Bad : \A m \in Bad : n <= m
    BY <1>2, LeastNat
  <2>2. n # 0
    <3> DEFINE h == [s \in Upto(0) |-> 0]
    <3>1. \A s \in Upto(0) : s = {} /\ h[s] = 0
      <4> TAKE s \in Upto(0)
      <4>1. s \in SUBSET S /\ Cardinality(s) \in Nat /\ Cardinality(s) <= 0
        BY <1>1
      <4>2. s = {}
        <5>1. Cardinality(s) = 0
          BY ONLY <4>1
        <5> QED BY <1>1, <4>1, <5>1
      <4>3. h[s] = 0
        OBVIOUS
      <4> QED BY <4>2, <4>3
    <3> HIDE DEF h
    <3>2. \A s \in Upto(0) : h[s] = Body(h, s)
      BY <3>1
    <3>3. 0 \notin Bad
      BY <3>2
    <3> QED BY <3>3
  <2>3. n - 1 \in Nat /\ n - 1 \notin Bad
    <3>1. n \in Nat /\ n - 1 \in Nat /\ ~ (n <= n - 1)
      BY <2>1, <2>2
    <3> QED BY <2>1, <3>1
  <2>4. PICK h : \A s \in Upto(n - 1) : h[s] = Body(h, s)
    BY <2>3
  <2> DEFINE longer == [s \in Upto(n) |-> Body(h, s)]
  <2>5. \A s \in Upto(n) : longer[s] = Body(h, s)
    OBVIOUS
  <2>6. \A s \in Upto(n - 1) : s \in Upto(n)
    <3>1. n \in Nat
      BY <2>1
    <3> TAKE s \in Upto(n - 1)
    <3>2. s \in SUBSET S /\ Cardinality(s) \in Nat /\ Cardinality(s) <= n - 1
      BY <1>1
    <3>3. Cardinality(s) <= n
      BY <3>1, <3>2
    <3> QED BY <3>2, <3>3
  <2>7. \A s \in Upto(n) : s # {} => s \ {OneOf(s)} \in Upto(n - 1)
    <3> TAKE s \in Upto(n)
    <3> HAVE s # {}
    <3>1. /\ n \in Nat /\ Cardinality(s) \in Nat /\ Cardinality(s) <= n
          /\ Cardinality(s \ {OneOf(s)}) = Cardinality(s) - 1
      BY <1>1, <2>1
    <3>2. Cardinality(s \ {OneOf(s)}) <= n - 1
      BY <3>1
    <3> QED BY <3>2
  <2> HIDE DEF longer, Upto
  <2>8. \A s \in Upto(n) : longer[s] = Body(longer, s)
    BY <2>4, <2>5, <2>6, <2>7
  <2> QED BY <2>8
<1> HIDE DEF Bad
<1>3. PICK h : \A s \in SUBSET S : h[s] = Body(h, s)
  <2>1. IsFiniteSet(S) /\ Cardinality(S) \in Nat
    BY FS_CardinalityType
  <2>2. Upto(Cardinality(S)) = SUBSET S
    BY <2>1, FS_Subset
  <2>3. \E h : \A s \in Upto(Cardinality(S)) : h[s] = Body(h, s)
    BY <1>2, <2>1 DEF Bad
  <2> QED BY <2>2, <2>3
<1> DEFINE IsIter(i) ==
        i = [s \in SUBSET S |-> IF s = {} THEN 0
                                ELSE f[CHOOSE x \in s : TRUE] + i[s \ {CHOOSE x \in s : TRUE}]]
<1>4. IsIter([s \in SUBSET S |-> h[s]])
  <2> DEFINE i == [s \in SUBSET S |-> h[s]]
  <2>1. \A s \in SUBSET S : i[s] = Body(i, s)
    BY <1>3
  <2> HIDE DEF i
  <2>2. i = [s \in SUBSET S |-> i[s]]
    BY DEF i
  <2>3. i = [s \in SUBSET S |-> Body(i, s)]
    BY <2>1, <2>2
  <2> QED BY <2>3 DEF OneOf, i
<1>5. SumOf(f) = (CHOOSE i : IsIter(i))[S]
  BY DEF SumOf, MapThenSumSet, MapThenFoldSet
<1>6. PICK i : IsIter(i) /\ SumOf(f) = i[S]
  BY <1>4, <1>5
<1>7. \A s \in SUBSET S : i[s] = Body(i, s)
  BY <1>6 DEF OneOf
<1> QED BY <1>6, <1>7

LEMMA SumIsInt ==
    ASSUME NEW f, IsFiniteSet(DOMAIN f), \A x \in DOMAIN f : f[x] \in Int
    PROVE  SumOf(f) \in Int
<1>1. PICK h : /\ SumOf(f) = h[DOMAIN f]
               /\ \A s \in SUBSET DOMAIN f :
                     h[s] = IF s = {} THEN 0 ELSE f[OneOf(s)] + h[s \ {OneOf(s)}]
  BY SumSteps
<1> DEFINE Bad == {s \in SUBSET DOMAIN f : h[s] \notin Int}
<1>2. ASSUME Bad # {} PROVE FALSE
  <2>1. PICK s \in Bad : \A x \in s : s \ {x} \notin Bad
    BY <1>2, SmallestSet
  <2>2. s # {}
    <3>1. h[{}] = 0 /\ h[{}] \in Int
      BY <1>1
    <3> QED BY <3>1
  <2>3. OneOf(s) \in s
    BY <2>2 DEF OneOf
  <2>4. PICK x : x = OneOf(s)
    OBVIOUS
  <2>5. s \in SUBSET DOMAIN f /\ s \ {x} \in SUBSET DOMAIN f /\ h[s] \notin Int
    BY <2>1
  <2>6. h[s \ {x}] \in Int /\ f[x] \in Int
    BY <2>1, <2>3, <2>4, <2>5
  <2>7. h[s] = f[x] + h[s \ {x}]
    BY <1>1, <2>2, <2>4, <2>5
  <2> QED BY <2>5, <2>6, <2>7
<1> QED BY <1>1, <1>2

\* What is no more, one by one, is no more in all.
LEMMA SumIsMonotone ==
    ASSUME NEW f, NEW g, DOMAIN f = DOMAIN g, IsFiniteSet(DOMAIN f),
           \A x \in DOMAIN f : f[x] \in Int /\ g[x] \in Int /\ f[x] <= g[x]
    PROVE  SumOf(f) <= SumOf(g)
<1>1. PICK h : /\ SumOf(f) = h[DOMAIN f]
               /\ \A s \in SUBSET DOMAIN f :
                     h[s] = IF s = {} THEN 0 ELSE f[OneOf(s)] + h[s \ {OneOf(s)}]
  BY SumSteps
<1>2. PICK i : /\ SumOf(g) = i[DOMAIN g]
               /\ \A s \in SUBSET DOMAIN g :
                     i[s] = IF s = {} THEN 0 ELSE g[OneOf(s)] + i[s \ {OneOf(s)}]
  BY SumSteps
<1> DEFINE Bad == {s \in SUBSET DOMAIN f : ~ (h[s] \in Int /\ i[s] \in Int /\ h[s] <= i[s])}
<1>3. ASSUME Bad # {} PROVE FALSE
  <2>1. PICK s \in Bad : \A x \in s : s \ {x} \notin Bad
    BY <1>3, SmallestSet
  <2>2. s # {}
    <3>1. h[{}] = 0 /\ i[{}] = 0
      BY <1>1, <1>2
    <3> QED BY <3>1
  <2>3. OneOf(s) \in s
    BY <2>2 DEF OneOf
  <2> DEFINE r == s \ {OneOf(s)}
             x == OneOf(s)
  <2>4. h[r] \in Int /\ i[r] \in Int /\ h[r] <= i[r]
    BY <2>1, <2>3
  <2>5. f[x] \in Int /\ g[x] \in Int /\ f[x] <= g[x]
    BY <2>3
  <2>6. h[s] = f[x] + h[r] /\ i[s] = g[x] + i[r]
    BY <1>1, <1>2, <2>2
  <2> HIDE DEF r, x
  <2> QED BY <2>4, <2>5, <2>6
<1> QED BY <1>1, <1>2, <1>3

-----------------------------------------------------------------------------
\* A player's week, as long as the world is of its types.

WeekOK ==
    /\ fixtures \in Fixtures
    /\ outcome \in [Players -> [Days -> Scores \cup {Out}]]
    /\ draws \in Tables /\ debut \in Debuts

LEMMA TeamFacts ==
    /\ IsFiniteSet(Mine) /\ IsFiniteSet(Theirs)
    /\ Mine \subseteq Players /\ Theirs \subseteq Players /\ Players \subseteq Nat
BY RolloutAssumption DEF Players

LEMMA DayFacts ==
    /\ IsFiniteSet(Days) /\ Days \subseteq Nat \ {0} /\ LastDay \in Nat \ {0}
    /\ \A S \in SUBSET Days : IsFiniteSet(S) /\ S \subseteq Int
<1>1. LastDay \in Nat \ {0}
  BY RolloutAssumption
<1>2. IsFiniteSet(1..LastDay)
  BY <1>1, FS_Interval
<1>3. IsFiniteSet(Days) /\ Days \subseteq Nat \ {0}
  <2>1. Days = 1..LastDay
    BY DEF Days
  <2>2. 1..LastDay \subseteq Nat \ {0}
    BY <1>1
  <2> QED BY <1>2, <2>1, <2>2
<1>4. ASSUME NEW S \in SUBSET Days PROVE IsFiniteSet(S) /\ S \subseteq Int
  <2>1. IsFiniteSet(S)
    BY <1>3, FS_Subset
  <2>2. S \subseteq Int
    BY <1>3
  <2> QED BY <2>1, <2>2
<1> QED BY <1>1, <1>3, <1>4

LEMMA FixtureFacts ==
    ASSUME WeekOK, NEW p \in Players
    PROVE  /\ fixtures[p] \in SUBSET Days /\ fixtures[p] # {}
           /\ Max(fixtures[p]) \in fixtures[p] /\ \A d \in fixtures[p] : d <= Max(fixtures[p])
           /\ \A k : /\ Seen(p, k) \in SUBSET Days /\ Seen(p, k) \subseteq fixtures[p]
                     /\ Ahead(p, k) \in SUBSET Days /\ Ahead(p, k) \subseteq fixtures[p]
<1>1. fixtures[p] \in SUBSET Days /\ fixtures[p] # {}
  BY RolloutAssumption DEF WeekOK
<1>2. Max(fixtures[p]) \in fixtures[p] /\ \A d \in fixtures[p] : d <= Max(fixtures[p])
  BY <1>1, DayFacts, Extremes
<1> QED BY <1>1, <1>2 DEF Seen, Ahead

LEMMA DayExtremes ==
    ASSUME NEW S \in SUBSET Days, S # {}
    PROVE  /\ Min(S) \in S /\ \A d \in S : Min(S) <= d
           /\ Max(S) \in S /\ \A d \in S : d <= Max(S)
<1>1. IsFiniteSet(S) /\ S \subseteq Int
  BY DayFacts
<1> QED BY ONLY <1>1, S # {}, Extremes

\* A score is a whole number of steps, and never below zero.
LEMMA ScoreFacts ==
    ASSUME WeekOK, NEW p \in Players, NEW d \in Days
    PROVE  /\ Score(p, d) \in Nat
           /\ Played(p, d) => Score(p, d) = outcome[p][d]
           /\ \E m \in Int : Score(p, d) = m * Step
<1>1. outcome[p][d] \in Scores \cup {Out}
  BY DEF WeekOK
<1>2. CASE outcome[p][d] \in Scores
  <2>1. Score(p, d) = outcome[p][d] /\ Played(p, d)
    BY <1>2, RolloutAssumption DEF Score, Played
  <2> DEFINE x == outcome[p][d]
  <2>2. x \in Nat /\ x % Step = 0
    BY <1>2, RolloutAssumption
  <2> HIDE DEF x
  <2>3. x = Step * (x \div Step) /\ x \div Step \in Int
    BY <2>2, StepAssumption
  <2>4. x = (x \div Step) * Step
    BY <2>2, <2>3, StepAssumption
  <2> QED BY <2>1, <2>2, <2>3, <2>4 DEF x
<1>3. CASE outcome[p][d] = Out
  <2>1. Score(p, d) = 0 /\ ~ Played(p, d)
    BY <1>3 DEF Score, Played
  <2>2. 0 = 0 * Step
    BY StepAssumption
  <2> QED BY <2>1, <2>2
<1> QED BY <1>1, <1>2, <1>3

LEMMA DrawFacts ==
    ASSUME WeekOK, NEW p \in Players, NEW d \in Days
    PROVE  draws[p][d] \in [Sims -> Nat] /\ draws[p][d] \in Sample
<1>1. draws \in [Players -> [Days -> [Sims -> Nat]]]
  BY RolloutAssumption DEF WeekOK
<1> QED BY <1>1 DEF Sample

-----------------------------------------------------------------------------
\* What is summed and compared are samples.

LEMMA ContributionIsSample ==
    ASSUME WeekOK, NEW p \in Players, NEW known, NEW actFrom
    PROVE  Contribution(p, known, actFrom) \in Sample
<1> DEFINE left == Ahead(p, known)
           base == BasePolicyThresholds(draws[p], left)
           limit == [d \in left |-> IF d < actFrom THEN NoScore ELSE base[d]]
           rides == [s \in Sims |-> FinalScore(p)]
<1>1. rides \in Sample
  <2>1. FinalScore(p) \in Nat
    BY FixtureFacts, ScoreFacts DEF FinalScore
  <2> QED BY <2>1 DEF Sample
<1>2. CASE left # {}
  <2> DEFINE fires(s) == {d \in left : Clears(draws[p][d][s], limit[d])}
             day(s) == IF fires(s) = {} THEN Max(left) ELSE Min(fires(s))
  <2>1. left \in SUBSET Days
    BY FixtureFacts
  <2>2. \A s \in Sims : day(s) \in Days
    <3> TAKE s \in Sims
    <3>1. fires(s) \in SUBSET Days
      BY <2>1
    <3> HIDE DEF fires, left
    <3> QED BY <1>2, <2>1, <3>1, DayExtremes
  <2> HIDE DEF day
  <2>3. \A s \in Sims : draws[p][day(s)][s] \in Int
    BY <2>2, DrawFacts DEF Sample
  <2>4. ApplyBasePolicy(draws[p], left, limit) = [s \in Sims |-> draws[p][day(s)][s]]
    BY DEF ApplyBasePolicy, day
  <2>5. ApplyBasePolicy(draws[p], left, limit) \in Sample
    BY <2>3, <2>4 DEF Sample
  <2> HIDE DEF left, base, limit, rides
  <2>6. Contribution(p, known, actFrom)
          = IF left = {} \/ ~Projectable(p, known + 1) THEN rides
            ELSE ApplyBasePolicy(draws[p], left, limit)
    BY DEF Contribution, left, base, limit, rides
  <2> QED BY <1>1, <2>5, <2>6
<1>3. CASE left = {}
  BY <1>1, <1>3 DEF Contribution
<1> QED BY <1>2, <1>3

\* Locks of which a sum can be made.
Placed(held, k) ==
    /\ held = [p \in DOMAIN held |-> held[p]]
    /\ DOMAIN held \subseteq Players
    /\ \A p \in DOMAIN held : held[p] \in fixtures[p] /\ held[p] <= k

LEMMA TotalsAreSamples ==
    ASSUME WeekOK, NEW known, NEW polled, NEW held, NEW k, Placed(held, k)
    PROVE  OpponentTotals(known, polled, held) \in Sample
<1> DEFINE each == [p \in Theirs |->
            IF polled
            THEN IF p \in KnownBank(known, held) THEN [s \in Sims |-> Score(p, held[p])]
                 ELSE StandInKnown(p, known)
            ELSE StandIn(p, known)]
<1>1. ASSUME NEW p \in Theirs PROVE each[p] \in Sample
  <2>1. p \in Players
    BY TeamFacts
  <2>2. AtOnce(p, known) \in Sample
    BY <2>1, ContributionIsSample DEF AtOnce
  <2>3. \A d \in Days : [s \in Sims |-> Score(p, d)] \in Sample
    BY <2>1, ScoreFacts DEF Sample
  <2>4. p \in KnownBank(known, held) => [s \in Sims |-> Score(p, held[p])] \in Sample
    <3>1. p \in KnownBank(known, held) => held[p] \in Days
      BY <2>1, FixtureFacts DEF KnownBank, Placed
    <3> QED BY <2>3, <3>1
  <2>5. StandInKnown(p, known) \in Sample
    <3>1. Seen(p, known) # {} => Max(Seen(p, known)) \in Days
      BY <2>1, FixtureFacts, DayExtremes
    <3> QED BY <2>2, <2>3, <3>1 DEF StandInKnown
  <2>6. StandIn(p, known) \in Sample
    <3> DEFINE locks == StandInLocks(p, known)
    <3>1. locks \in SUBSET Days
      BY <2>1, FixtureFacts DEF StandInLocks, ReplayLocks
    <3> HIDE DEF locks
    <3>2. locks # {} => Min(locks) \in Days
      BY <3>1, DayExtremes
    <3>3. StandIn(p, known) = IF locks # {} THEN [s \in Sims |-> Score(p, Min(locks))]
                              ELSE AtOnce(p, known)
      BY DEF StandIn, locks
    <3> QED BY <2>2, <2>3, <3>2, <3>3
  <2> QED BY <2>4, <2>5, <2>6
<1> HIDE DEF each
<1>2. \A s \in Sims : SumOf([p \in Theirs |-> each[p][s]]) \in Int
  <2> TAKE s \in Sims
  <2> DEFINE f == [p \in Theirs |-> each[p][s]]
  <2>1. DOMAIN f = Theirs /\ IsFiniteSet(DOMAIN f)
    BY TeamFacts
  <2>2. \A p \in DOMAIN f : f[p] \in Int
    BY <1>1 DEF Sample
  <2> QED BY ONLY <2>1, <2>2, SumIsInt
<1>3. OpponentTotals(known, polled, held) = [s \in Sims |-> SumOf([p \in Theirs |-> each[p][s]])]
  BY DEF OpponentTotals, each
<1> QED BY <1>2, <1>3 DEF Sample

LEMMA RestIsSample ==
    ASSUME WeekOK, NEW locked, NEW k, Placed(locked, k), NEW p, NEW each,
           \A q \in Unlocked(locked) : each[q] \in Sample
    PROVE  Rest(p, locked, each) \in Sample
<1>1. Banked(locked) \in Int
  <2> DEFINE f == [q \in DOMAIN locked |-> Score(q, locked[q])]
  <2>1. IsFiniteSet(DOMAIN f)
    <3>1. IsFiniteSet(Players)
      BY TeamFacts, FS_Union DEF Players
    <3> QED BY <3>1, FS_Subset DEF Placed
  <2>2. \A q \in DOMAIN f : f[q] \in Int
    BY FixtureFacts, ScoreFacts DEF Placed
  <2>3. SumOf(f) \in Int
    BY ONLY <2>1, <2>2, SumIsInt
  <2> QED BY <2>3 DEF Banked
<1>2. \A s \in Sims : SumOf([q \in Unlocked(locked) \ {p} |-> each[q][s]]) \in Int
  <2> TAKE s \in Sims
  <2> DEFINE f == [q \in Unlocked(locked) \ {p} |-> each[q][s]]
  <2>1. IsFiniteSet(DOMAIN f)
    BY TeamFacts, FS_Subset DEF Unlocked
  <2>2. \A q \in DOMAIN f : f[q] \in Int
    BY DEF Sample
  <2> QED BY ONLY <2>1, <2>2, SumIsInt
<1> DEFINE total == [s \in Sims |-> SumOf([q \in Unlocked(locked) \ {p} |-> each[q][s]])]
<1>3. \A s \in Sims : total[s] \in Int
  BY <1>2
<1>4. Rest(p, locked, each) = [s \in Sims |-> Banked(locked) + total[s]]
  BY DEF Rest
<1> HIDE DEF total
<1> QED BY <1>1, <1>3, <1>4 DEF Sample

-----------------------------------------------------------------------------
\* A call agrees with its break-even.

LEMMA DecisionAgrees ==
    ASSUME WeekOK, NEW locked, NEW k, Placed(locked, k), NEW known,
           NEW p \in Unlocked(locked), NEW d \in Days, NEW opponent \in Sample
    PROVE  LET decision == DecisionFor(p, Score(p, d), known, locked, opponent)
           IN  decision.lock <=> AtLeast(Score(p, d), decision.breakEven)
<1> DEFINE each == [q \in Unlocked(locked) |-> AtOnce(q, known)]
           rest == Rest(p, locked, each)
<1>1. \A q \in Unlocked(locked) : each[q] \in Sample
  BY TeamFacts, ContributionIsSample DEF AtOnce, Unlocked
<1>2. rest \in Sample
  <2> HIDE DEF each
  <2> QED BY <1>1, RestIsSample
<1>3. each[p] \in Sample
  BY <1>1
<1>4. PICK m \in Int : Score(p, d) = m * Step
  BY TeamFacts, ScoreFacts DEF Unlocked
<1>5. DecisionFor(p, Score(p, d), known, locked, opponent)
        = [lock |-> EvaluateLock(rest, each[p], Score(p, d), opponent),
           breakEven |-> LockThreshold(rest, each[p], opponent)]
  BY DEF DecisionFor
<1> HIDE DEF rest, each
<1>6. EvaluateLock(rest, each[p], m * Step, opponent)
        <=> AtLeast(m * Step, LockThreshold(rest, each[p], opponent))
  BY <1>2, <1>3, ThresholdAgrees
<1> QED BY <1>4, <1>5, <1>6

\* The locks a live digest is given, or infers.
Locked(mode, m, held) == IF mode = "supplied" THEN Supplied(held) ELSE Inferred(m, held)

LEMMA LiveIsSaid ==
    ASSUME NEW mode, NEW m, NEW held, ~ ColdStart(m)
    PROVE  Live(mode, m, held)
             = Says(m, Locked(mode, m, held), OpponentTotals(m - 1, Polled, held))
BY DEF Live, Locked

LEMMA PartIsPlaced ==
    ASSUME NEW held, NEW k, Placed(held, k), NEW S \in SUBSET DOMAIN held
    PROVE  Placed([p \in S |-> held[p]], k)
<1> DEFINE some == [p \in S |-> held[p]]
<1>1. DOMAIN some = S /\ some = [p \in DOMAIN some |-> some[p]]
      /\ \A p \in DOMAIN some : some[p] = held[p]
  OBVIOUS
<1> HIDE DEF some
<1>2. DOMAIN some \subseteq Players
      /\ \A p \in DOMAIN some : some[p] \in fixtures[p] /\ some[p] <= k
  BY <1>1 DEF Placed
<1>3. Placed(some, k)
  BY ONLY <1>1, <1>2 DEF Placed
<1> QED BY <1>3 DEF some

LEMMA LockedFacts ==
    ASSUME NEW mode, NEW m, NEW held, NEW k, Placed(held, k)
    PROVE  /\ Placed(Locked(mode, m, held), k)
           /\ DOMAIN Locked(mode, m, held) \subseteq DOMAIN held \cap Mine
<1>1. CASE mode = "supplied"
  <2>1. Locked(mode, m, held) = [p \in DOMAIN held \cap Mine |-> held[p]]
    BY <1>1 DEF Locked, Supplied
  <2>2. DOMAIN held \cap Mine \in SUBSET DOMAIN held
    OBVIOUS
  <2> QED BY <2>1, <2>2, PartIsPlaced
<1>2. CASE mode # "supplied"
  <2>1. Locked(mode, m, held) = [p \in KnownBank(m - 1, held) \cap Mine |-> held[p]]
    BY <1>2 DEF Locked, Inferred
  <2>2. KnownBank(m - 1, held) \cap Mine \in SUBSET DOMAIN held
    BY DEF KnownBank
  <2> QED BY <2>1, <2>2, PartIsPlaced
<1> QED BY <1>1, <1>2

LEMMA CallableFacts ==
    ASSUME WeekOK, NEW m, NEW locked, NEW p \in Callable(m, locked)
    PROVE  /\ p \in Unlocked(locked) /\ p \in Players
           /\ Seen(p, m - 1) # {} /\ Max(Seen(p, m - 1)) \in Days
<1>1. p \in Unlocked(locked) /\ p \in Players /\ Seen(p, m - 1) # {}
  BY TeamFacts DEF Callable, Unlocked
<1> QED BY <1>1, FixtureFacts, DayExtremes

\* What a digest that does not abstain says of one call.
LEMMA CallFacts ==
    ASSUME NEW m, NEW locked, NEW opponent, NEW p \in Callable(m, locked)
    PROVE  LET said == Says(m, locked, opponent)
               d == Max(Seen(p, m - 1))
               decision == DecisionFor(p, Score(p, d), m - 1, locked, opponent)
           IN  /\ DOMAIN said.calls = Callable(m, locked)
               /\ said.calls[p].day = d /\ said.calls[p].score = Score(p, d)
               /\ said.calls[p].lock = decision.lock
               /\ said.calls[p].breakEven = decision.breakEven
BY DEF Says

LEMMA SaysAgrees ==
    ASSUME WeekOK, NEW mode, NEW held, NEW k, Placed(held, k), NEW m, ~ ColdStart(m)
    PROVE  LET live == Live(mode, m, held)
           IN  /\ DOMAIN live.calls = Callable(m, Locked(mode, m, held))
               /\ \A p \in DOMAIN live.calls :
                     /\ live.calls[p].day = Max(Seen(p, m - 1))
                     /\ live.calls[p].lock
                          <=> AtLeast(live.calls[p].score, live.calls[p].breakEven)
<1> DEFINE locked == Locked(mode, m, held)
           opponent == OpponentTotals(m - 1, Polled, held)
           said == Says(m, locked, opponent)
<1>1. Live(mode, m, held) = said
  BY LiveIsSaid
<1>2. DOMAIN said.calls = Callable(m, locked)
  BY DEF Says
<1>3. opponent \in Sample
  BY TotalsAreSamples
<1>4. Placed(locked, k)
  BY LockedFacts
<1> HIDE DEF said, opponent, locked
<1>5. ASSUME NEW p \in Callable(m, locked)
      PROVE  /\ said.calls[p].day = Max(Seen(p, m - 1))
             /\ said.calls[p].lock <=> AtLeast(said.calls[p].score, said.calls[p].breakEven)
  <2> DEFINE d == Max(Seen(p, m - 1))
             decision == DecisionFor(p, Score(p, d), m - 1, locked, opponent)
  <2>1. p \in Unlocked(locked) /\ d \in Days
    BY CallableFacts
  <2>2. /\ said.calls[p].day = d /\ said.calls[p].score = Score(p, d)
        /\ said.calls[p].lock = decision.lock /\ said.calls[p].breakEven = decision.breakEven
    BY CallFacts DEF said
  <2> HIDE DEF d
  <2>3. decision.lock <=> AtLeast(Score(p, d), decision.breakEven)
    BY <1>3, <1>4, <2>1, DecisionAgrees
  <2> HIDE DEF decision
  <2>4. said.calls[p].lock <=> AtLeast(said.calls[p].score, said.calls[p].breakEven)
    BY <2>2, <2>3
  <2> QED BY <2>2, <2>4 DEF d
<1> QED BY <1>1, <1>2, <1>5 DEF locked

-----------------------------------------------------------------------------
\* A day's calls, in turn, and the days of a walk: what the folds compute.

LEMMA WeakestIsOne ==
    ASSUME NEW d, NEW s, IsFiniteSet(s), s # {},
           \A p \in s : p \in Int /\ Score(p, d) \in Int
    PROVE  Weakest(s, d) \in s
<1> DEFINE f == [p \in s |-> - Score(p, d)]
<1>1. f \in [s -> Int]
  OBVIOUS
<1>2. PICK l \in s : \A p \in s : f[p] <= f[l]
  BY <1>1, Highest
<1>3. \A p \in s : Score(l, d) <= Score(p, d)
  <2> TAKE p \in s
  <2>1. f[p] = - Score(p, d) /\ f[l] = - Score(l, d) /\ f[p] <= f[l]
    BY <1>2
  <2>2. Score(p, d) \in Int /\ Score(l, d) \in Int
    OBVIOUS
  <2> HIDE DEF f
  <2> QED BY ONLY <2>1, <2>2
<1> DEFINE tied == {p \in s : Score(p, d) = Score(l, d)}
<1>4. IsFiniteSet(tied) /\ tied # {} /\ tied \subseteq Int
  <2>1. IsFiniteSet(tied)
    BY FS_Subset
  <2>2. l \in tied /\ tied \subseteq Int
    OBVIOUS
  <2> QED BY <2>1, <2>2
<1>5. PICK w \in tied : \A p \in tied : w <= p
  <2> HIDE DEF tied
  <2> QED BY ONLY <1>4, Extremes
<1>6. /\ w \in s
      /\ \A q \in s :
            \/ Score(w, d) < Score(q, d)
            \/ Score(w, d) = Score(q, d) /\ w <= q
  <2>1. w \in s /\ Score(w, d) = Score(l, d)
    OBVIOUS
  <2> SUFFICES ASSUME NEW q \in s
               PROVE  \/ Score(w, d) < Score(q, d)
                      \/ Score(w, d) = Score(q, d) /\ w <= q
    BY <2>1
  <2>2. Score(l, d) <= Score(q, d) /\ Score(l, d) \in Int /\ Score(q, d) \in Int
    BY <1>3
  <2>3. CASE Score(q, d) = Score(l, d)
    <3>1. w <= q
      BY <1>5, <2>3
    <3> QED BY <2>1, <2>3, <3>1
  <2>4. CASE Score(q, d) # Score(l, d)
    BY ONLY <2>1, <2>2, <2>4
  <2> QED BY <2>3, <2>4
<1> QED BY <1>6 DEF Weakest

IsTurns(h, d, held, todays, opponent) ==
    /\ InTurn(d, held, todays, opponent) = h[todays]
    /\ \A s \in SUBSET todays : s # {} => Weakest(s, d) \in s
    /\ \A s \in SUBSET todays :
          h[s] = IF s = {} THEN held
                 ELSE BankIfBetter(Weakest(s, d), d, h[s \ {Weakest(s, d)}], opponent)

TurnsAreTaken ==
    \A d, held, todays, opponent :
        (IsFiniteSet(todays) /\ \A p \in todays : p \in Int /\ Score(p, d) \in Int) =>
        \E h : IsTurns(h, d, held, todays, opponent)

LEMMA InTurnSteps == TurnsAreTaken
<1> USE DEF TurnsAreTaken
<1> TAKE d, held, S, opponent
<1> HAVE IsFiniteSet(S) /\ \A p \in S : p \in Int /\ Score(p, d) \in Int
<1> DEFINE w(s) == Weakest(s, d)
           Body(h, s) == IF s = {} THEN held
                         ELSE BankIfBetter(w(s), d, h[s \ {w(s)}], opponent)
           Upto(n) == {s \in SUBSET S : Cardinality(s) <= n}
           Bad == {n \in Nat : ~ \E h : \A s \in Upto(n) : h[s] = Body(h, s)}
<1>1. ASSUME NEW s \in SUBSET S
      PROVE  /\ IsFiniteSet(s) /\ Cardinality(s) \in Nat
             /\ (s = {} <=> Cardinality(s) = 0)
             /\ (s # {} => w(s) \in s /\ Cardinality(s \ {w(s)}) = Cardinality(s) - 1)
  <2>1. IsFiniteSet(s)
    BY FS_Subset
  <2>2. s # {} => w(s) \in s
    <3> HAVE s # {}
    <3>1. \A p \in s : p \in Int /\ Score(p, d) \in Int
      OBVIOUS
    <3> QED BY <2>1, <3>1, WeakestIsOne
  <2> HIDE DEF w
  <2> QED BY <2>1, <2>2, FS_CardinalityType, FS_EmptySet, FS_RemoveElement
<1> HIDE DEF w
<1>2. ASSUME Bad # {} PROVE FALSE
  <2>1. PICK n \in Bad : \A m \in Bad : n <= m
    BY <1>2, LeastNat
  <2>2. n # 0
    <3> DEFINE h == [s \in Upto(0) |-> held]
    <3>1. \A s \in Upto(0) : s = {} /\ h[s] = held
      <4> TAKE s \in Upto(0)
      <4>1. s \in SUBSET S /\ Cardinality(s) \in Nat /\ Cardinality(s) <= 0
        BY <1>1
      <4>2. s = {}
        <5>1. Cardinality(s) = 0
          BY ONLY <4>1
        <5> QED BY <1>1, <4>1, <5>1
      <4>3. h[s] = held
        OBVIOUS
      <4> QED BY <4>2, <4>3
    <3> HIDE DEF h
    <3>2. \A s \in Upto(0) : h[s] = Body(h, s)
      BY <3>1
    <3>3. 0 \notin Bad
      BY <3>2
    <3> QED BY <3>3
  <2>3. n - 1 \in Nat /\ n - 1 \notin Bad
    <3>1. n \in Nat /\ n - 1 \in Nat /\ ~ (n <= n - 1)
      BY <2>1, <2>2
    <3> QED BY <2>1, <3>1
  <2>4. PICK h : \A s \in Upto(n - 1) : h[s] = Body(h, s)
    BY <2>3
  <2> DEFINE longer == [s \in Upto(n) |-> Body(h, s)]
  <2>5. \A s \in Upto(n) : longer[s] = Body(h, s)
    OBVIOUS
  <2>6. \A s \in Upto(n - 1) : s \in Upto(n)
    <3>1. n \in Nat
      BY <2>1
    <3> TAKE s \in Upto(n - 1)
    <3>2. s \in SUBSET S /\ Cardinality(s) \in Nat /\ Cardinality(s) <= n - 1
      BY <1>1
    <3>3. Cardinality(s) <= n
      BY <3>1, <3>2
    <3> QED BY <3>2, <3>3
  <2>7. \A s \in Upto(n) : s # {} => s \ {w(s)} \in Upto(n - 1)
    <3> TAKE s \in Upto(n)
    <3> HAVE s # {}
    <3>1. /\ n \in Nat /\ Cardinality(s) \in Nat /\ Cardinality(s) <= n
          /\ Cardinality(s \ {w(s)}) = Cardinality(s) - 1
      BY <1>1, <2>1
    <3>2. Cardinality(s \ {w(s)}) <= n - 1
      BY <3>1
    <3> QED BY <3>2
  <2> HIDE DEF longer, Upto
  <2>8. \A s \in Upto(n) : longer[s] = Body(longer, s)
    BY <2>4, <2>5, <2>6, <2>7
  <2> QED BY <2>8
<1> HIDE DEF Bad
<1>3. PICK h : \A s \in SUBSET S : h[s] = Body(h, s)
  <2>1. IsFiniteSet(S) /\ Cardinality(S) \in Nat
    BY FS_CardinalityType
  <2>2. Upto(Cardinality(S)) = SUBSET S
    BY <2>1, FS_Subset
  <2>3. \E h : \A s \in Upto(Cardinality(S)) : h[s] = Body(h, s)
    BY <1>2, <2>1 DEF Bad
  <2> QED BY <2>2, <2>3
<1> DEFINE IsIter(i) ==
        i = [s \in SUBSET S |->
                IF s = {} THEN held
                ELSE BankIfBetter(Weakest(s, d), d, i[s \ {Weakest(s, d)}], opponent)]
<1>4. IsIter([s \in SUBSET S |-> h[s]])
  <2> DEFINE i == [s \in SUBSET S |-> h[s]]
  <2>1. \A s \in SUBSET S : i[s] = Body(i, s)
    BY <1>3
  <2> HIDE DEF i
  <2>2. i = [s \in SUBSET S |-> i[s]]
    BY DEF i
  <2>3. i = [s \in SUBSET S |-> Body(i, s)]
    BY <2>1, <2>2
  <2> QED BY <2>3 DEF w, i
<1>5. InTurn(d, held, S, opponent) = (CHOOSE i : IsIter(i))[S]
  BY DEF InTurn, MapThenFoldSet
<1>6. PICK i : IsIter(i) /\ InTurn(d, held, S, opponent) = i[S]
  BY <1>4, <1>5
<1>7. \A s \in SUBSET S : i[s] = Body(i, s)
  BY <1>6 DEF w
<1>8. \A s \in SUBSET S : s # {} => w(s) \in s
  BY <1>1
<1>9. IsTurns(i, d, held, S, opponent)
  BY <1>6, <1>7, <1>8 DEF w, IsTurns
<1> QED BY <1>9

IsWalk(g, last, through) ==
    /\ WalkTo(last, through) = g[last] /\ g[0] = NoLocks
    /\ \A k \in 1..last : g[k] = WalkDay(k, through, g[k - 1])

WalksAreWalked == \A through : \A last \in Nat : \E g : IsWalk(g, last, through)

LEMMA WalkSteps == WalksAreWalked
<1> USE DEF WalksAreWalked
<1> TAKE through
<1> TAKE last \in Nat
<1> DEFINE S == 1..last
           w(s) == Max(s)
           Body(h, s) == IF s = {} THEN NoLocks ELSE WalkDay(w(s), through, h[s \ {w(s)}])
           Upto(n) == {s \in SUBSET S : Cardinality(s) <= n}
           Bad == {n \in Nat : ~ \E h : \A s \in Upto(n) : h[s] = Body(h, s)}
<1>0. IsFiniteSet(S) /\ S \subseteq Int
  BY FS_Interval
<1>1. ASSUME NEW s \in SUBSET S
      PROVE  /\ IsFiniteSet(s) /\ Cardinality(s) \in Nat
             /\ (s = {} <=> Cardinality(s) = 0)
             /\ (s # {} => w(s) \in s /\ Cardinality(s \ {w(s)}) = Cardinality(s) - 1)
  <2>1. IsFiniteSet(s) /\ s \subseteq Int
    BY <1>0, FS_Subset
  <2>2. s # {} => w(s) \in s
    BY <2>1, Extremes
  <2> HIDE DEF w
  <2> QED BY <2>1, <2>2, FS_CardinalityType, FS_EmptySet, FS_RemoveElement
<1> HIDE DEF w, S
<1>2. ASSUME Bad # {} PROVE FALSE
  <2>1. PICK n \in Bad : \A m \in Bad : n <= m
    BY <1>2, LeastNat
  <2>2. n # 0
    <3> DEFINE h == [s \in Upto(0) |-> NoLocks]
    <3>1. \A s \in Upto(0) : s = {} /\ h[s] = NoLocks
      <4> TAKE s \in Upto(0)
      <4>1. s \in SUBSET S /\ Cardinality(s) \in Nat /\ Cardinality(s) <= 0
        BY <1>1
      <4>2. s = {}
        <5>1. Cardinality(s) = 0
          BY ONLY <4>1
        <5> QED BY <1>1, <4>1, <5>1
      <4>3. h[s] = NoLocks
        OBVIOUS
      <4> QED BY <4>2, <4>3
    <3> HIDE DEF h
    <3>2. \A s \in Upto(0) : h[s] = Body(h, s)
      BY <3>1
    <3>3. 0 \notin Bad
      BY <3>2
    <3> QED BY <3>3
  <2>3. n - 1 \in Nat /\ n - 1 \notin Bad
    <3>1. n \in Nat /\ n - 1 \in Nat /\ ~ (n <= n - 1)
      BY <2>1, <2>2
    <3> QED BY <2>1, <3>1
  <2>4. PICK h : \A s \in Upto(n - 1) : h[s] = Body(h, s)
    BY <2>3
  <2> DEFINE longer == [s \in Upto(n) |-> Body(h, s)]
  <2>5. \A s \in Upto(n) : longer[s] = Body(h, s)
    OBVIOUS
  <2>6. \A s \in Upto(n - 1) : s \in Upto(n)
    <3>1. n \in Nat
      BY <2>1
    <3> TAKE s \in Upto(n - 1)
    <3>2. s \in SUBSET S /\ Cardinality(s) \in Nat /\ Cardinality(s) <= n - 1
      BY <1>1
    <3>3. Cardinality(s) <= n
      BY <3>1, <3>2
    <3> QED BY <3>2, <3>3
  <2>7. \A s \in Upto(n) : s # {} => s \ {w(s)} \in Upto(n - 1)
    <3> TAKE s \in Upto(n)
    <3> HAVE s # {}
    <3>1. /\ n \in Nat /\ Cardinality(s) \in Nat /\ Cardinality(s) <= n
          /\ Cardinality(s \ {w(s)}) = Cardinality(s) - 1
      BY <1>1, <2>1
    <3>2. Cardinality(s \ {w(s)}) <= n - 1
      BY <3>1
    <3> QED BY <3>2
  <2> HIDE DEF longer, Upto
  <2>8. \A s \in Upto(n) : longer[s] = Body(longer, s)
    BY <2>4, <2>5, <2>6, <2>7
  <2> QED BY <2>8
<1> HIDE DEF Bad
<1>3. PICK h : \A s \in SUBSET S : h[s] = Body(h, s)
  <2>1. IsFiniteSet(S) /\ Cardinality(S) \in Nat
    BY <1>0, FS_CardinalityType
  <2>2. Upto(Cardinality(S)) = SUBSET S
    BY <1>0, <2>1, FS_Subset
  <2>3. \E h : \A s \in Upto(Cardinality(S)) : h[s] = Body(h, s)
    BY <1>2, <2>1 DEF Bad
  <2> QED BY <2>2, <2>3
<1> DEFINE each == [d \in 1..last |-> d]
           IsIter(i) ==
        i = [s \in SUBSET DOMAIN each |->
                IF s = {} THEN NoLocks
                ELSE WalkDay(each[Max(s)], through, i[s \ {Max(s)}])]
<1>4. DOMAIN each = S /\ \A d \in S : each[d] = d
  BY DEF S
<1> HIDE DEF each
<1>5. IsIter([s \in SUBSET S |-> h[s]])
  <2> DEFINE i == [s \in SUBSET S |-> h[s]]
  <2>1. \A s \in SUBSET S : i[s] = Body(i, s)
    BY <1>3
  <2> HIDE DEF i
  <2>2. \A s \in SUBSET S : s # {} => each[w(s)] = w(s)
    BY <1>1, <1>4
  <2>3. i = [s \in SUBSET S |-> i[s]]
    BY DEF i
  <2>4. i = [s \in SUBSET S |-> IF s = {} THEN NoLocks
                                ELSE WalkDay(each[w(s)], through, i[s \ {w(s)}])]
    BY <2>1, <2>2, <2>3
  <2> QED BY <1>4, <2>4 DEF w, i
<1>6. WalkTo(last, through) = (CHOOSE i : IsIter(i))[DOMAIN each]
  BY DEF WalkTo, FoldLeft, MapThenFoldSet, each
<1>7. PICK i : IsIter(i) /\ WalkTo(last, through) = i[S]
  BY <1>4, <1>5, <1>6
<1>8. \A s \in SUBSET S : i[s] = Body(i, s)
  <2>1. \A s \in SUBSET S : i[s] = IF s = {} THEN NoLocks
                                   ELSE WalkDay(each[w(s)], through, i[s \ {w(s)}])
    BY <1>4, <1>7 DEF w
  <2>2. \A s \in SUBSET S : s # {} => each[w(s)] = w(s)
    BY <1>1, <1>4
  <2> QED BY <2>1, <2>2
<1> DEFINE g == [k \in 0..last |-> i[1..k]]
<1>9. \A k \in 0..last : g[k] = i[1..k] /\ 1..k \in SUBSET S
  BY DEF S
<1>10. 0 \in 0..last /\ last \in 0..last /\ 1..0 = {}
  OBVIOUS
<1> HIDE DEF g
<1>11. g[0] = NoLocks /\ WalkTo(last, through) = g[last]
  BY <1>7, <1>8, <1>9, <1>10 DEF S
<1>12. ASSUME NEW k \in 1..last PROVE g[k] = WalkDay(k, through, g[k - 1])
  <2>1. /\ k \in 0..last /\ k - 1 \in 0..last
        /\ k \in 1..k /\ (1..k) \ {k} = 1..(k - 1)
        /\ \A d \in 1..k : d <= k
    OBVIOUS
  <2>2. w(1..k) = k
    <3>1. IsFiniteSet(1..k) /\ 1..k \subseteq Int /\ 1..k # {}
      <4>1. k \in Int /\ 1 \in Int /\ 1..k \subseteq Int /\ 1..k # {}
        OBVIOUS
      <4> QED BY <4>1, FS_Interval
    <3>2. Max(1..k) \in 1..k /\ k <= Max(1..k)
      BY <2>1, <3>1, Extremes
    <3> QED BY <2>1, <3>2 DEF w
  <2>3. 1..k \in SUBSET S /\ 1..k # {} /\ g[k] = i[1..k] /\ g[k - 1] = i[1..(k - 1)]
    BY <1>9, <2>1
  <2> QED BY <1>8, <2>1, <2>2, <2>3
<1>13. IsWalk(g, last, through)
  BY <1>11, <1>12 DEF IsWalk
<1> QED BY <1>13

\* A day's walk is the walk to the day before, and that day.
WalkGoes ==
    \A through :
        /\ WalkTo(0, through) = NoLocks
        /\ \A k \in Nat \ {0} : WalkTo(k, through) = WalkDay(k, through, WalkTo(k - 1, through))

LEMMA WalkToSteps == WalkGoes
<1> SUFFICES ASSUME NEW through
             PROVE  /\ WalkTo(0, through) = NoLocks
                    /\ \A k \in Nat \ {0} :
                          WalkTo(k, through) = WalkDay(k, through, WalkTo(k - 1, through))
  BY DEF WalkGoes
<1>1. WalkTo(0, through) = NoLocks
  <2>1. PICK g : IsWalk(g, 0, through)
    BY WalkSteps DEF WalksAreWalked
  <2> QED BY <2>1 DEF IsWalk
<1>2. ASSUME NEW k \in Nat \ {0}
      PROVE  WalkTo(k, through) = WalkDay(k, through, WalkTo(k - 1, through))
  <2>1. k \in Nat /\ k - 1 \in Nat /\ k \in 1..k /\ k - 1 \in 0..(k - 1)
    OBVIOUS
  <2>2. PICK g : IsWalk(g, k, through)
    BY <2>1, WalkSteps DEF WalksAreWalked
  <2>3. PICK h : IsWalk(h, k - 1, through)
    BY <2>1, WalkSteps DEF WalksAreWalked
  <2> DEFINE Bad == {j \in 0..(k - 1) : h[j] # g[j]}
  <2>4. ASSUME Bad # {} PROVE FALSE
    <3>1. PICK j \in Bad : \A i \in Bad : j <= i
      <4>1. Bad \in SUBSET Nat
        BY <2>1
      <4> QED BY <2>4, <4>1, LeastNat
    <3>2. j # 0
      BY <2>2, <2>3 DEF IsWalk
    <3>3. j \in 1..k /\ j \in 1..(k - 1) /\ j - 1 \in 0..(k - 1) /\ ~ (j <= j - 1)
      BY <2>1, <3>2
    <3>4. h[j - 1] = g[j - 1]
      BY <3>1, <3>3
    <3>5. g[j] = WalkDay(j, through, g[j - 1]) /\ h[j] = WalkDay(j, through, h[j - 1])
      BY <2>2, <2>3, <3>3 DEF IsWalk
    <3> QED BY <3>4, <3>5
  <2>5. h[k - 1] = g[k - 1]
    BY <2>1, <2>4
  <2> QED BY <2>1, <2>2, <2>3, <2>5 DEF IsWalk
<1> QED BY <1>1, <1>2
-----------------------------------------------------------------------------
\* What a day adds, and a walk holds.

Extends(r, held, todays, d) ==
    /\ r = [p \in DOMAIN r |-> r[p]]
    /\ DOMAIN held \subseteq DOMAIN r /\ DOMAIN r \subseteq DOMAIN held \cup todays
    /\ \A p \in DOMAIN r : r[p] = IF p \in DOMAIN held THEN held[p] ELSE d

LEMMA InTurnExtends ==
    ASSUME WeekOK, NEW d \in Days, NEW held, held = [p \in DOMAIN held |-> held[p]],
           NEW todays \in SUBSET Mine, todays \cap DOMAIN held = {}, NEW opponent
    PROVE  Extends(InTurn(d, held, todays, opponent), held, todays, d)
<1>1. IsFiniteSet(todays) /\ \A p \in todays : p \in Int /\ Score(p, d) \in Int
  <2>1. IsFiniteSet(todays)
    BY TeamFacts, FS_Subset
  <2>2. \A p \in todays : p \in Players /\ p \in Int
    BY TeamFacts
  <2> QED BY <2>1, <2>2, ScoreFacts
<1>2. PICK h : IsTurns(h, d, held, todays, opponent)
  BY <1>1, InTurnSteps DEF TurnsAreTaken
<1> USE DEF IsTurns
<1> DEFINE Bad == {s \in SUBSET todays : ~ Extends(h[s], held, todays, d)}
<1>3. ASSUME Bad # {} PROVE FALSE
  <2>1. PICK s \in Bad : \A x \in s : s \ {x} \notin Bad
    BY <1>1, <1>3, SmallestSet
  <2>2. s # {}
    <3>1. h[{}] = held
      BY <1>2
    <3>2. Extends(held, held, todays, d)
      BY DEF Extends
    <3> QED BY <3>1, <3>2
  <2> DEFINE w == Weakest(s, d)
             before == h[s \ {w}]
  <2>3. w \in todays /\ w \notin DOMAIN held /\ s \ {w} \notin Bad
    BY <1>2, <2>1, <2>2
  <2>4. Extends(before, held, todays, d)
    BY <2>3
  <2>5. h[s] = BankIfBetter(w, d, before, opponent)
    BY <1>2, <2>2
  <2>6. ~ Extends(h[s], held, todays, d)
    OBVIOUS
  <2> DEFINE more == [q \in DOMAIN before \cup {w} |-> IF q = w THEN d ELSE before[q]]
  <2>7. Extends(more, held, todays, d)
    <3>1. DOMAIN more = DOMAIN before \cup {w} /\ more = [q \in DOMAIN more |-> more[q]]
          /\ \A q \in DOMAIN more : more[q] = IF q = w THEN d ELSE before[q]
      OBVIOUS
    <3> HIDE DEF more, before, w
    <3>2. DOMAIN held \subseteq DOMAIN more /\ DOMAIN more \subseteq DOMAIN held \cup todays
      BY <2>3, <2>4, <3>1 DEF Extends
    <3>3. \A q \in DOMAIN more : more[q] = IF q \in DOMAIN held THEN held[q] ELSE d
      BY <2>3, <2>4, <3>1 DEF Extends
    <3> QED BY <3>1, <3>2, <3>3 DEF Extends
  <2>8. h[s] = more \/ h[s] = before
    BY <2>5 DEF BankIfBetter
  <2> HIDE DEF more, before, w, Bad
  <2> QED BY <2>4, <2>6, <2>7, <2>8
<1> QED BY <1>2, <1>3

Walked(r, k, through) ==
    /\ r = [p \in DOMAIN r |-> r[p]]
    /\ DOMAIN r \subseteq Mine
    /\ \A p \in DOMAIN r : /\ r[p] \in fixtures[p] /\ r[p] <= k /\ Played(p, r[p])
                           /\ WindowCloses(p, r[p], through)

LEMMA WalkedIsPlaced ==
    ASSUME NEW r, NEW k, NEW through, Walked(r, k, through)
    PROVE  Placed(r, k)
<1>1. DOMAIN r \subseteq Players /\ \A p \in DOMAIN r : r[p] \in fixtures[p] /\ r[p] <= k
  BY TeamFacts DEF Walked
<1> QED BY <1>1 DEF Walked, Placed

LEMMA TodaysFacts ==
    ASSUME NEW d, NEW through, NEW held
    PROVE  Todays(d, through, held) \in SUBSET Mine
           /\ Todays(d, through, held) \cap DOMAIN held = {}
BY DEF Todays, Unlocked

LEMMA WalkDayWalks ==
    ASSUME WeekOK, NEW k \in Days, NEW through, NEW held, Walked(held, k - 1, through)
    PROVE  LET r == WalkDay(k, through, held)
           IN  /\ Extends(r, held, Todays(k, through, held), k)
               /\ Walked(r, k, through)
<1> DEFINE r == WalkDay(k, through, held)
           todays == Todays(k, through, held)
<1>1. Extends(r, held, todays, k)
  <2>1. held = [p \in DOMAIN held |-> held[p]]
    BY DEF Walked
  <2> QED BY <2>1, TodaysFacts, InTurnExtends DEF WalkDay
<1> HIDE DEF r
<1>2. DOMAIN r \subseteq Mine /\ r = [p \in DOMAIN r |-> r[p]]
  BY <1>1, TodaysFacts DEF Extends, Walked
<1>3. ASSUME NEW p \in DOMAIN r
      PROVE  /\ r[p] \in fixtures[p] /\ r[p] <= k /\ Played(p, r[p])
             /\ WindowCloses(p, r[p], through)
  <2>1. CASE p \in DOMAIN held
    <3>1. r[p] = held[p]
      BY <1>1, <1>3, <2>1 DEF Extends
    <3>2. held[p] \in fixtures[p] /\ held[p] <= k - 1 /\ Played(p, held[p])
          /\ WindowCloses(p, held[p], through)
      BY <2>1 DEF Walked
    <3>3. p \in Players
      BY <1>2, TeamFacts
    <3>4. held[p] \in Int /\ k \in Int
      BY <3>2, <3>3, FixtureFacts, DayFacts
    <3>5. held[p] <= k
      BY <3>2, <3>4
    <3> QED BY <3>1, <3>2, <3>5
  <2>2. CASE p \notin DOMAIN held
    <3>1. r[p] = k /\ p \in todays
      BY <1>1, <1>3, <2>2 DEF Extends
    <3>2. k <= k
      BY DayFacts
    <3> QED BY <3>1, <3>2 DEF Todays
  <2> QED BY <2>1, <2>2
<1>4. Walked(r, k, through)
  BY <1>2, <1>3 DEF Walked
<1> QED BY <1>1, <1>4 DEF r

\* A walk is a chain of days, each of which keeps what is held and adds to it.
Keeps(r, held, k) ==
    /\ DOMAIN held \subseteq DOMAIN r
    /\ \A p \in DOMAIN r : IF p \in DOMAIN held THEN r[p] = held[p] ELSE r[p] > k

IsLongWalk(through) ==
    /\ \A k \in 0..through : Walked(WalkTo(k, through), k, through)
    /\ \A k \in 0..through : \A j \in k..through :
          Keeps(WalkTo(j, through), WalkTo(k, through), k)

WalksGrow == WeekOK => \A through \in 0..LastDay : IsLongWalk(through)

LEMMA WalkFacts == WalksGrow
<1> SUFFICES ASSUME WeekOK, NEW through \in 0..LastDay
             PROVE  IsLongWalk(through)
  BY DEF WalksGrow
<1>0. through \in Nat /\ LastDay \in Nat
  BY DayFacts
<1> DEFINE to(k) == WalkTo(k, through)
<1>1. to(0) = NoLocks /\ \A k \in 1..through : to(k) = WalkDay(k, through, to(k - 1))
  BY <1>0, WalkToSteps DEF WalkGoes
<1> HIDE DEF to
<1> DEFINE Bad == {k \in 0..through : ~ Walked(to(k), k, through)}
<1>2. ASSUME Bad # {} PROVE FALSE
  <2>1. PICK k \in Bad : \A j \in Bad : k <= j
    <3>1. Bad \subseteq Nat
      BY <1>0
    <3> QED BY <1>2, <3>1, LeastNat
  <2>2. k # 0
    <3>1. Walked(NoLocks, 0, through)
      BY DEF Walked, NoLocks
    <3> QED BY <1>1, <3>1
  <2>3. k \in 1..through /\ k - 1 \in 0..through /\ ~ (k <= k - 1) /\ k \in Days
    BY <1>0, <2>2 DEF Days
  <2>4. Walked(to(k - 1), k - 1, through)
    BY <2>1, <2>3
  <2>5. Walked(to(k), k, through)
    BY <1>1, <2>3, <2>4, WalkDayWalks
  <2> QED BY <2>5
<1>3. ASSUME NEW k \in 0..through PROVE \A j \in k..through : Keeps(to(j), to(k), k)
  <2> DEFINE Lost == {j \in k..through : ~ Keeps(to(j), to(k), k)}
  <2>1. SUFFICES ASSUME Lost # {} PROVE FALSE
    OBVIOUS
  <2>2. PICK j \in Lost : \A i \in Lost : j <= i
    <3>1. Lost \subseteq Nat
      BY <1>0
    <3> QED BY <2>1, <3>1, LeastNat
  <2>3. j # k
    <3>1. Keeps(to(k), to(k), k)
      BY DEF Keeps
    <3> QED BY <3>1
  <2>4. /\ j \in 1..through /\ j - 1 \in 0..through /\ j - 1 \in k..through
        /\ ~ (j <= j - 1) /\ j > k /\ j \in Days
    BY <1>0, <2>3 DEF Days
  <2>5. Keeps(to(j - 1), to(k), k)
    BY <2>2, <2>4
  <2>6. Walked(to(j - 1), j - 1, through)
    BY <1>2, <2>4
  <2>7. Extends(to(j), to(j - 1), Todays(j, through, to(j - 1)), j)
    BY <1>1, <2>4, <2>6, WalkDayWalks
  <2>8. Keeps(to(j), to(k), k)
    BY <2>4, <2>5, <2>7 DEF Keeps, Extends
  <2> QED BY <2>8
<1> QED BY <1>2, <1>3 DEF IsLongWalk, to

-----------------------------------------------------------------------------
\* What is said of a date depends on the games of before it: the same games
\* through day k, in one state and the next, give the same.

Same(k) ==
    /\ WeekOK /\ WeekOK'
    /\ fixtures' = fixtures /\ draws' = draws /\ debut' = debut
    /\ \A p \in Players : \A d \in Days : d <= k => outcome'[p][d] = outcome[p][d]

\* Everyone who still plays can be projected.
AllProjectable(known) == \A p \in Players : ~ Unprojected(p, known)

\* So can all whose projection is asked for.
Askable(known, locked) == \A q \in Unlocked(locked) \cup Theirs : ~ Unprojected(q, known)

LEMMA AllAreAskable ==
    ASSUME NEW known, AllProjectable(known), NEW locked
    PROVE  Askable(known, locked)
BY TeamFacts DEF AllProjectable, Askable, Unlocked

LEMMA SameEarlier ==
    ASSUME NEW k \in Int, Same(k), NEW j \in Int, j <= k
    PROVE  Same(j)
<1>1. ASSUME NEW d \in Days, d <= j PROVE d <= k
  BY <1>1, DayFacts
<1> QED BY <1>1 DEF Same

LEMMA SameScores ==
    ASSUME NEW k, Same(k), NEW p \in Players, NEW d \in Days, d <= k
    PROVE  Score(p, d)' = Score(p, d) /\ (Played(p, d)' <=> Played(p, d))
BY DEF Same, Score, Played

LEMMA SameFixtures ==
    ASSUME NEW k, Same(k), NEW p, NEW j
    PROVE  /\ Seen(p, j)' = Seen(p, j) /\ Ahead(p, j)' = Ahead(p, j)
           /\ \A through : WindowCloses(p, j, through)' <=> WindowCloses(p, j, through)
           /\ (Unprojected(p, j)' <=> Unprojected(p, j))
BY DEF Same, Seen, Ahead, WindowCloses, Unprojected, Projectable

LEMMA SameContribution ==
    ASSUME NEW k \in Int, Same(k), NEW p \in Players, NEW known \in Int, known <= k,
           ~ Unprojected(p, known), NEW actFrom
    PROVE  Contribution(p, known, actFrom)' = Contribution(p, known, actFrom)
<1>1. Ahead(p, known)' = Ahead(p, known) /\ draws' = draws
      /\ (Projectable(p, known + 1)' <=> Projectable(p, known + 1))
  BY SameFixtures DEF Same, Projectable
<1>2. CASE Ahead(p, known) # {}
  BY <1>1, <1>2 DEF Contribution, Unprojected
<1>3. CASE Ahead(p, known) = {}
  <2> DEFINE last == Max(fixtures[p])
  <2>1. last \in fixtures[p] /\ last \in Days
    BY FixtureFacts DEF Same
  <2>2. last <= k
    <3>1. last \notin Ahead(p, known) /\ last \in Int
      BY <1>3, <2>1, DayFacts
    <3>2. last <= known
      BY <2>1, <3>1 DEF Ahead
    <3> QED BY <3>1, <3>2
  <2>3. Score(p, last)' = Score(p, last)
    <3> HIDE DEF last
    <3>1. \A d \in Days : d <= k => Score(p, d)' = Score(p, d)
      BY SameScores
    <3>2. last' = last
      BY DEF Same, last
    <3> QED BY <2>1, <2>2, <3>1, <3>2
  <2>4. FinalScore(p)' = FinalScore(p)
    BY <2>3 DEF FinalScore
  <2> QED BY <1>1, <1>3, <2>4 DEF Contribution
<1> QED BY <1>2, <1>3

\* The assumed thresholds of games not yet played come later; of the others
\* they stay.
LEMMA SameThresholds ==
    ASSUME NEW k \in Int, Same(k), NEW p \in Players, NEW d \in Days, d <= k
    PROVE  /\ d \in DOMAIN GreedyThresholds(p)' <=> d \in DOMAIN GreedyThresholds(p)
           /\ d \in DOMAIN GreedyThresholds(p) =>
                 GreedyThresholds(p)'[d] = GreedyThresholds(p)[d]
<1>1. /\ fixtures' = fixtures /\ draws' = draws
      /\ (Played(p, d)' <=> Played(p, d)) /\ Ahead(p, d)' = Ahead(p, d)
      /\ (Projectable(p, d + 1)' <=> Projectable(p, d + 1))
  BY SameScores, SameFixtures DEF Same, Projectable
<1>2. d \in DOMAIN GreedyThresholds(p)
        <=> d \in fixtures[p] /\ Played(p, d) /\ Ahead(p, d) # {} /\ Projectable(p, d + 1)
  BY DEF GreedyThresholds
<1>3. d \in DOMAIN GreedyThresholds(p)'
        <=> d \in fixtures'[p] /\ Played(p, d)' /\ Ahead(p, d)' # {} /\ Projectable(p, d + 1)'
  BY DEF GreedyThresholds
<1>4. d \in DOMAIN GreedyThresholds(p) =>
         GreedyThresholds(p)[d] = ContinuationValue(draws[p], Ahead(p, d))
  BY DEF GreedyThresholds
<1>5. d \in DOMAIN GreedyThresholds(p)' =>
         GreedyThresholds(p)'[d] = ContinuationValue(draws'[p], Ahead(p, d)')
  BY DEF GreedyThresholds
<1> QED BY <1>1, <1>2, <1>3, <1>4, <1>5

LEMMA SameStandInLocks ==
    ASSUME NEW k \in Int, Same(k), NEW p \in Players, NEW known \in Int, known <= k
    PROVE  /\ StandInLocks(p, known)' = StandInLocks(p, known)
           /\ StandInLocks(p, known) # {} =>
                 Score(p, Min(StandInLocks(p, known)))' = Score(p, Min(StandInLocks(p, known)))
<1> DEFINE locks == StandInLocks(p, known)
           past == Seen(p, known)
           limit == GreedyThresholds(p)
<1>1. past' = past /\ past \in SUBSET Days /\ \A d \in past : d <= k /\ d \in Days
  <2>1. past \in SUBSET Days
    BY FixtureFacts DEF Same
  <2>2. \A d \in past : d \in Int /\ d <= known
    BY <2>1, DayFacts DEF Seen
  <2>3. \A d \in past : d <= k
    <3> HIDE DEF past
    <3> QED BY <2>2
  <2> QED BY <2>1, <2>3, SameFixtures
<1>2. ASSUME NEW d \in past
      PROVE  /\ d \in Days /\ Score(p, d)' = Score(p, d) /\ (Played(p, d)' <=> Played(p, d))
             /\ (d \in DOMAIN limit' <=> d \in DOMAIN limit)
             /\ (d \in DOMAIN limit => limit'[d] = limit[d])
  BY <1>1, <1>2, SameScores, SameThresholds
<1>3. locks = {d \in past \cap DOMAIN limit : Played(p, d) /\ Clears(Score(p, d), limit[d])}
  <2> DEFINE scores == [d \in Days |-> Score(p, d)]
             played == [d \in Days |-> Played(p, d)]
  <2>1. \A d \in past : scores[d] = Score(p, d) /\ played[d] = Played(p, d)
    BY <1>1
  <2> HIDE DEF scores, played, past, limit
  <2>2. locks = {d \in past \cap DOMAIN limit : played[d] /\ Clears(scores[d], limit[d])}
    BY DEF StandInLocks, ReplayLocks, scores, played, past, limit
  <2> HIDE DEF locks
  <2> QED BY <2>1, <2>2
<1>4. locks' = {d \in past' \cap DOMAIN limit' : Played(p, d)' /\ Clears(Score(p, d)', limit'[d])}
  <2> DEFINE scores == [d \in Days |-> Score(p, d)']
             played == [d \in Days |-> Played(p, d)']
  <2>1. \A d \in past' : scores[d] = Score(p, d)' /\ played[d] = Played(p, d)'
    BY <1>1
  <2>2. locks' = ReplayLocks(scores, played, past', limit')
    BY DEF StandInLocks
  <2> HIDE DEF scores, played, past, limit, locks
  <2>3. locks' = {d \in past' \cap DOMAIN limit' : played[d] /\ Clears(scores[d], limit'[d])}
    BY <2>2 DEF ReplayLocks
  <2> QED BY <2>1, <2>3
<1> HIDE DEF locks, past, limit
<1>5. locks' = locks
  BY <1>1, <1>2, <1>3, <1>4
<1>6. locks # {} => Score(p, Min(locks))' = Score(p, Min(locks))
  <2> HAVE locks # {}
  <2>1. locks \in SUBSET Days /\ locks \subseteq past
    BY <1>1, <1>3
  <2>2. Min(locks) \in past
    BY <2>1, DayExtremes
  <2> DEFINE low == Min(locks)
  <2>3. low' = low
    BY <1>5
  <2> HIDE DEF low
  <2>4. Score(p, low)' = Score(p, low)
    <3>1. \A d \in past : Score(p, d)' = Score(p, d)
      BY <1>2
    <3> QED BY <2>2, <2>3, <3>1 DEF low
  <2> QED BY <2>4 DEF low
<1> QED BY <1>5, <1>6 DEF locks

LEMMA SameStandIn ==
    ASSUME NEW k \in Int, Same(k), NEW p \in Players, NEW known \in Int, known <= k,
           ~ Unprojected(p, known)
    PROVE  StandIn(p, known)' = StandIn(p, known)
<1> DEFINE locks == StandInLocks(p, known)
<1>1. locks' = locks /\ (locks # {} => Score(p, Min(locks))' = Score(p, Min(locks)))
  BY SameStandInLocks
<1>2. AtOnce(p, known)' = AtOnce(p, known)
  BY SameContribution DEF AtOnce
<1> HIDE DEF locks
<1>3. StandIn(p, known) = IF locks # {} THEN [s \in Sims |-> Score(p, Min(locks))]
                          ELSE AtOnce(p, known)
  BY DEF StandIn, locks
<1>4. StandIn(p, known)' = IF locks' # {} THEN [s \in Sims |-> Score(p, Min(locks))']
                           ELSE AtOnce(p, known)'
  BY DEF StandIn, locks
<1> QED BY <1>1, <1>2, <1>3, <1>4

LEMMA SameStandInKnown ==
    ASSUME NEW k \in Int, Same(k), NEW p \in Players, NEW known \in Int, known <= k,
           ~ Unprojected(p, known)
    PROVE  StandInKnown(p, known)' = StandInKnown(p, known)
<1> DEFINE past == Seen(p, known)
           last == Max(Seen(p, known))
           limit == GreedyThresholds(p)
<1>1. past' = past /\ last' = last /\ Ahead(p, known)' = Ahead(p, known)
  BY SameFixtures
<1>2. past # {} => last \in Days /\ last <= k
  <2> HAVE past # {}
  <2>1. past \in SUBSET Days
    BY FixtureFacts DEF Same
  <2>2. last \in past /\ last \in Days
    BY <2>1, DayExtremes
  <2>3. last <= known /\ last \in Int
    BY <2>2, DayFacts DEF Seen
  <2> HIDE DEF last
  <2> QED BY <2>2, <2>3
<1> HIDE DEF past, last, limit
<1>3. past # {} => /\ Score(p, last)' = Score(p, last)
                   /\ (Played(p, last)' <=> Played(p, last))
                   /\ (last \in DOMAIN limit' <=> last \in DOMAIN limit)
                   /\ (last \in DOMAIN limit => limit'[last] = limit[last])
  <2>1. \A d \in Days : d <= k => /\ Score(p, d)' = Score(p, d)
                                  /\ (Played(p, d)' <=> Played(p, d))
                                  /\ (d \in DOMAIN limit' <=> d \in DOMAIN limit)
                                  /\ (d \in DOMAIN limit => limit'[d] = limit[d])
    BY SameScores, SameThresholds DEF limit
  <2> QED BY <1>1, <1>2, <2>1
<1>4. AtOnce(p, known)' = AtOnce(p, known)
  BY SameContribution DEF AtOnce
<1>5. StandInKnown(p, known)
        = IF /\ past # {} /\ Played(p, last) /\ Ahead(p, known) # {}
             /\ last \in DOMAIN limit /\ Clears(Score(p, last), limit[last])
          THEN [s \in Sims |-> Score(p, last)]
          ELSE AtOnce(p, known)
  BY DEF StandInKnown, past, last, limit
<1>6. StandInKnown(p, known)'
        = IF /\ past' # {} /\ Played(p, last)' /\ Ahead(p, known)' # {}
             /\ last' \in DOMAIN limit' /\ Clears(Score(p, last)', limit'[last'])
          THEN [s \in Sims |-> Score(p, last)']
          ELSE AtOnce(p, known)'
  BY DEF StandInKnown, past, last, limit
<1> QED BY <1>1, <1>3, <1>4, <1>5, <1>6

LEMMA SameKnownBank ==
    ASSUME NEW k \in Int, Same(k), NEW known \in Int, known <= k, NEW held, Placed(held, k)
    PROVE  KnownBank(known, held)' = KnownBank(known, held)
<1>1. ASSUME NEW p \in DOMAIN held, NEW since, since = {d \in Seen(p, known) : d > held[p]},
             since # {}
      PROVE  /\ Score(p, Max(since))' = Score(p, Max(since))
             /\ Score(p, held[p])' = Score(p, held[p])
  <2>1. p \in Players /\ held[p] \in Days /\ held[p] <= k
    BY FixtureFacts DEF Placed, Same
  <2>2. since \in SUBSET Days /\ since \subseteq Seen(p, known)
    BY <1>1, <2>1, FixtureFacts DEF Same
  <2>3. PICK last : last = Max(since)
    OBVIOUS
  <2>4. last \in Days /\ last \in Seen(p, known)
    BY <1>1, <2>2, <2>3, DayExtremes
  <2>5. last <= known /\ last \in Int
    BY <2>4, DayFacts DEF Seen
  <2>6. last <= k
    BY <2>5
  <2>7. Score(p, last)' = Score(p, last) /\ Score(p, held[p])' = Score(p, held[p])
    BY <2>1, <2>4, <2>6, SameScores
  <2> QED BY <2>3, <2>7
<1>2. \A p : Seen(p, known)' = Seen(p, known)
  BY SameFixtures
<1> QED BY <1>1, <1>2 DEF KnownBank

LEMMA SameTotals ==
    ASSUME NEW k \in Int, Same(k), NEW known \in Int, known <= k,
           \A p \in Theirs : ~ Unprojected(p, known),
           NEW polled, NEW held, Placed(held, k)
    PROVE  OpponentTotals(known, polled, held)' = OpponentTotals(known, polled, held)
<1> DEFINE each == [p \in Theirs |->
            IF polled
            THEN IF p \in KnownBank(known, held) THEN [s \in Sims |-> Score(p, held[p])]
                 ELSE StandInKnown(p, known)
            ELSE StandIn(p, known)]
<1>1. KnownBank(known, held)' = KnownBank(known, held)
  BY SameKnownBank
<1>2. ASSUME NEW p \in Theirs PROVE each'[p] = each[p]
  <2>1. p \in Players
    BY TeamFacts
  <2>2. StandInKnown(p, known)' = StandInKnown(p, known) /\ StandIn(p, known)' = StandIn(p, known)
    BY <2>1, SameStandIn, SameStandInKnown
  <2>3. p \in KnownBank(known, held) => Score(p, held[p])' = Score(p, held[p])
    <3> HAVE p \in KnownBank(known, held)
    <3>1. held[p] \in Days /\ held[p] <= k
      BY <2>1, FixtureFacts DEF KnownBank, Placed, Same
    <3> QED BY <2>1, <3>1, SameScores
  <2> QED BY <1>1, <2>2, <2>3
<1>3. DOMAIN each = Theirs /\ DOMAIN each' = Theirs
  OBVIOUS
<1> HIDE DEF each
<1>4. OpponentTotals(known, polled, held) = [s \in Sims |-> SumOf([p \in Theirs |-> each[p][s]])]
  BY DEF OpponentTotals, each
<1>5. OpponentTotals(known, polled, held)' = [s \in Sims |-> SumOf([p \in Theirs |-> each'[p][s]])]
  BY DEF OpponentTotals, each
<1>6. \A s \in Sims : [p \in Theirs |-> each[p][s]] = [p \in Theirs |-> each'[p][s]]
  BY <1>2
<1> QED BY <1>4, <1>5, <1>6

LEMMA SameBanked ==
    ASSUME NEW k \in Int, Same(k), NEW locked, Placed(locked, k)
    PROVE  Banked(locked)' = Banked(locked)
<1> DEFINE f == [p \in DOMAIN locked |-> Score(p, locked[p])]
<1>1. ASSUME NEW p \in DOMAIN locked PROVE Score(p, locked[p])' = Score(p, locked[p])
  <2>1. p \in Players /\ locked[p] \in Days /\ locked[p] <= k
    BY FixtureFacts DEF Placed, Same
  <2> QED BY <2>1, SameScores
<1>2. f' = f
  BY <1>1
<1> HIDE DEF f
<1>3. Banked(locked) = SumOf(f) /\ Banked(locked)' = SumOf(f')
  BY DEF Banked, f
<1> QED BY <1>2, <1>3

\* What the starters not banked go on to count.
LEMMA SameEach ==
    ASSUME NEW k \in Int, Same(k), NEW known \in Int, known <= k, NEW locked,
           Askable(known, locked), NEW actFrom
    PROVE  [q \in Unlocked(locked) |-> Contribution(q, known, actFrom)]'
             = [q \in Unlocked(locked) |-> Contribution(q, known, actFrom)]
<1>1. ASSUME NEW q \in Unlocked(locked)
      PROVE  Contribution(q, known, actFrom)' = Contribution(q, known, actFrom)
  <2>1. q \in Players
    BY TeamFacts DEF Unlocked
  <2> QED BY <2>1, SameContribution DEF Askable
<1> QED BY <1>1

LEMMA SameDecision ==
    ASSUME NEW k \in Int, Same(k), NEW known \in Int, known <= k, NEW locked,
           Askable(known, locked), Placed(locked, k), NEW p, NEW score, NEW opponent
    PROVE  DecisionFor(p, score, known, locked, opponent)'
             = DecisionFor(p, score, known, locked, opponent)
<1> DEFINE each == [q \in Unlocked(locked) |-> AtOnce(q, known)]
           rest == Rest(p, locked, each)
<1>1. each' = each
  BY SameEach DEF AtOnce
<1> HIDE DEF each
<1>2. rest' = rest
  BY <1>1, SameBanked DEF Rest
<1> HIDE DEF rest
<1>3. DecisionFor(p, score, known, locked, opponent)
        = [lock |-> EvaluateLock(rest, each[p], score, opponent),
           breakEven |-> LockThreshold(rest, each[p], opponent)]
  BY DEF DecisionFor, rest, each
<1>4. DecisionFor(p, score, known, locked, opponent)'
        = [lock |-> EvaluateLock(rest', each'[p], score, opponent),
           breakEven |-> LockThreshold(rest', each'[p], opponent)]
  BY DEF DecisionFor, rest, each
<1> QED BY <1>1, <1>2, <1>3, <1>4

LEMMA SameRules ==
    ASSUME NEW k \in Int, Same(k), NEW known \in Int, known <= k, NEW locked,
           Askable(known, locked), Placed(locked, k), NEW night, NEW opponent
    PROVE  StandingThresholds(night, known, locked, opponent)'
             = StandingThresholds(night, known, locked, opponent)
<1> DEFINE teammate == [q \in Unlocked(locked) |-> Contribution(q, known, night)]
           asked == {p \in Unlocked(locked) : night \in fixtures[p] /\ Ahead(p, night) # {}}
           rule(p) == LockThreshold(Rest(p, locked, teammate),
                                    Contribution(p, known, night + 1), opponent)
<1>1. teammate' = teammate
  BY SameEach
<1>2. asked' = asked
  BY SameFixtures DEF Same
<1> HIDE DEF teammate
<1>3. ASSUME NEW p \in asked PROVE rule(p)' = rule(p)
  <2>1. p \in Players
    BY TeamFacts DEF Unlocked
  <2>2. Contribution(p, known, night + 1)' = Contribution(p, known, night + 1)
    BY <2>1, SameContribution DEF Askable
  <2>3. Rest(p, locked, teammate)' = Rest(p, locked, teammate)
    BY <1>1, SameBanked DEF Rest
  <2> QED BY <2>2, <2>3
<1> HIDE DEF rule, asked
<1>4. StandingThresholds(night, known, locked, opponent) = [p \in asked |-> rule(p)]
  BY DEF StandingThresholds, asked, rule, teammate
<1>5. StandingThresholds(night, known, locked, opponent)' = [p \in asked' |-> rule(p)']
  BY DEF StandingThresholds, asked, rule, teammate
<1> QED BY <1>2, <1>3, <1>4, <1>5

LEMMA SameSays ==
    ASSUME NEW k \in Int, Same(k), NEW m \in Int, m - 1 <= k, NEW locked,
           Askable(m - 1, locked), Placed(locked, k), NEW opponent
    PROVE  Says(m, locked, opponent)' = Says(m, locked, opponent)
<1> DEFINE day(p) == Max(Seen(p, m - 1))
           decision(p) == DecisionFor(p, Score(p, day(p)), m - 1, locked, opponent)
           call(p) == [day |-> day(p), score |-> Score(p, day(p)),
                       lock |-> decision(p).lock, breakEven |-> decision(p).breakEven]
           rule(n) == StandingThresholds(n, m - 1, locked, opponent)
           each == [q \in Unlocked(locked) |-> AtOnce(q, m - 1)]
<1>0. m - 1 \in Int
  OBVIOUS
<1>1. ASSUME NEW p \in Players, Seen(p, m - 1) # {}
      PROVE  /\ day(p)' = day(p) /\ Score(p, day(p))' = Score(p, day(p))
             /\ (Played(p, day(p))' <=> Played(p, day(p)))
  <2>1. Seen(p, m - 1) \in SUBSET Days
    BY FixtureFacts DEF Same
  <2>2. day(p) \in Seen(p, m - 1) /\ day(p) \in Days
    BY <1>1, <2>1, DayExtremes
  <2>3. day(p) <= m - 1 /\ day(p) \in Int
    BY <2>2, DayFacts DEF Seen
  <2>4. day(p)' = day(p)
    BY SameFixtures
  <2> HIDE DEF day
  <2>5. day(p) <= k
    BY <1>0, <2>3
  <2>6. \A d \in Days : d <= k => Score(p, d)' = Score(p, d) /\ (Played(p, d)' <=> Played(p, d))
    BY SameScores
  <2> QED BY <2>2, <2>4, <2>5, <2>6
<1>2. Callable(m, locked)' = Callable(m, locked)
  <2>1. \A p \in Unlocked(locked) : p \in Players
    BY TeamFacts DEF Unlocked
  <2>2. \A p \in Unlocked(locked) :
            /\ Seen(p, m - 1)' = Seen(p, m - 1) /\ Ahead(p, m - 1)' = Ahead(p, m - 1)
            /\ Seen(p, m - 1) # {} => (Played(p, day(p))' <=> Played(p, day(p)))
    BY <1>1, <2>1, SameFixtures
  <2> QED BY <2>2 DEF Callable
<1>3. ASSUME NEW p \in Callable(m, locked) PROVE call(p)' = call(p)
  <2>1. p \in Players /\ Seen(p, m - 1) # {}
    BY TeamFacts DEF Callable, Unlocked
  <2>2. day(p)' = day(p) /\ Score(p, day(p))' = Score(p, day(p))
    BY <1>1, <2>1
  <2> DEFINE score == Score(p, day(p))
  <2>3. score' = score
    BY <2>2
  <2> HIDE DEF score, day
  <2>4. DecisionFor(p, score, m - 1, locked, opponent)'
          = DecisionFor(p, score, m - 1, locked, opponent)
    <3>1. \A x : DecisionFor(p, x, m - 1, locked, opponent)'
                   = DecisionFor(p, x, m - 1, locked, opponent)
      BY <1>0, SameDecision
    <3> QED BY <2>3, <3>1
  <2>5. decision(p)' = decision(p)
    BY <2>4 DEF score
  <2> QED BY <2>2, <2>3, <2>5
<1>4. Nights(m, locked)' = Nights(m, locked)
  BY DEF Nights, Same
<1>5. \A n : rule(n)' = rule(n)
  BY <1>0, SameRules
<1>6. Totals(m, locked)' = Totals(m, locked)
  <2>1. each' = each
    BY <1>0, SameEach DEF AtOnce
  <2> HIDE DEF each
  <2>2. Totals(m, locked) = [s \in Sims |->
            Banked(locked) + SumOf([p \in Unlocked(locked) |-> each[p][s]])]
    BY DEF Totals, each
  <2>3. Totals(m, locked)' = [s \in Sims |->
            Banked(locked)' + SumOf([p \in Unlocked(locked) |-> each'[p][s]])]
    BY DEF Totals, each
  <2> QED BY <2>1, <2>2, <2>3, SameBanked
<1> HIDE DEF call, rule
<1>7. Says(m, locked, opponent)
        = [banked |-> locked,
           calls |-> [p \in Callable(m, locked) |-> call(p)],
           rules |-> [n \in Nights(m, locked) |-> rule(n)],
           pWin |-> WinProbability(Totals(m, locked), opponent)]
  BY DEF Says, call, rule
<1>8. Says(m, locked, opponent)'
        = [banked |-> locked,
           calls |-> [p \in Callable(m, locked)' |-> call(p)'],
           rules |-> [n \in Nights(m, locked)' |-> rule(n)'],
           pWin |-> WinProbability(Totals(m, locked)', opponent)]
  BY DEF Says, call, rule
<1>9. [p \in Callable(m, locked)' |-> call(p)'] = [p \in Callable(m, locked) |-> call(p)]
  BY <1>2, <1>3
<1>10. [n \in Nights(m, locked)' |-> rule(n)'] = [n \in Nights(m, locked) |-> rule(n)]
  BY <1>4, <1>5
<1> QED BY <1>6, <1>7, <1>8, <1>9, <1>10

-----------------------------------------------------------------------------
\* So does a walk.

LEMMA SameBankIfBetter ==
    ASSUME NEW k \in Int, Same(k), NEW d \in Days, d <= k,
           NEW p \in Players, NEW held, Askable(d, held), Placed(held, k), NEW opponent
    PROVE  BankIfBetter(p, d, held, opponent)' = BankIfBetter(p, d, held, opponent)
<1> DEFINE score == Score(p, d)
<1>1. score' = score
  BY SameScores
<1> HIDE DEF score
<1>2. \A x : DecisionFor(p, x, d, held, opponent)' = DecisionFor(p, x, d, held, opponent)
  BY DayFacts, SameDecision
<1>3. DecisionFor(p, score, d, held, opponent)' = DecisionFor(p, score, d, held, opponent)
  BY <1>1, <1>2
<1> QED BY <1>3 DEF BankIfBetter, score

LEMMA SameInTurn ==
    ASSUME NEW k \in Int, Same(k), NEW d \in Days, d <= k,
           NEW held, Askable(d, held), Placed(held, k),
           NEW todays \in SUBSET Mine, \A p \in todays : d \in fixtures[p], NEW opponent
    PROVE  InTurn(d, held, todays, opponent)' = InTurn(d, held, todays, opponent)
<1>1. todays \subseteq Players /\ IsFiniteSet(todays) /\ \A p \in todays : p \in Int
  <2>1. IsFiniteSet(todays)
    BY TeamFacts, FS_Subset
  <2> QED BY <2>1, TeamFacts
<1>2. \A p \in todays : Score(p, d) \in Int /\ Score(p, d)' = Score(p, d)
  BY <1>1, ScoreFacts, SameScores DEF Same
<1>3. PICK h : IsTurns(h, d, held, todays, opponent)
  BY <1>1, <1>2, InTurnSteps DEF TurnsAreTaken
<1>4. PICK g : IsTurns(g, d, held, todays, opponent)'
  <2>1. TurnsAreTaken'
    BY InTurnSteps, PTL
  <2>2. \A p \in todays : p \in Int /\ Score(p, d)' \in Int
    BY <1>1, <1>2
  <2> QED BY <1>1, <2>1, <2>2 DEF TurnsAreTaken
<1>5. \A s \in SUBSET todays : Weakest(s, d)' = Weakest(s, d)
  BY <1>2 DEF Weakest
<1> DEFINE Bad == {s \in SUBSET todays : ~ (/\ g[s] = h[s] /\ Placed(h[s], k)
                                             /\ DOMAIN held \subseteq DOMAIN h[s])}
<1>6. ASSUME Bad # {} PROVE FALSE
  <2>1. PICK s \in Bad : \A x \in s : s \ {x} \notin Bad
    BY <1>1, <1>6, SmallestSet
  <2>2. s # {}
    BY <1>3, <1>4 DEF IsTurns
  <2>3. PICK w : w = Weakest(s, d)
    OBVIOUS
  <2>4. PICK before : before = h[s \ {w}]
    OBVIOUS
  <2>5. w \in todays /\ w \in Players /\ s \ {w} \notin Bad
    BY <1>1, <1>3, <2>1, <2>2, <2>3 DEF IsTurns
  <2>6. /\ g[s \ {w}] = before /\ Placed(before, k)
        /\ DOMAIN held \subseteq DOMAIN before /\ Askable(d, before)
    BY <2>4, <2>5 DEF Askable, Unlocked
  <2>7. h[s] = BankIfBetter(w, d, before, opponent)
    BY <1>3, <2>2, <2>3, <2>4 DEF IsTurns
  <2>8. g[s] = BankIfBetter(w, d, before, opponent)'
    <3>1. Weakest(s, d)' = w
      BY <1>5, <2>3
    <3>2. g[s] = BankIfBetter(w, d, g[s \ {w}], opponent)'
      BY <1>4, <2>2, <3>1 DEF IsTurns
    <3> QED BY <2>6, <3>2
  <2> HIDE DEF Bad
  <2>9. g[s] = h[s]
    BY <2>5, <2>6, <2>7, <2>8, SameBankIfBetter
  <2>10. Placed(h[s], k) /\ DOMAIN held \subseteq DOMAIN h[s]
    <3> DEFINE more == [q \in DOMAIN before \cup {w} |-> IF q = w THEN d ELSE before[q]]
    <3>1. /\ DOMAIN more = DOMAIN before \cup {w} /\ more = [q \in DOMAIN more |-> more[q]]
          /\ \A q \in DOMAIN more : more[q] = IF q = w THEN d ELSE before[q]
      OBVIOUS
    <3>2. h[s] = more \/ h[s] = before
      BY <2>7 DEF BankIfBetter
    <3> HIDE DEF more
    <3>3. DOMAIN more \subseteq Players
      BY <2>5, <2>6, <3>1 DEF Placed
    <3>4. \A q \in DOMAIN more : more[q] \in fixtures[q] /\ more[q] <= k
      BY <2>5, <2>6, <3>1 DEF Placed
    <3>5. Placed(more, k)
      BY ONLY <3>1, <3>3, <3>4 DEF Placed
    <3>6. DOMAIN held \subseteq DOMAIN more
      BY <2>6, <3>1
    <3> QED BY <2>6, <3>2, <3>5, <3>6
  <2> QED BY <2>1, <2>9, <2>10 DEF Bad
<1> QED BY <1>3, <1>4, <1>6 DEF IsTurns

\* An opponent the stand-in has locked could be projected when it did.
LEMMA NotRaised ==
    ASSUME WeekOK, NEW d \in Days, NEW through, NEW held,
           Todays(d, through, held) # {}, ~ Raises(d, through, held)
    PROVE  Askable(d, held)
<1>1. ASSUME NEW p \in Theirs, StandInLocks(p, d) # {} PROVE ~ Unprojected(p, d)
  <2>1. PICK e \in StandInLocks(p, d) : TRUE
    BY <1>1
  <2>2. e \in Seen(p, d) /\ Projectable(p, e + 1)
    BY <2>1 DEF StandInLocks, ReplayLocks, GreedyThresholds
  <2>3. p \in Players
    BY TeamFacts
  <2>4. e \in Int /\ e <= d /\ d \in Int /\ debut[p] \in Int
    BY <2>2, <2>3, FixtureFacts, DayFacts, RolloutAssumption DEF Seen, WeekOK
  <2>5. Projectable(p, d + 1)
    BY <2>2, <2>4 DEF Projectable
  <2> QED BY <2>5 DEF Unprojected
<1> QED BY <1>1 DEF Raises, Askable

NothingToTake == \A d, held, opponent : InTurn(d, held, {}, opponent) = held

LEMMA NoTurns == NothingToTake
<1> SUFFICES ASSUME NEW d, NEW held, NEW opponent
             PROVE  InTurn(d, held, {}, opponent) = held
  BY DEF NothingToTake
<1>1. IsFiniteSet({})
  BY FS_EmptySet
<1>2. PICK h : IsTurns(h, d, held, {}, opponent)
  BY <1>1, InTurnSteps DEF TurnsAreTaken
<1> QED BY <1>2 DEF IsTurns

LEMMA SameTodays ==
    ASSUME NEW k \in Int, Same(k), NEW d \in Days, d <= k, NEW through, NEW held
    PROVE  Todays(d, through, held)' = Todays(d, through, held)
<1>1. \A p \in Mine : p \in Players
  BY TeamFacts
<1>2. \A p \in Mine : /\ (Played(p, d)' <=> Played(p, d))
                      /\ (WindowCloses(p, d, through)' <=> WindowCloses(p, d, through))
  BY <1>1, SameScores, SameFixtures
<1>3. fixtures' = fixtures
  BY DEF Same
<1> QED BY <1>2, <1>3 DEF Todays, Unlocked

LEMMA SameWalkDay ==
    ASSUME NEW k \in Int, Same(k), NEW d \in Days, d <= k, NEW through, NEW held,
           Walked(held, d - 1, through), ~ Raises(d, through, held)
    PROVE  WalkDay(d, through, held)' = WalkDay(d, through, held)
<1>1. d \in Int
  BY DayFacts
<1>2. Placed(held, k)
  <2>1. held = [p \in DOMAIN held |-> held[p]] /\ DOMAIN held \subseteq Players
    BY TeamFacts DEF Walked
  <2>2. \A p \in DOMAIN held : held[p] \in fixtures[p] /\ held[p] <= d - 1 /\ p \in Players
    BY <2>1 DEF Walked
  <2>3. \A p \in DOMAIN held : held[p] \in Int
    BY <2>2, FixtureFacts, DayFacts DEF Same
  <2>4. \A p \in DOMAIN held : held[p] <= k
    BY <1>1, <2>2, <2>3
  <2> QED BY <2>1, <2>2, <2>4 DEF Placed
<1>3. Placed(NoLocks, k)
  BY DEF Placed, NoLocks
<1>4. PICK todays : todays = Todays(d, through, held)
  OBVIOUS
<1>5. Todays(d, through, held)' = todays
  BY <1>4, SameTodays
<1>6. todays \in SUBSET Mine /\ \A p \in todays : d \in fixtures[p]
  BY <1>4 DEF Todays, Unlocked
<1>7. CASE todays = {}
  <2>1. NothingToTake /\ NothingToTake'
    BY NoTurns, PTL
  <2>2. WalkDay(d, through, held) = held
    BY <1>4, <1>7, <2>1 DEF WalkDay, NothingToTake
  <2>3. WalkDay(d, through, held)' = held
    BY <1>5, <1>7, <2>1 DEF WalkDay, NothingToTake
  <2> QED BY <2>2, <2>3
<1>8. CASE todays # {}
  <2>1. Askable(d, held)
    BY <1>1, <1>4, <1>8, NotRaised DEF Same
  <2>2. PICK opponent : opponent = OpponentTotals(d, FALSE, NoLocks)
    OBVIOUS
  <2>3. OpponentTotals(d, FALSE, NoLocks)' = opponent
    <3>1. \A none : Placed(none, k) =>
             OpponentTotals(d, FALSE, none)' = OpponentTotals(d, FALSE, none)
      BY <1>1, <2>1, SameTotals DEF Askable
    <3> QED BY <1>3, <2>2, <3>1 DEF NoLocks
  <2>4. InTurn(d, held, todays, opponent)' = InTurn(d, held, todays, opponent)
    BY <1>1, <1>2, <1>6, <2>1, SameInTurn
  <2>5. WalkDay(d, through, held) = InTurn(d, held, todays, opponent)
    BY <1>4, <2>2 DEF WalkDay
  <2>6. WalkDay(d, through, held)' = InTurn(d, held, todays, opponent)'
    BY <1>5, <2>3 DEF WalkDay
  <2> QED BY <2>4, <2>5, <2>6
<1> QED BY <1>7, <1>8

\* A walk goes through the same days to the same locks, as far as it has not
\* asked for a player who cannot be projected.
LEMMA SameWalk ==
    ASSUME NEW k \in Int, Same(k), NEW through \in 0..LastDay,
           NEW n \in 0..through, n <= k,
           \A j \in 1..n : ~ Raises(j, through, WalkTo(j - 1, through))
    PROVE  \A j \in 0..n : WalkTo(j, through)' = WalkTo(j, through)
<1>0. WeekOK /\ WeekOK' /\ through \in Nat /\ n \in Nat /\ LastDay \in Nat
  BY DayFacts DEF Same
<1>1. IsLongWalk(through)
  BY <1>0, WalkFacts DEF WalksGrow
<1>2. WalkGoes /\ WalkGoes'
  BY WalkToSteps, PTL
<1> DEFINE Bad == {j \in 0..n : WalkTo(j, through)' # WalkTo(j, through)}
<1>3. ASSUME Bad # {} PROVE FALSE
  <2>1. PICK j \in Bad : \A i \in Bad : j <= i
    <3>1. Bad \in SUBSET Nat
      BY <1>0
    <3> QED BY <1>3, <3>1, LeastNat
  <2>2. j # 0
    <3>1. WalkTo(0, through)' = NoLocks /\ WalkTo(0, through) = NoLocks
      BY <1>2 DEF WalkGoes, NoLocks
    <3> QED BY <2>1, <3>1
  <2>3. /\ j \in 1..n /\ j - 1 \in 0..n /\ j - 1 \in 0..through /\ ~ (j <= j - 1)
        /\ j \in Days /\ j <= k /\ j \in Nat \ {0}
    BY <1>0, <2>2, DayFacts DEF Days
  <2>4. PICK held : held = WalkTo(j - 1, through)
    OBVIOUS
  <2>5. WalkTo(j - 1, through)' = held
    BY <2>1, <2>3, <2>4
  <2>6. WalkTo(j, through) = WalkDay(j, through, held)
    BY <1>2, <2>3, <2>4 DEF WalkGoes
  <2>7. WalkTo(j, through)' = WalkDay(j, through, held)'
    <3>1. WalkTo(j, through)' = WalkDay(j, through, WalkTo(j - 1, through))'
      BY <1>2, <2>3 DEF WalkGoes
    <3> QED BY <2>5, <3>1
  <2>8. Walked(held, j - 1, through) /\ ~ Raises(j, through, held)
    BY <1>1, <2>3, <2>4 DEF IsLongWalk
  <2>9. WalkDay(j, through, held)' = WalkDay(j, through, held)
    BY <2>3, <2>8, SameWalkDay
  <2> QED BY <2>1, <2>6, <2>7, <2>9
<1> QED BY <1>3

LEMMA SameRaises ==
    ASSUME NEW k \in Int, Same(k), NEW d \in Days, d <= k, NEW through, NEW held
    PROVE  Raises(d, through, held)' <=> Raises(d, through, held)
<1>1. Todays(d, through, held)' = Todays(d, through, held)
  BY SameTodays
<1>2. \A p : Unprojected(p, d)' <=> Unprojected(p, d)
  BY SameFixtures
<1>3. \A p \in Theirs : StandInLocks(p, d)' = StandInLocks(p, d)
  BY DayFacts, TeamFacts, SameStandInLocks
<1> QED BY <1>1, <1>2, <1>3 DEF Raises, Unlocked

\* It fails where it failed: the days before are walked alike.
LEMMA SameWalkFails ==
    ASSUME NEW k \in Int, Same(k), NEW through \in 0..LastDay, through <= k
    PROVE  WalkFails(through)' <=> WalkFails(through)
<1> DEFINE Falls == {d \in 1..through : Raises(d, through, WalkTo(d - 1, through))}
<1>1. /\ through \in Nat /\ 1..through \in SUBSET Nat /\ 1..through \in SUBSET Days
      /\ \A d \in 1..through : d <= k /\ d - 1 \in 0..through /\ d - 1 <= k
  BY DayFacts DEF Days
<1>2. CASE Falls = {}
  <2>1. \A j \in 1..through : ~ Raises(j, through, WalkTo(j - 1, through))
    BY <1>2
  <2>2. \A j \in 0..through : WalkTo(j, through)' = WalkTo(j, through)
    BY <1>1, <2>1, SameWalk
  <2>3. ASSUME NEW d \in 1..through
        PROVE  ~ Raises(d, through, WalkTo(d - 1, through))'
    <3>1. PICK held : held = WalkTo(d - 1, through)
      OBVIOUS
    <3>2. WalkTo(d - 1, through)' = held
      BY <1>1, <2>2, <3>1
    <3>3. ~ Raises(d, through, held)'
      BY <1>1, <2>1, <3>1, SameRaises
    <3> QED BY <3>2, <3>3
  <2> QED BY <2>1, <2>3 DEF WalkFails
<1>3. CASE Falls # {}
  <2>1. PICK d \in Falls : \A j \in Falls : d <= j
    BY <1>1, <1>3, LeastNat
  <2>2. d \in 1..through /\ Raises(d, through, WalkTo(d - 1, through))
    BY <2>1
  <2>3. \A j \in 1..(d - 1) : j \in 1..through /\ ~ (d <= j)
    BY <1>1, <2>2
  <2>4. \A j \in 1..(d - 1) : ~ Raises(j, through, WalkTo(j - 1, through))
    BY <2>1, <2>3
  <2>5. \A j \in 0..(d - 1) : WalkTo(j, through)' = WalkTo(j, through)
    BY <1>1, <2>2, <2>4, SameWalk
  <2>6. PICK held : held = WalkTo(d - 1, through)
    OBVIOUS
  <2>7. WalkTo(d - 1, through)' = held
    <3>1. d - 1 \in 0..(d - 1)
      BY <1>1, <2>2
    <3> QED BY <2>5, <2>6, <3>1
  <2>8. Raises(d, through, held)'
    BY <1>1, <2>2, <2>6, SameRaises
  <2> QED BY <2>2, <2>7, <2>8 DEF WalkFails
<1> QED BY <1>2, <1>3
-----------------------------------------------------------------------------
\* A live digest, a replay and the graded decisions of a morning.

LEMMA ColdStartFacts ==
    ASSUME NEW m
    PROVE  ColdStart(m) <=> ~ AllProjectable(m - 1)
BY DEF ColdStart, AllProjectable

LEMMA SameColdStart ==
    ASSUME NEW k \in Int, Same(k), NEW m
    PROVE  ColdStart(m)' <=> ColdStart(m)
BY SameFixtures DEF ColdStart

LEMMA PlacedLater ==
    ASSUME WeekOK, NEW held, NEW j \in Int, Placed(held, j), NEW k \in Int, j <= k
    PROVE  Placed(held, k)
<1>1. \A p \in DOMAIN held : held[p] \in Int /\ held[p] <= j
  BY FixtureFacts, DayFacts DEF Placed
<1>2. \A p \in DOMAIN held : held[p] <= k
  BY <1>1
<1> QED BY <1>2 DEF Placed

LEMMA SameLive ==
    ASSUME NEW k \in Int, Same(k), NEW mode, NEW m \in Mornings, m - 1 <= k,
           NEW held, Placed(held, k)
    PROVE  Live(mode, m, held)' = Live(mode, m, held)
<1>0. m - 1 \in Int
  BY DayFacts DEF Mornings
<1>1. CASE ColdStart(m)
  BY <1>1, SameColdStart DEF Live
<1>2. CASE ~ ColdStart(m)
  <2>1. AllProjectable(m - 1)
    BY <1>2, ColdStartFacts
  <2>2. PICK opponent : opponent = OpponentTotals(m - 1, Polled, held)
    OBVIOUS
  <2>3. OpponentTotals(m - 1, Polled, held)' = opponent
    <3>1. \A p \in Theirs : ~ Unprojected(p, m - 1)
      BY <2>1, TeamFacts DEF AllProjectable
    <3> QED BY <1>0, <2>2, <3>1, SameTotals
  <2>4. PICK locked : locked = Locked(mode, m, held)
    OBVIOUS
  <2>5. Locked(mode, m, held)' = locked
    <3>1. KnownBank(m - 1, held)' = KnownBank(m - 1, held)
      BY <1>0, SameKnownBank
    <3> QED BY <2>4, <3>1 DEF Locked, Supplied, Inferred
  <2>6. Placed(locked, k)
    BY <2>4, LockedFacts
  <2>7. Says(m, locked, opponent)' = Says(m, locked, opponent)
    <3>1. m \in Int
      BY DayFacts DEF Mornings
    <3> QED BY <2>1, <2>6, <3>1, AllAreAskable, SameSays
  <2>8. ~ ColdStart(m)'
    BY <1>2, SameColdStart
  <2>9. Live(mode, m, held) = Says(m, locked, opponent)
    BY <1>2, <2>2, <2>4 DEF Live, Locked
  <2>10. Live(mode, m, held)' = Says(m, locked, opponent)'
    BY <2>3, <2>5, <2>8 DEF Live, Locked
  <2> QED BY <2>7, <2>9, <2>10
<1> QED BY <1>1, <1>2

\* What a replay that is not refused banks, and says.
LEMMA ReplayedIsSaid ==
    ASSUME WeekOK, NEW m \in Mornings, Replayed(m) \notin {Abstained, Failed}
    PROVE  /\ ~ ColdStart(m) /\ ~ WalkFails(m - 1)
           /\ Replayed(m).banked = WalkLocks(m - 1)
           /\ Walked(Replayed(m).banked, m - 1, m - 1)
<1>1. ~ ColdStart(m) /\ ~ WalkFails(m - 1)
  BY DEF Replayed
<1>2. Replayed(m).banked = WalkLocks(m - 1)
  BY <1>1 DEF Replayed, Says
<1>3. PICK through : through = m - 1
  OBVIOUS
<1>4. through \in 0..LastDay /\ through \in 0..through
  BY <1>3, DayFacts DEF Mornings
<1>5. Walked(WalkLocks(through), through, through)
  BY <1>4, WalkFacts DEF WalksGrow, IsLongWalk, WalkLocks
<1> QED BY <1>1, <1>2, <1>3, <1>5

LEMMA SameReplayed ==
    ASSUME NEW k \in Int, Same(k), NEW m \in Mornings, m - 1 <= k
    PROVE  Replayed(m)' = Replayed(m)
<1>0. m \in Int /\ m - 1 \in Int /\ m - 1 \in 0..LastDay /\ WeekOK
  BY DayFacts DEF Mornings, Same
<1>1. PICK through : through = m - 1
  OBVIOUS
<1>2. WalkFails(through)' <=> WalkFails(through)
  BY <1>0, <1>1, SameWalkFails
<1>3. CASE ColdStart(m)
  BY <1>3, SameColdStart DEF Replayed
<1>4. CASE ~ ColdStart(m) /\ WalkFails(through)
  <2>1. ~ ColdStart(m)' /\ WalkFails(through)'
    BY <1>2, <1>4, SameColdStart
  <2> QED BY <1>1, <1>4, <2>1 DEF Replayed
<1>5. CASE ~ ColdStart(m) /\ ~ WalkFails(through)
  <2>1. AllProjectable(m - 1)
    BY <1>5, ColdStartFacts
  <2>2. PICK locked : locked = WalkLocks(through)
    OBVIOUS
  <2>3. WalkLocks(through)' = locked
    <3>1. through \in 0..LastDay /\ through \in 0..through /\ through <= k
      BY <1>0, <1>1
    <3>2. \A j \in 1..through : ~ Raises(j, through, WalkTo(j - 1, through))
      BY <1>5 DEF WalkFails
    <3>3. WalkTo(through, through)' = WalkTo(through, through)
      BY <3>1, <3>2, SameWalk
    <3> QED BY <2>2, <3>3 DEF WalkLocks
  <2>4. Placed(locked, k)
    <3>1. through \in 0..LastDay /\ through \in 0..through
      BY <1>0, <1>1
    <3>2. Walked(locked, through, through)
      BY <1>0, <2>2, <3>1, WalkFacts DEF WalksGrow, IsLongWalk, WalkLocks
    <3> QED BY <1>0, <1>1, <3>2, WalkedIsPlaced, PlacedLater
  <2>5. PICK opponent : opponent = OpponentTotals(through, FALSE, NoLocks)
    OBVIOUS
  <2>6. OpponentTotals(through, FALSE, NoLocks)' = opponent
    <3>1. Placed(NoLocks, k)
      BY DEF Placed, NoLocks
    <3>2. \A p \in Theirs : ~ Unprojected(p, through)
      BY <1>1, <2>1, TeamFacts DEF AllProjectable
    <3>3. through \in Int /\ through <= k
      BY <1>0, <1>1
    <3>4. \A none : Placed(none, k) =>
             OpponentTotals(through, FALSE, none)' = OpponentTotals(through, FALSE, none)
      BY <3>2, <3>3, SameTotals
    <3> QED BY <2>5, <3>1, <3>4 DEF NoLocks
  <2>7. Says(m, locked, opponent)' = Says(m, locked, opponent)
    BY <1>0, <2>1, <2>4, AllAreAskable, SameSays
  <2>8. ~ ColdStart(m)' /\ ~ WalkFails(through)'
    BY <1>2, <1>5, SameColdStart
  <2>9. Replayed(m) = Says(m, locked, opponent)
    BY <1>1, <1>5, <2>2, <2>5 DEF Replayed
  <2>10. Replayed(m)' = Says(m, locked, opponent)'
    BY <1>1, <2>3, <2>6, <2>8 DEF Replayed
  <2> QED BY <2>7, <2>9, <2>10
<1> QED BY <1>3, <1>4, <1>5

LEMMA SameGraded ==
    ASSUME NEW k \in 0..LastDay, Same(k), NEW m \in Mornings, m - 1 <= k,
           \A d \in 1..(m - 1) : AllProjectable(d)
    PROVE  Graded(m)' = Graded(m)
<1>0. /\ m \in Nat /\ LastDay \in Nat /\ LastDay \in 0..LastDay /\ k \in Int
      /\ m - 1 \in Int /\ m - 1 \in 0..LastDay /\ LastDay \in (m - 1)..LastDay
  BY DayFacts DEF Mornings
<1>1. PICK n : n = m - 1
  OBVIOUS
<1>2. Same(n) /\ n \in Int /\ n <= n /\ n \in 0..LastDay /\ LastDay \in n..LastDay
  BY <1>0, <1>1, SameEarlier
<1>3. PICK early : early = WalkTo(n, LastDay)
  OBVIOUS
<1>4. WalkTo(n, LastDay)' = early
  <2>1. ASSUME NEW j \in 1..n PROVE ~ Raises(j, LastDay, WalkTo(j - 1, LastDay))
    <3>1. AllProjectable(j)
      BY <1>1
    <3> QED BY <3>1, AllAreAskable DEF Raises, Askable
  <2>2. n \in 0..n
    BY <1>2
  <2>3. WalkTo(n, LastDay)' = WalkTo(n, LastDay)
    BY <1>0, <1>2, <2>1, <2>2, SameWalk
  <2> QED BY <1>3, <2>3
<1>5. IsLongWalk(LastDay) /\ IsLongWalk(LastDay)'
  <2>1. WalksGrow /\ WalksGrow'
    BY WalkFacts, PTL
  <2>2. WeekOK /\ WeekOK'
    BY DEF Same
  <2>3. IsLongWalk(LastDay)
    BY <1>0, <2>1, <2>2 DEF WalksGrow
  <2>4. IsLongWalk(LastDay)'
    BY <1>0, <2>1, <2>2 DEF WalksGrow
  <2> QED BY <2>3, <2>4
<1>6. PICK r : r = WalkTo(LastDay, LastDay)
  OBVIOUS
<1>7. PICK t : t = WalkTo(LastDay, LastDay)'
  OBVIOUS
<1>8. Keeps(r, early, n)
  BY <1>2, <1>3, <1>5, <1>6 DEF IsLongWalk
<1>9. Keeps(t, early, n)
  <2>1. Keeps(WalkTo(LastDay, LastDay), WalkTo(n, LastDay), n)'
    BY <1>2, <1>5 DEF IsLongWalk
  <2> QED BY <1>4, <1>7, <2>1 DEF Keeps
<1>10. \A p \in DOMAIN r : r[p] \in Int
  <2>1. Walked(r, LastDay, LastDay)
    BY <1>0, <1>5, <1>6 DEF IsLongWalk
  <2>2. \A p \in DOMAIN r : p \in Players /\ r[p] \in fixtures[p]
    BY <2>1, TeamFacts DEF Walked
  <2> QED BY <2>2, FixtureFacts, DayFacts DEF Same
<1>11. \A p \in DOMAIN t : t[p] \in Int
  <2>1. Walked(t, LastDay, LastDay)'
    <3>1. Walked(WalkTo(LastDay, LastDay), LastDay, LastDay)'
      BY <1>0, <1>5 DEF IsLongWalk
    <3> QED BY <1>7, <3>1
  <2>2. \A p \in DOMAIN t : p \in Players /\ t[p] \in fixtures[p]
    BY <2>1, TeamFacts DEF Walked, Same
  <2> QED BY <2>2, FixtureFacts, DayFacts DEF Same
<1> DEFINE Before(u) == {q \in DOMAIN u : u[q] < m}
<1>12. ASSUME NEW u, Keeps(u, early, n), \A q \in DOMAIN u : u[q] \in Int
       PROVE  \A q \in Before(u) : q \in DOMAIN early /\ u[q] = early[q]
  <2> TAKE q \in Before(u)
  <2>1. ~ (u[q] > n)
    <3>1. u[q] < m /\ u[q] \in Int
      BY <1>12
    <3> QED BY <1>0, <1>1, <3>1
  <2> QED BY <1>12, <2>1 DEF Keeps
<1>13. Before(r) = Before(t) /\ \A q \in Before(r) : r[q] = t[q]
  <2>1. \A q \in DOMAIN early : /\ q \in DOMAIN r /\ r[q] = early[q]
                                /\ q \in DOMAIN t /\ t[q] = early[q]
    BY <1>8, <1>9 DEF Keeps
  <2>2. \A q \in Before(r) : q \in DOMAIN early /\ r[q] = early[q]
    BY <1>8, <1>10, <1>12
  <2>3. \A q \in Before(t) : q \in DOMAIN early /\ t[q] = early[q]
    BY <1>9, <1>11, <1>12
  <2> QED BY <2>1, <2>2, <2>3
<1> HIDE DEF Before
<1>14. Graded(m) = [p \in Before(r) |-> r[p]]
  BY <1>6 DEF Graded, Before, WalkLocks
<1>15. Graded(m)' = [p \in Before(t) |-> t[p]]
  BY <1>7 DEF Graded, Before, WalkLocks
<1> QED BY <1>13, <1>14, <1>15

-----------------------------------------------------------------------------
\* The invariant: what a morning printed is what would be printed now, and
\* what was banked by then still is, beside games at least as late as any it saw.

BankOK ==
    /\ Placed(bank, today - 1)
    /\ \A p \in DOMAIN bank : Played(p, bank[p])

PrintedOK(m) ==
    /\ Placed(printed[m].held, m - 1)
    /\ printed[m].live = [mode \in Modes |-> Live(mode, m, printed[m].held)]
    /\ printed[m].replayed = Replayed(m)
    /\ (\A d \in 1..(m - 1) : AllProjectable(d)) => printed[m].graded = Graded(m)

Grows(held, more, k) ==
    /\ \A p \in DOMAIN held : p \in DOMAIN more /\ more[p] = held[p]
    /\ \A p \in DOMAIN more \ DOMAIN held : \A d \in Seen(p, k) : d <= more[p]

BankGrows ==
    \A m \in DOMAIN printed :
        /\ Grows(printed[m].held, bank, m - 1)
        /\ \A later \in DOMAIN printed :
              m < later => Grows(printed[m].held, printed[later].held, m - 1)

IInv ==
    /\ WeekOK /\ today \in Mornings
    /\ BankOK
    /\ DOMAIN printed \in {1..(today - 1), 1..today}
    /\ \A m \in DOMAIN printed : PrintedOK(m)
    /\ BankGrows

LEMMA MorningFacts ==
    ASSUME today \in Mornings
    PROVE  /\ today \in Nat /\ today - 1 \in 0..LastDay /\ today - 1 \in Int
           /\ \A m \in 1..today : m \in Mornings /\ m - 1 <= today - 1
BY DayFacts DEF Mornings

\* The games of a later night change nothing of a morning's record.
LEMMA RecordStays ==
    ASSUME NEW k \in 0..LastDay, Same(k), NEW m \in Mornings, m - 1 <= k,
           NEW record, Placed(record.held, m - 1),
           record.live = [mode \in Modes |-> Live(mode, m, record.held)],
           record.replayed = Replayed(m),
           (\A d \in 1..(m - 1) : AllProjectable(d)) => record.graded = Graded(m)
    PROVE  /\ Placed(record.held, m - 1)'
           /\ record.live = [mode \in Modes |-> Live(mode, m, record.held)']
           /\ record.replayed = Replayed(m)'
           /\ (\A d \in 1..(m - 1) : AllProjectable(d)') => record.graded = Graded(m)'
<1>1. k \in Int /\ m - 1 \in Int /\ WeekOK /\ fixtures' = fixtures
  BY DayFacts DEF Mornings, Same
<1>2. PICK held : held = record.held
  OBVIOUS
<1>3. Placed(held, m - 1) /\ Placed(held, k)
  BY <1>1, <1>2, PlacedLater
<1>4. Placed(held, m - 1)'
  BY <1>1, <1>3 DEF Placed
<1>5. \A mode : Live(mode, m, held)' = Live(mode, m, held)
  BY <1>1, <1>3, SameLive
<1>6. record.replayed = Replayed(m)'
  BY <1>1, SameReplayed
<1>7. (\A d \in 1..(m - 1) : AllProjectable(d)') => record.graded = Graded(m)'
  <2>1. ASSUME NEW d, AllProjectable(d)' PROVE AllProjectable(d)
    BY <1>1, <2>1, SameFixtures DEF AllProjectable
  <2>2. (\A d \in 1..(m - 1) : AllProjectable(d)) => Graded(m)' = Graded(m)
    BY SameGraded
  <2> QED BY <2>1, <2>2
<1> QED BY <1>2, <1>4, <1>5, <1>6, <1>7

LEMMA PrintedStays ==
    ASSUME today \in Mornings, Same(today - 1), NEW m \in 1..today, PrintedOK(m),
           printed'[m] = printed[m]
    PROVE  PrintedOK(m)'
<1>1. PICK k \in 0..LastDay : k = today - 1
  BY MorningFacts
<1>2. Same(k) /\ m \in Mornings /\ m - 1 <= k
  BY <1>1, MorningFacts
<1>3. PICK record : record = printed[m]
  OBVIOUS
<1>4. /\ Placed(record.held, m - 1)'
      /\ record.live = [mode \in Modes |-> Live(mode, m, record.held)']
      /\ record.replayed = Replayed(m)'
      /\ (\A d \in 1..(m - 1) : AllProjectable(d)') => record.graded = Graded(m)'
  BY <1>2, <1>3, RecordStays DEF PrintedOK
<1>5. printed'[m] = record
  BY <1>3
<1> QED BY <1>4, <1>5 DEF PrintedOK
-----------------------------------------------------------------------------
LEMMA InitIInv == Init => IInv
<1> SUFFICES ASSUME Init PROVE IInv
  OBVIOUS
<1>1. WeekOK
  <2>1. outcome \in [Players -> [Days -> Scores \cup {Out}]]
    BY DEF Init
  <2> QED BY <2>1 DEF Init, WeekOK
<1>2. today = 1 /\ today \in Mornings
  BY DayFacts DEF Init, Mornings
<1>3. BankOK
  BY DEF Init, BankOK, Placed, NoLocks
<1>4. DOMAIN printed = {} /\ 1..(today - 1) = {}
  BY <1>2 DEF Init
<1>5. BankGrows
  BY <1>4 DEF BankGrows
<1> QED BY <1>1, <1>2, <1>3, <1>4, <1>5 DEF IInv

LEMMA Unchanged ==
    ASSUME WeekOK, UNCHANGED <<fixtures, outcome, draws, debut>>, NEW k
    PROVE  Same(k) /\ WeekOK'
BY DEF Same, WeekOK

LEMMA BankGrowsNext ==
    ASSUME fixtures' = fixtures,
           \A j \in DOMAIN printed' : Grows(printed'[j].held, bank', j - 1),
           \A j, later \in DOMAIN printed' :
              j < later => Grows(printed'[j].held, printed'[later].held, j - 1)
    PROVE  BankGrows'
<1>1. \A held, more, k : Grows(held, more, k)' <=> Grows(held, more, k)
  BY DEF Grows, Seen
<1>2. ASSUME NEW j \in DOMAIN printed' PROVE Grows(printed[j].held, bank, j - 1)'
  <2>1. PICK held : held = printed'[j].held
    OBVIOUS
  <2>2. PICK more : more = bank'
    OBVIOUS
  <2>3. Grows(held, more, j - 1)'
    BY <1>1, <2>1, <2>2
  <2> QED BY <2>1, <2>2, <2>3
<1>3. ASSUME NEW j \in DOMAIN printed', NEW later \in DOMAIN printed', j < later
      PROVE  Grows(printed[j].held, printed[later].held, j - 1)'
  <2>1. PICK held : held = printed'[j].held
    OBVIOUS
  <2>2. PICK more : more = printed'[later].held
    OBVIOUS
  <2>3. Grows(held, more, j - 1)'
    BY <1>1, <1>3, <2>1, <2>2
  <2> QED BY <2>1, <2>2, <2>3
<1> QED BY <1>2, <1>3 DEF BankGrows

LEMMA MorningStep == IInv /\ Morning => IInv'
<1> SUFFICES ASSUME IInv, Morning PROVE IInv'
  OBVIOUS
<1>1. /\ WeekOK /\ today \in Mornings /\ BankOK
      /\ UNCHANGED <<fixtures, outcome, draws, debut, today, bank>>
      /\ Same(today - 1) /\ WeekOK'
  BY Unchanged DEF IInv, Morning
<1>2. DOMAIN printed = 1..(today - 1)
  <2>1. today \in 1..today
    BY <1>1, MorningFacts
  <2> QED BY <2>1 DEF IInv, Morning
<1>3. /\ DOMAIN printed' = 1..today
      /\ \A m \in 1..today : m < today => printed'[m] = printed[m]
      /\ printed'[today].held = bank
      /\ printed'[today].live = [mode \in Modes |-> Live(mode, today, bank)]
      /\ printed'[today].replayed = Replayed(today)
      /\ printed'[today].graded = Graded(today)
  <2>1. today \in 1..today /\ ~ (today < today)
    BY <1>1, MorningFacts
  <2> QED BY <2>1 DEF Morning
<1>4. BankOK'
  BY <1>1 DEF BankOK, Placed, Played
<1>5. ASSUME NEW m \in 1..today, m < today PROVE PrintedOK(m)'
  <2>1. m \in DOMAIN printed
    BY <1>1, <1>2, <1>5, MorningFacts
  <2> QED BY <1>1, <1>3, <1>5, <2>1, PrintedStays DEF IInv
<1>6. PICK m : m = today
  OBVIOUS
<1>7. PrintedOK(m)'
  <2>0. PICK k \in 0..LastDay : k = today - 1
    BY <1>1, MorningFacts
  <2>1. m \in Mornings /\ m \in 1..today /\ Same(k) /\ m - 1 <= k /\ m - 1 = k
    BY <1>1, <1>6, <2>0, MorningFacts
  <2>2. PICK record : record = printed'[today]
    OBVIOUS
  <2>3. Placed(record.held, m - 1)
    BY <1>1, <1>3, <2>0, <2>1, <2>2 DEF BankOK
  <2>4. record.live = [mode \in Modes |-> Live(mode, m, record.held)]
    BY <1>3, <1>6, <2>2
  <2>5. record.replayed = Replayed(m) /\ record.graded = Graded(m)
    BY <1>3, <1>6, <2>2
  <2>6. /\ Placed(record.held, m - 1)'
        /\ record.live = [mode \in Modes |-> Live(mode, m, record.held)']
        /\ record.replayed = Replayed(m)'
        /\ (\A d \in 1..(m - 1) : AllProjectable(d)') => record.graded = Graded(m)'
    BY <2>1, <2>3, <2>4, <2>5, RecordStays
  <2>7. printed'[m] = record
    BY <1>6, <2>2
  <2> QED BY <2>6, <2>7 DEF PrintedOK
<1>8. \A j \in DOMAIN printed' : PrintedOK(j)'
  <2> TAKE j \in DOMAIN printed'
  <2>1. j \in 1..today
    BY <1>3
  <2>2. j < today \/ j = m
    BY <1>1, <1>6, <2>1, MorningFacts
  <2> QED BY <1>5, <1>7, <2>1, <2>2
<1>9. today' \in Mornings /\ DOMAIN printed' = 1..today'
  BY <1>1, <1>3
<1>10. BankGrows'
  <2>1. \A j \in DOMAIN printed' : j \in 1..today /\ (j < today \/ j = today)
    BY <1>1, <1>3, MorningFacts
  <2>2. \A j \in 1..today : j < today => j \in DOMAIN printed
    BY <1>1, <1>2, MorningFacts
  <2>3. \A held, k : Grows(held, held, k)
    BY DEF Grows
  <2>4. ASSUME NEW j \in DOMAIN printed'
        PROVE  Grows(printed'[j].held, bank, j - 1)
    <3>1. CASE j < today
      BY <1>3, <2>1, <2>2, <3>1 DEF IInv, BankGrows
    <3>2. CASE j = today
      BY <1>3, <2>3, <3>2
    <3> QED BY <2>1, <3>1, <3>2
  <2>5. ASSUME NEW j \in DOMAIN printed', NEW later \in DOMAIN printed', j < later
        PROVE  Grows(printed'[j].held, printed'[later].held, j - 1)
    <3>1. j \in 1..today /\ later \in 1..today /\ j < today
      BY <1>1, <2>1, <2>5, MorningFacts
    <3>2. CASE later < today
      BY <1>3, <2>2, <2>5, <3>1, <3>2 DEF IInv, BankGrows
    <3>3. CASE later = today
      BY <1>3, <2>4, <3>3
    <3> QED BY <2>1, <3>2, <3>3
  <2> QED BY <1>1, <2>4, <2>5, BankGrowsNext
<1> QED BY <1>1, <1>4, <1>8, <1>9, <1>10 DEF IInv

LEMMA LockStep ==
    ASSUME IInv, NEW p \in Players, Lock(p)
    PROVE  IInv'
<1>1. /\ WeekOK /\ today \in Mornings /\ BankOK
      /\ UNCHANGED <<fixtures, outcome, draws, debut, today, printed>>
      /\ Same(today - 1) /\ WeekOK'
  BY Unchanged DEF IInv, Lock
<1> DEFINE last == Max(Seen(p, today - 1))
<1>2. last \in fixtures[p] /\ last <= today - 1 /\ Played(p, last)
  <2>1. Seen(p, today - 1) \in SUBSET Days /\ Seen(p, today - 1) # {}
    BY <1>1, FixtureFacts DEF Lock
  <2>2. last \in Seen(p, today - 1)
    BY <2>1, DayExtremes
  <2> QED BY <2>2 DEF Lock, Seen
<1>3. bank' = [q \in DOMAIN bank \cup {p} |-> IF q = p THEN last ELSE bank[q]]
  BY DEF Lock
<1> HIDE DEF last
<1>4. DOMAIN bank' = DOMAIN bank \cup {p} /\ bank' = [q \in DOMAIN bank' |-> bank'[q]]
      /\ \A q \in DOMAIN bank' : bank'[q] = IF q = p THEN last ELSE bank[q]
  BY <1>3
<1>5. DOMAIN bank' \subseteq Players
      /\ \A q \in DOMAIN bank' : /\ bank'[q] \in fixtures'[q] /\ bank'[q] <= today' - 1
                                 /\ Played(q, bank'[q])
  BY <1>1, <1>2, <1>4 DEF BankOK, Placed
<1>6. BankOK'
  BY <1>1, <1>4, <1>5 DEF BankOK, Placed, Played
<1>7. ASSUME NEW m \in DOMAIN printed PROVE PrintedOK(m)'
  <2>1. m \in 1..today
    BY <1>1, MorningFacts DEF IInv
  <2> QED BY <1>1, <2>1, PrintedStays DEF IInv
<1>8. DOMAIN printed' \in {1..(today' - 1), 1..today'}
  BY <1>1 DEF IInv
<1>9. BankGrows'
  <2>1. ASSUME NEW m \in DOMAIN printed PROVE Grows(printed[m].held, bank', m - 1)
    <3>1. Grows(printed[m].held, bank, m - 1) /\ p \notin DOMAIN bank
      BY DEF IInv, BankGrows, Lock
    <3>2. ASSUME NEW d \in Seen(p, m - 1) PROVE d <= bank'[p]
      <4>1. m \in Nat /\ m <= today /\ today \in Nat
        BY <1>1, MorningFacts DEF IInv
      <4>2. d \in Seen(p, today - 1)
        <5>1. d \in fixtures[p] /\ d <= m - 1 /\ d \in Int
          BY <1>1, FixtureFacts, DayFacts DEF Seen
        <5> QED BY <4>1, <5>1 DEF Seen
      <4>3. Seen(p, today - 1) \in SUBSET Days /\ Seen(p, today - 1) # {}
        BY <1>1, <4>2, FixtureFacts
      <4>4. d <= Max(Seen(p, today - 1))
        BY <4>2, <4>3, DayExtremes
      <4> QED BY <1>4, <4>4 DEF last
    <3> QED BY <1>4, <3>1, <3>2 DEF Grows
  <2>2. \A m, later \in DOMAIN printed :
           m < later => Grows(printed[m].held, printed[later].held, m - 1)
    BY DEF IInv, BankGrows
  <2> QED BY <1>1, <2>1, <2>2, BankGrowsNext
<1> QED BY <1>1, <1>6, <1>7, <1>8, <1>9 DEF IInv

LEMMA NightStep == IInv /\ Night => IInv'
<1> SUFFICES ASSUME IInv, Night PROVE IInv'
  OBVIOUS
<1>1. /\ WeekOK /\ today \in Mornings /\ BankOK /\ today \in Days
      /\ UNCHANGED <<fixtures, draws, debut, bank, printed>> /\ today' = today + 1
  BY DEF IInv, Night
<1>2. PICK came \in [{p \in Players : today \in fixtures[p]} -> Scores \cup {Out}] :
          outcome' = [p \in Players |-> [outcome[p] EXCEPT ![today] =
                         IF p \in DOMAIN came THEN came[p] ELSE @]]
  BY DEF Night
<1>3. WeekOK'
  <2>1. outcome' \in [Players -> [Days -> Scores \cup {Out}]]
    <3>1. ASSUME NEW p \in Players
          PROVE  outcome'[p] \in [Days -> Scores \cup {Out}]
      <4>1. outcome[p] \in [Days -> Scores \cup {Out}]
        BY <1>1 DEF WeekOK
      <4>2. p \in DOMAIN came => came[p] \in Scores \cup {Out}
        OBVIOUS
      <4> QED BY <1>1, <1>2, <4>1, <4>2
    <3> QED BY <1>2, <3>1
  <2> QED BY <1>1, <2>1 DEF WeekOK
<1>4. Same(today - 1)
  <2>1. ASSUME NEW p \in Players, NEW d \in Days, d <= today - 1
        PROVE  outcome'[p][d] = outcome[p][d]
    <3>1. d # today
      BY <1>1, <2>1, DayFacts
    <3>2. outcome[p] \in [Days -> Scores \cup {Out}]
      BY <1>1 DEF WeekOK
    <3> QED BY <1>2, <3>1, <3>2
  <2> QED BY <1>1, <1>3, <2>1 DEF Same
<1>5. today' \in Mornings /\ today' - 1 = today /\ today \in Int
  BY <1>1, DayFacts DEF Mornings, Days
<1>6. BankOK'
  <2>1. Placed(bank, today)
    BY <1>1, <1>5, MorningFacts, PlacedLater DEF BankOK
  <2>2. Placed(bank, today - 1)'
    BY <1>1, <1>5, <2>1 DEF Placed
  <2>3. ASSUME NEW p \in DOMAIN bank PROVE Played(p, bank[p])'
    <3>1. p \in Players /\ bank[p] \in Days /\ bank[p] <= today - 1 /\ Played(p, bank[p])
      BY <1>1, FixtureFacts DEF BankOK, Placed
    <3>2. PICK d : d = bank[p]
      OBVIOUS
    <3>3. Played(p, d)' <=> Played(p, d)
      BY <1>4, <3>1, <3>2, SameScores
    <3> QED BY <1>1, <3>1, <3>2, <3>3 DEF Played
  <2> QED BY <1>1, <2>2, <2>3 DEF BankOK
<1>7. DOMAIN printed' = 1..today
  <2>1. today \in 1..today /\ today \notin 1..(today - 1)
    BY <1>1, MorningFacts
  <2> QED BY <1>1, <2>1 DEF IInv, Night
<1>8. ASSUME NEW m \in DOMAIN printed PROVE PrintedOK(m)'
  <2>1. m \in 1..today
    BY <1>1, <1>7
  <2> QED BY <1>1, <1>4, <2>1, PrintedStays DEF IInv
<1>9. BankGrows'
  BY <1>1, BankGrowsNext DEF IInv, BankGrows
<1> QED BY <1>1, <1>3, <1>5, <1>6, <1>7, <1>8, <1>9 DEF IInv

LEMMA StutterStep == IInv /\ UNCHANGED vars => IInv'
<1> SUFFICES ASSUME IInv, UNCHANGED vars PROVE IInv'
  OBVIOUS
<1>1. /\ WeekOK /\ today \in Mornings /\ BankOK
      /\ UNCHANGED <<fixtures, outcome, draws, debut, today, bank, printed>>
      /\ Same(today - 1) /\ WeekOK'
  BY Unchanged DEF IInv, vars
<1>2. BankOK'
  BY <1>1 DEF BankOK, Placed, Played
<1>3. ASSUME NEW m \in DOMAIN printed PROVE PrintedOK(m)'
  <2>1. m \in 1..today
    BY <1>1, MorningFacts DEF IInv
  <2> QED BY <1>1, <2>1, PrintedStays DEF IInv
<1>4. BankGrows'
  BY <1>1, BankGrowsNext DEF IInv, BankGrows
<1> QED BY <1>1, <1>2, <1>3, <1>4 DEF IInv

\* A week keeps what each of its mornings printed of what came before.
THEOREM Invariance == Spec => []IInv
<1>1. IInv /\ [Next]_vars => IInv'
  BY MorningStep, LockStep, NightStep, StutterStep DEF Next
<1> QED BY <1>1, InitIInv, PTL DEF Spec


-----------------------------------------------------------------------------
\* What the invariant says of the properties.

LEMMA InvTypes == IInv => TypeOK
<1> SUFFICES ASSUME IInv PROVE TypeOK
  OBVIOUS
<1>1. WeekOK /\ BankOK /\ today \in Mornings /\ DOMAIN printed \in {1..(today - 1), 1..today}
  BY DEF IInv
<1>2. DOMAIN bank \subseteq Players
      /\ \A p \in DOMAIN bank : bank[p] \in fixtures[p] /\ Played(p, bank[p])
  BY <1>1 DEF BankOK, Placed
<1> QED BY <1>1, <1>2 DEF TypeOK, WeekOK

\* What a morning printed, of the state it is read in.
LEMMA PrintedFacts ==
    ASSUME IInv, NEW m \in DOMAIN printed
    PROVE  /\ WeekOK /\ m \in Mornings /\ m \in Nat /\ PrintedOK(m)
           /\ \A mode \in Modes :
                 /\ printed[m].live[mode] = Live(mode, m, printed[m].held)
                 /\ printed[m].live[mode] # Abstained => ~ ColdStart(m)
<1>1. WeekOK /\ PrintedOK(m) /\ today \in Mornings /\ m \in 1..today
  BY MorningFacts DEF IInv
<1>2. m \in Mornings /\ m \in Nat
  BY <1>1, MorningFacts
<1>3. \A mode \in Modes : printed[m].live[mode] = Live(mode, m, printed[m].held)
  BY <1>1 DEF PrintedOK
<1>4. \A mode \in Modes : printed[m].live[mode] # Abstained => ~ ColdStart(m)
  BY <1>3 DEF Live
<1> QED BY <1>1, <1>2, <1>3, <1>4

LEMMA InvCalls == IInv => CallsAgreeWithRules
<1> SUFFICES ASSUME IInv, NEW m \in DOMAIN printed, NEW mode \in Modes,
                    printed[m].live[mode] # Abstained,
                    NEW p \in DOMAIN printed[m].live[mode].calls
             PROVE  LET call == printed[m].live[mode].calls[p]
                    IN  call.lock <=> AtLeast(call.score, call.breakEven)
  BY DEF CallsAgreeWithRules
<1>1. WeekOK /\ ~ ColdStart(m) /\ Placed(printed[m].held, m - 1)
      /\ printed[m].live[mode] = Live(mode, m, printed[m].held)
  BY PrintedFacts DEF PrintedOK
<1> QED BY <1>1, SaysAgrees

LEMMA InvLeavesOpen == IInv => ReplayLeavesOpenWindows
<1> SUFFICES ASSUME IInv, NEW m \in DOMAIN printed, NEW mode \in Modes,
                    printed[m].live[mode] # Abstained,
                    printed[m].replayed \notin {Abstained, Failed},
                    NEW p \in DOMAIN printed[m].live[mode].calls,
                    p \in DOMAIN printed[m].replayed.banked
             PROVE  printed[m].replayed.banked[p] # printed[m].live[mode].calls[p].day
  BY DEF ReplayLeavesOpenWindows
<1>1. /\ WeekOK /\ ~ ColdStart(m) /\ Placed(printed[m].held, m - 1)
      /\ m \in Nat /\ m \in Mornings
      /\ printed[m].live[mode] = Live(mode, m, printed[m].held)
      /\ printed[m].replayed = Replayed(m)
  BY PrintedFacts DEF PrintedOK
<1>2. PICK r : r = printed[m].replayed.banked
  OBVIOUS
<1>3. Walked(r, m - 1, m - 1)
  <2>1. Replayed(m) \notin {Abstained, Failed} /\ Replayed(m).banked = r
    BY <1>1, <1>2
  <2>2. Walked(Replayed(m).banked, m - 1, m - 1)
    BY <1>1, <2>1, ReplayedIsSaid
  <2> QED BY <2>1, <2>2
<1>4. PICK d : d = r[p]
  OBVIOUS
<1>5. p \in Players /\ d \in fixtures[p] /\ WindowCloses(p, d, m - 1)
  BY <1>2, <1>3, <1>4, TeamFacts DEF Walked
<1>6. printed[m].live[mode].calls[p].day = Max(Seen(p, m - 1))
  <2>1. PICK held : held = printed[m].held
    OBVIOUS
  <2>2. PICK live : live = Live(mode, m, held)
    OBVIOUS
  <2>3. printed[m].live[mode] = live /\ p \in DOMAIN live.calls
    BY <1>1, <2>1, <2>2
  <2>4. \A q \in DOMAIN live.calls : live.calls[q].day = Max(Seen(q, m - 1))
    BY <1>1, <2>1, <2>2, SaysAgrees
  <2> QED BY <2>3, <2>4
<1>7. PICK next \in Ahead(p, d) : next <= m - 1
  <2>1. Ahead(p, d) \in SUBSET Days /\ Ahead(p, d) # {} /\ Min(Ahead(p, d)) <= m - 1
    BY <1>1, <1>5, FixtureFacts DEF WindowCloses
  <2> QED BY <2>1, DayExtremes
<1>8. next \in Seen(p, m - 1) /\ d < next /\ d \in Int /\ next \in Int
  BY <1>1, <1>5, <1>7, FixtureFacts, DayFacts DEF Ahead, Seen
<1>9. next <= Max(Seen(p, m - 1)) /\ Max(Seen(p, m - 1)) \in Int
  <2>1. Seen(p, m - 1) \in SUBSET Days /\ Seen(p, m - 1) # {}
    BY <1>1, <1>5, <1>8, FixtureFacts
  <2> QED BY <1>8, <2>1, DayExtremes, DayFacts
<1> QED BY <1>2, <1>4, <1>6, <1>8, <1>9

\* The week is as it was declared to be, what is banked has been played, and
\* every morning up to this one has its digest.
THEOREM Types == Spec => []TypeOK
BY Invariance, InvTypes, PTL

\* A call is LOCK exactly when the score is at or above the break-even printed
\* beside it, for every team, every fixture list, every draw and every score.
\* (winprob.py evaluate_lock and lock_threshold.)
THEOREM CallsAgree == Spec => []CallsAgreeWithRules
BY Invariance, InvCalls, PTL

\* No game a replayed date assumes banked is one the live digest of that date
\* still called. (walk_locks with through_day.)
THEOREM OpenWindowsAreLeft == Spec => []ReplayLeavesOpenWindows
BY Invariance, InvLeavesOpen, PTL

\* A date replayed on any later morning says what it said then, or fails as it
\* did then, whenever each player can first be projected. (walk_locks,
\* opponent_totals and contribution, cut at known_through; the digest's
\* InsufficientHistory.)
THEOREM ReplayIsDated == Spec => []ReplayReadsOnlyItsPast
<1>1. IInv => ReplayReadsOnlyItsPast
  BY DEF IInv, PrintedOK, ReplayReadsOnlyItsPast
<1> QED BY <1>1, Invariance, PTL

\* What the backtest decides of a game once the week is over is what it would
\* have decided the morning after it, as long as everyone with games ahead
\* could be projected on the nights up to it. (run_backtest.)
THEOREM BacktestIsBlind == Spec => []GradedIsBlind
<1>1. IInv => GradedIsBlind
  BY DEF IInv, PrintedOK, AllProjectable, GradedIsBlind
<1> QED BY <1>1, Invariance, PTL

-----------------------------------------------------------------------------
\* A standing rule: what nights on which nothing is locked change.

\* A player whose games up to n may not be banked counts, seen from j, what he
\* counts once those games are behind him.
LEMMA IdleNights ==
    ASSUME WeekOK, NEW q \in Players, NEW j \in Int, NEW n \in Int, j <= n, NEW actFrom \in Int,
           \A d \in fixtures[q] : d > j => (d < actFrom <=> d <= n),
           Ahead(q, n) # {}, ~ Unprojected(q, j), ~ Unprojected(q, n)
    PROVE  Contribution(q, j, actFrom) = AtOnce(q, n)
<1>1. PICK before : before = Ahead(q, j)
  OBVIOUS
<1>2. PICK after : after = Ahead(q, n)
  OBVIOUS
<1>3. /\ before \in SUBSET Days /\ after \in SUBSET Days /\ Days \subseteq Int
      /\ after # {} /\ before # {} /\ after \subseteq before
      /\ \A d \in before : d > j /\ d \in fixtures[q] /\ (d \in after <=> d > n)
      /\ \A d \in after : d > n
  <2>1. before \in SUBSET Days /\ after \in SUBSET Days /\ Days \subseteq Int
    BY <1>1, <1>2, FixtureFacts, DayFacts
  <2>2. \A d : (d \in before <=> d \in fixtures[q] /\ d > j)
             /\ (d \in after <=> d \in fixtures[q] /\ d > n)
    BY <1>1, <1>2 DEF Ahead
  <2>3. ASSUME NEW d \in after PROVE d \in Int /\ d > n /\ d > j /\ d \in fixtures[q]
    <3>1. d \in Int
      BY <2>1
    <3>2. d > n /\ d \in fixtures[q]
      BY <2>2
    <3> QED BY <3>1, <3>2
  <2>4. after \subseteq before
    BY <2>2, <2>3
  <2>5. after # {}
    BY <1>2
  <2> QED BY <2>1, <2>2, <2>3, <2>4, <2>5
<1>4. PICK base : base = BasePolicyThresholds(draws[q], before)
  OBVIOUS
<1>5. PICK later : later = BasePolicyThresholds(draws[q], after)
  OBVIOUS
<1>6. PICK held : held = [d \in before |-> IF d < actFrom THEN NoScore ELSE base[d]]
  OBVIOUS
<1>7. PICK free : free = [d \in after |-> IF d < n + 1 THEN NoScore ELSE later[d]]
  OBVIOUS
<1>8. ASSUME NEW d \in after PROVE base[d] = later[d]
  <2>1. d \in before
    BY <1>3
  <2>2. PICK games : games = Later(before, d)
    OBVIOUS
  <2>3. Later(after, d) = games
    <3>1. d \in Int /\ d > n
      BY <1>3, <2>1
    <3>2. \A e \in before : e \in Int /\ (e > d => e > n)
      BY <1>3, <3>1
    <3>3. \A e : e > d => (e \in before <=> e \in after)
      BY <1>3, <3>2
    <3> QED BY <2>2, <3>3 DEF Later
  <2>4. base[d] = IF games = {} THEN NoScore ELSE ContinuationValue(draws[q], games)
    BY <1>4, <2>1, <2>2 DEF BasePolicyThresholds
  <2>5. later[d] = IF games = {} THEN NoScore ELSE ContinuationValue(draws[q], games)
    BY <1>5, <2>3 DEF BasePolicyThresholds
  <2> QED BY <2>4, <2>5
<1>9. ASSUME NEW d \in before
      PROVE  IF d \in after THEN held[d] = free[d] ELSE held[d] = NoScore
  <2>1. d \in Int /\ (d < actFrom <=> d <= n) /\ (d \in after <=> d > n)
    BY <1>3
  <2> QED BY <1>6, <1>7, <1>8, <2>1
<1>10. Max(before) = Max(after)
  <2>1. PICK x : x = Max(before)
    OBVIOUS
  <2>2. PICK y : y = Max(after)
    OBVIOUS
  <2>3. x \in before /\ \A d \in before : d <= x
    BY <1>3, <2>1, DayExtremes
  <2>4. y \in after /\ \A d \in after : d <= y
    BY <1>3, <2>2, DayExtremes
  <2>5. x \in Int /\ y \in Int /\ y <= x
    BY <1>3, <2>3, <2>4
  <2>6. x \in after
    BY <1>3, <2>3, <2>4, <2>5
  <2> QED BY <2>1, <2>2, <2>4, <2>5, <2>6
<1>11. ASSUME NEW s \in Sims
       PROVE  {d \in before : Clears(draws[q][d][s], held[d])}
                = {d \in after : Clears(draws[q][d][s], free[d])}
  <2>1. ASSUME NEW d \in before, d \notin after PROVE ~ Clears(draws[q][d][s], held[d])
    BY <1>9, <2>1 DEF Clears
  <2>2. ASSUME NEW d \in after
        PROVE  d \in before /\ held[d] = free[d]
    BY <1>3, <1>9
  <2> QED BY <2>1, <2>2
<1>12. ApplyBasePolicy(draws[q], before, held) = ApplyBasePolicy(draws[q], after, free)
  BY <1>10, <1>11 DEF ApplyBasePolicy
<1>13. Contribution(q, j, actFrom) = ApplyBasePolicy(draws[q], before, held)
  BY <1>1, <1>3, <1>4, <1>6 DEF Contribution, Unprojected
<1>14. AtOnce(q, n) = ApplyBasePolicy(draws[q], after, free)
  BY <1>2, <1>3, <1>5, <1>7 DEF AtOnce, Contribution, Unprojected
<1> QED BY <1>12, <1>13, <1>14

\* An opponent idle from j to n counts the same on either morning.
LEMMA IdleOpponent ==
    ASSUME WeekOK, NEW q \in Players, NEW j \in Int, NEW n \in Int, j <= n,
           \A d \in fixtures[q] : d <= j \/ d > n,
           ~ Unprojected(q, j), ~ Unprojected(q, n)
    PROVE  /\ Seen(q, j) = Seen(q, n) /\ Ahead(q, j) = Ahead(q, n)
           /\ AtOnce(q, j) = AtOnce(q, n)
<1>1. fixtures[q] \subseteq Int
  BY FixtureFacts, DayFacts
<1>2. Seen(q, j) = Seen(q, n) /\ Ahead(q, j) = Ahead(q, n)
  BY <1>1 DEF Seen, Ahead
<1>3. CASE Ahead(q, n) = {}
  <2>1. AtOnce(q, j) = [s \in Sims |-> FinalScore(q)]
    BY <1>2, <1>3 DEF AtOnce, Contribution
  <2>2. AtOnce(q, n) = [s \in Sims |-> FinalScore(q)]
    BY <1>3 DEF AtOnce, Contribution
  <2> QED BY <1>2, <2>1, <2>2
<1>4. CASE Ahead(q, n) # {}
  <2>1. j + 1 \in Int /\ \A d \in fixtures[q] : d > j => (d < j + 1 <=> d <= n)
    BY <1>1
  <2>2. Contribution(q, j, j + 1) = AtOnce(q, n)
    BY <1>2, <1>4, <2>1, IdleNights
  <2> QED BY <1>2, <2>2 DEF AtOnce
<1> QED BY <1>3, <1>4

\* Nor can a poll tell more of his banks: what was locked since then has its
\* window open still.
LEMMA IdleTotals ==
    ASSUME WeekOK, NEW j \in Int, NEW n \in Int, j <= n,
           \A q \in Theirs : \A d \in fixtures[q] : d <= j \/ d > n,
           AllProjectable(j), AllProjectable(n), NEW polled,
           NEW held, NEW k, Placed(held, k), NEW more, NEW i, Placed(more, i),
           Grows(held, more, j)
    PROVE  OpponentTotals(j, polled, held) = OpponentTotals(n, polled, more)
<1>1. ASSUME NEW q \in Theirs
      PROVE  /\ Seen(q, j) = Seen(q, n) /\ Ahead(q, j) = Ahead(q, n)
             /\ AtOnce(q, j) = AtOnce(q, n)
  BY IdleOpponent, TeamFacts DEF AllProjectable
<1>2. ASSUME NEW q \in Theirs
      PROVE  /\ q \in KnownBank(j, held) <=> q \in KnownBank(n, more)
             /\ q \in KnownBank(j, held) => more[q] = held[q]
  <2>1. CASE q \in DOMAIN held
    <3>1. q \in DOMAIN more /\ more[q] = held[q]
      BY <2>1 DEF Grows
    <3> QED BY <1>1, <2>1, <3>1 DEF KnownBank
  <2>2. CASE q \notin DOMAIN held
    <3>1. q \notin KnownBank(j, held)
      BY <2>2 DEF KnownBank
    <3>2. ASSUME q \in DOMAIN more, NEW d \in Seen(q, n), d > more[q] PROVE FALSE
      <4>1. d <= more[q]
        BY <1>1, <2>2, <3>2 DEF Grows
      <4>2. d \in Int /\ more[q] \in Int
        BY <3>2, FixtureFacts, DayFacts, TeamFacts DEF Placed
      <4> QED BY <3>2, <4>1, <4>2
    <3>3. q \notin KnownBank(n, more)
      BY <3>2 DEF KnownBank
    <3> QED BY <3>1, <3>3
  <2> QED BY <2>1, <2>2
<1>3. ASSUME NEW q \in Theirs PROVE StandInKnown(q, j) = StandInKnown(q, n)
  BY <1>1 DEF StandInKnown
<1>4. ASSUME NEW q \in Theirs PROVE StandIn(q, j) = StandIn(q, n)
  BY <1>1 DEF StandIn, StandInLocks
<1> DEFINE each(known, locks) == [q \in Theirs |->
                IF polled
                THEN IF q \in KnownBank(known, locks) THEN [s \in Sims |-> Score(q, locks[q])]
                     ELSE StandInKnown(q, known)
                ELSE StandIn(q, known)]
<1>5. each(j, held) = each(n, more)
  <2>1. ASSUME NEW q \in Theirs PROVE each(j, held)[q] = each(n, more)[q]
    BY <1>2, <1>3, <1>4
  <2>2. /\ each(j, held) = [q \in Theirs |-> each(j, held)[q]]
        /\ each(n, more) = [q \in Theirs |-> each(n, more)[q]]
    OBVIOUS
  <2> HIDE DEF each
  <2> QED BY <2>1, <2>2
<1>6. OpponentTotals(j, polled, held)
        = [s \in Sims |-> SumOf([q \in Theirs |-> each(j, held)[q][s]])]
  BY DEF OpponentTotals
<1>7. OpponentTotals(n, polled, more)
        = [s \in Sims |-> SumOf([q \in Theirs |-> each(n, more)[q][s]])]
  BY DEF OpponentTotals
<1>8. PICK f : f = each(j, held)
  OBVIOUS
<1> HIDE DEF each
<1> QED BY <1>5, <1>6, <1>7, <1>8

LEMMA RestAgrees ==
    ASSUME NEW p, NEW locked, NEW each, NEW other,
           \A q \in Unlocked(locked) \ {p} : each[q] = other[q]
    PROVE  Rest(p, locked, each) = Rest(p, locked, other)
<1>1. ASSUME NEW s \in Sims
      PROVE  [q \in Unlocked(locked) \ {p} |-> each[q][s]]
               = [q \in Unlocked(locked) \ {p} |-> other[q][s]]
  OBVIOUS
<1> QED BY <1>1 DEF Rest

\* The rule printed for a night, and the call made the morning after it.
LEMMA RuleIsCall ==
    ASSUME WeekOK, NEW m \in Nat, NEW n \in Nat, m <= n,
           AllProjectable(m - 1), AllProjectable(n),
           NEW locked, NEW p \in Unlocked(locked), n \in fixtures[p], Ahead(p, n) # {},
           \A q \in Unlocked(locked) \ {p} :
              /\ n \notin fixtures[q]
              /\ fixtures[q] \cap m..n # {} => Ahead(q, n) # {},
           NEW opponent, NEW score
    PROVE  StandingThresholds(n, m - 1, locked, opponent)[p]
             = DecisionFor(p, score, n, locked, opponent).breakEven
<1>1. m - 1 \in Int /\ n \in Int /\ m - 1 <= n /\ n + 1 \in Int /\ (m - 1) + 1 = m
  OBVIOUS
<1>2. ASSUME NEW q \in Players PROVE fixtures[q] \subseteq Int
  BY FixtureFacts, DayFacts
<1>3. ASSUME NEW q \in Players, Ahead(q, n) # {}
      PROVE  Ahead(q, m - 1) # {} /\ ~ Unprojected(q, m - 1) /\ ~ Unprojected(q, n)
  <2>1. PICK d \in Ahead(q, n) : TRUE
    BY <1>3
  <2>2. d \in fixtures[q] /\ d \in Int /\ d > n
    BY <1>2, <2>1 DEF Ahead
  <2>3. d > m - 1
    BY <1>1, <2>2
  <2>4. Ahead(q, m - 1) # {}
    BY <2>2, <2>3 DEF Ahead
  <2> QED BY <1>3, <2>4 DEF AllProjectable
<1>4. p \in Players /\ Unlocked(locked) \subseteq Players
  BY TeamFacts DEF Unlocked
<1>5. Contribution(p, m - 1, n + 1) = AtOnce(p, n)
  <2>1. \A d \in fixtures[p] : d > m - 1 => (d < n + 1 <=> d <= n)
    BY <1>1, <1>2, <1>4
  <2> QED BY <1>1, <1>3, <1>4, <2>1, IdleNights
<1>6. ASSUME NEW q \in Unlocked(locked) \ {p}
      PROVE  Contribution(q, m - 1, n) = AtOnce(q, n)
  <2>1. q \in Players /\ n \notin fixtures[q] /\ fixtures[q] \subseteq Int
    BY <1>2, <1>4
  <2>2. CASE Ahead(q, n) # {}
    <3>1. ASSUME NEW d \in fixtures[q], d > m - 1 PROVE d < n <=> d <= n
      BY <2>1
    <3> QED BY <1>1, <1>3, <2>1, <2>2, <3>1, IdleNights
  <2>3. CASE Ahead(q, n) = {}
    <3>1. Ahead(q, m - 1) = {}
      <4> SUFFICES ASSUME NEW d \in Ahead(q, m - 1) PROVE FALSE
        OBVIOUS
      <4>1. d \in fixtures[q] /\ d > m - 1 /\ d \in Int
        BY <2>1 DEF Ahead
      <4>2. ~ (d > n)
        BY <2>3, <4>1 DEF Ahead
      <4>3. d \in m..n
        BY <1>1, <4>1, <4>2
      <4> QED BY <2>3, <4>1, <4>3
    <3> QED BY <2>3, <3>1 DEF AtOnce, Contribution
  <2> QED BY <2>2, <2>3
<1>7. PICK teammate : teammate = [q \in Unlocked(locked) |-> Contribution(q, m - 1, n)]
  OBVIOUS
<1>8. PICK each : each = [q \in Unlocked(locked) |-> AtOnce(q, n)]
  OBVIOUS
<1>9. Rest(p, locked, teammate) = Rest(p, locked, each)
  <2>1. \A q \in Unlocked(locked) \ {p} : teammate[q] = each[q]
    BY <1>6, <1>7, <1>8
  <2> QED BY <2>1, RestAgrees
<1>10. StandingThresholds(n, m - 1, locked, opponent)[p]
         = LockThreshold(Rest(p, locked, teammate), Contribution(p, m - 1, n + 1), opponent)
  BY <1>7 DEF StandingThresholds
<1>11. DecisionFor(p, score, n, locked, opponent).breakEven
         = LockThreshold(Rest(p, locked, each), each[p], opponent)
  BY <1>8 DEF DecisionFor
<1>12. each[p] = AtOnce(p, n)
  BY <1>8
<1> QED BY <1>5, <1>9, <1>10, <1>11, <1>12

LEMMA RuleFacts ==
    ASSUME NEW mode, NEW m, NEW held, ~ ColdStart(m)
    PROVE  LET live == Live(mode, m, held)
               locked == Locked(mode, m, held)
               opponent == OpponentTotals(m - 1, Polled, held)
           IN  /\ live.banked = locked
               /\ DOMAIN live.calls = Callable(m, locked)
               /\ \A p \in DOMAIN live.calls : \E score :
                     live.calls[p].breakEven
                       = DecisionFor(p, score, m - 1, locked, opponent).breakEven
<1>1. PICK locked : locked = Locked(mode, m, held)
  OBVIOUS
<1>2. PICK opponent : opponent = OpponentTotals(m - 1, Polled, held)
  OBVIOUS
<1>3. PICK said : said = Says(m, locked, opponent)
  OBVIOUS
<1>4. Live(mode, m, held) = said
  BY <1>1, <1>2, <1>3, LiveIsSaid
<1>5. said.banked = locked
  BY <1>3 DEF Says
<1>6. DOMAIN said.calls = Callable(m, locked)
  BY <1>3 DEF Says
<1>7. ASSUME NEW p \in Callable(m, locked)
      PROVE  said.calls[p].breakEven
               = DecisionFor(p, Score(p, Max(Seen(p, m - 1))), m - 1, locked, opponent).breakEven
  BY <1>3, CallFacts
<1> QED BY <1>1, <1>2, <1>4, <1>5, <1>6, <1>7

LEMMA RulesSaid ==
    ASSUME NEW mode, NEW m \in Nat, NEW held, ~ ColdStart(m),
           NEW locked, locked = Locked(mode, m, held),
           NEW opponent, opponent = OpponentTotals(m - 1, Polled, held),
           NEW live, live = Live(mode, m, held), NEW n \in DOMAIN live.rules
    PROVE  live.rules[n] = StandingThresholds(n, m - 1, locked, opponent)
<1>1. live = Says(m, locked, opponent)
  BY LiveIsSaid
<1> QED BY <1>1 DEF Says

LEMMA InvRules == IInv => StandingRuleHolds
<1> SUFFICES ASSUME IInv, NEW m \in DOMAIN printed, NEW later \in DOMAIN printed,
                    NEW mode \in Modes, NEW other \in Modes,
                    NEW p \in Mine, NEW n, n = later - 1, m < later,
                    printed[m].live[mode] # Abstained, printed[later].live[other] # Abstained,
                    printed[m].live[mode].banked = printed[later].live[other].banked,
                    n \in DOMAIN printed[m].live[mode].rules,
                    p \in DOMAIN printed[m].live[mode].rules[n],
                    p \in DOMAIN printed[later].live[other].calls,
                    Undisturbed(p, printed[m].live[mode].banked, m, n)
             PROVE  printed[m].live[mode].rules[n][p]
                      = printed[later].live[other].calls[p].breakEven
  BY DEF StandingRuleHolds
<1>1. PICK held : held = printed[m].held
  OBVIOUS
<1>2. PICK more : more = printed[later].held
  OBVIOUS
<1>3. PICK was : was = printed[m].live[mode]
  OBVIOUS
<1>4. PICK now : now = printed[later].live[other]
  OBVIOUS
<1>5. /\ WeekOK /\ m \in Nat /\ later \in Nat /\ ~ ColdStart(m) /\ ~ ColdStart(later)
      /\ Placed(held, m - 1) /\ Placed(more, later - 1)
      /\ was = Live(mode, m, held) /\ now = Live(other, later, more)
  BY <1>1, <1>2, <1>3, <1>4, PrintedFacts DEF PrintedOK
<1>6. n \in Nat /\ n + 1 = later /\ m <= n /\ m - 1 \in Int /\ n \in Int /\ m - 1 <= n
  BY <1>5
<1>7. AllProjectable(m - 1) /\ AllProjectable(n)
  BY <1>5, ColdStartFacts
<1>8. PICK locked : locked = was.banked
  OBVIOUS
<1>9. /\ locked = Locked(mode, m, held) /\ locked = Locked(other, later, more)
      /\ Placed(locked, m - 1)
  BY <1>3, <1>4, <1>5, <1>8, RuleFacts, LockedFacts
<1>10. PICK opponent : opponent = OpponentTotals(m - 1, Polled, held)
  OBVIOUS
<1>11. OpponentTotals(n, Polled, more) = opponent
  <2>1. PICK j \in Int : j = m - 1
    BY <1>6
  <2>2. ASSUME NEW q \in Theirs, NEW d \in fixtures[q] PROVE d <= j \/ d > n
    <3>1. d \in Int
      BY <1>5, FixtureFacts, DayFacts, TeamFacts
    <3>2. d \notin m..n
      BY DEF Undisturbed
    <3> QED BY <1>5, <1>6, <2>1, <3>1, <3>2
  <2>3. Grows(held, more, j)
    BY <1>1, <1>2, <2>1 DEF IInv, BankGrows
  <2>4. AllProjectable(j) /\ j <= n /\ Placed(held, j)
    BY <1>5, <1>6, <1>7, <2>1
  <2>5. OpponentTotals(j, Polled, held) = OpponentTotals(n, Polled, more)
    BY <1>5, <1>6, <1>7, <2>2, <2>3, <2>4, IdleTotals
  <2> QED BY <1>10, <2>1, <2>5
<1>12. PICK score : now.calls[p].breakEven
                      = DecisionFor(p, score, n, locked, opponent).breakEven
  BY <1>4, <1>5, <1>9, <1>11, RuleFacts
<1>13. was.rules[n] = StandingThresholds(n, m - 1, locked, opponent)
  <2>1. n \in DOMAIN was.rules
    BY <1>3
  <2>2. m \in Nat /\ ~ ColdStart(m) /\ was = Live(mode, m, held)
        /\ locked = Locked(mode, m, held) /\ opponent = OpponentTotals(m - 1, Polled, held)
    BY <1>5, <1>9, <1>10
  <2> QED BY ONLY <2>1, <2>2, RulesSaid
<1>14. p \in Unlocked(locked) /\ n \in fixtures[p] /\ Ahead(p, n) # {}
  BY <1>3, <1>13 DEF StandingThresholds
<1>15. \A q \in Unlocked(locked) \ {p} :
          /\ n \notin fixtures[q]
          /\ fixtures[q] \cap m..n # {} => Ahead(q, n) # {}
  BY <1>3, <1>8 DEF Undisturbed, Unlocked
<1>16. was.rules[n][p] = now.calls[p].breakEven
  BY <1>5, <1>6, <1>7, <1>12, <1>13, <1>14, <1>15, RuleIsCall
<1> QED BY <1>3, <1>4, <1>16

\* A standing rule asks of a later night's game what that morning's own call
\* asks, after any run of nights the rule is printed to cover, whichever way
\* the two digests had the same locks and whatever was locked, on either side,
\* that neither could tell. (rollout.py standing_thresholds; the locks of
\* digest.py build.)
THEOREM RulesHold == Spec => []StandingRuleHolds
BY Invariance, InvRules, PTL

-----------------------------------------------------------------------------
\* The backward induction: every value of it is a score, or more.

LEMMA MeanIsNat ==
    ASSUME NEW sample \in [Sims -> Nat]
    PROVE  Mean(sample) \in Nat
<1>1. IsFiniteSet(DOMAIN sample) /\ \A s \in Sims : sample[s] \in Nat
  BY SimsAssumption
<1>2. PICK zero : zero = [s \in Sims |-> 0]
  OBVIOUS
<1>3. PICK sum : sum = SumOf(sample)
  OBVIOUS
<1>4. sum \in Int
  BY <1>1, <1>3, SumIsInt
<1>5. SumOf(zero) <= sum
  BY <1>1, <1>2, <1>3, SumIsMonotone
<1>6. SumOf(zero) \in Int /\ SumOf(zero) >= 0
  <2>1. PICK h : /\ SumOf(zero) = h[Sims]
                 /\ \A s \in SUBSET Sims :
                       h[s] = IF s = {} THEN 0 ELSE zero[OneOf(s)] + h[s \ {OneOf(s)}]
    <3>1. DOMAIN zero = Sims /\ IsFiniteSet(DOMAIN zero)
      BY <1>2, SimsAssumption
    <3>2. \E h : /\ SumOf(zero) = h[DOMAIN zero]
                 /\ \A s \in SUBSET DOMAIN zero :
                       h[s] = IF s = {} THEN 0 ELSE zero[OneOf(s)] + h[s \ {OneOf(s)}]
      BY ONLY <3>1, SumSteps
    <3> QED BY <3>1, <3>2
  <2> DEFINE Bad == {s \in SUBSET Sims : h[s] # 0}
  <2>2. ASSUME Bad # {} PROVE FALSE
    <3>1. PICK s \in Bad : \A x \in s : s \ {x} \notin Bad
      BY <2>2, SimsAssumption, SmallestSet
    <3>2. s # {} /\ s \in SUBSET Sims
      BY <2>1, <3>1
    <3>3. OneOf(s) \in s
      BY <3>2 DEF OneOf
    <3>4. h[s \ {OneOf(s)}] = 0 /\ zero[OneOf(s)] = 0
      BY <1>2, <3>1, <3>2, <3>3
    <3>5. h[s] = zero[OneOf(s)] + h[s \ {OneOf(s)}]
      BY <2>1, <3>2
    <3> QED BY <3>1, <3>4, <3>5
  <2>3. h[Sims] = 0
    BY <2>2
  <2> QED BY <2>1, <2>3
<1>7. PICK n : n = Cardinality(Sims)
  OBVIOUS
<1>8. n \in Nat \ {0}
  BY <1>7, SimsAssumption, FS_CardinalityType, FS_EmptySet
<1>9. sum \in Nat
  BY <1>4, <1>5, <1>6
<1>10. sum \div n \in Nat
  BY <1>8, <1>9
<1> QED BY <1>3, <1>7, <1>10 DEF Mean

LEMMA LaterFacts ==
    ASSUME NEW days \in SUBSET Days, NEW d \in days, Later(days, d) # {}
    PROVE  Min(Later(days, d)) \in days /\ Min(Later(days, d)) > d
<1>1. Later(days, d) \in SUBSET Days
  BY DEF Later
<1>2. Min(Later(days, d)) \in Later(days, d)
  BY <1>1, DayExtremes
<1> QED BY <1>2 DEF Later

LEMMA ContinuationIsNat ==
    ASSUME NEW table \in [Days -> [Sims -> Nat]], NEW days \in SUBSET Days, days # {}
    PROVE  ContinuationValue(table, days) \in Nat
<1> DEFINE Next1(d) == Min(Later(days, d))
           Worth(d, riding) ==
             Mean([s \in Sims |-> IF table[d][s] > riding THEN table[d][s] ELSE riding])
           Body(f, d) == IF Later(days, d) = {} THEN Mean(table[d])
                         ELSE Worth(d, f[Next1(d)])
           Top(k) == {d \in days : d > LastDay - k}
           Bad == {k \in Nat : ~ \E f : \A d \in Top(k) : f[d] = Body(f, d)}
<1>1. days \subseteq Int /\ LastDay \in Nat /\ \A d \in days : d > 0 /\ d <= LastDay
  BY DayFacts DEF Days
<1>2. \A d \in days : Later(days, d) # {} => Next1(d) \in days /\ Next1(d) > d
  BY LaterFacts
<1>3. ASSUME Bad # {} PROVE FALSE
  <2>1. PICK k \in Bad : \A m \in Bad : k <= m
    BY <1>3, LeastNat
  <2>2. Top(0) = {}
    <3>1. LastDay - 0 = LastDay /\ \A d \in days : ~ (d > LastDay)
      BY <1>1
    <3> QED BY <3>1
  <2>3. k # 0
    BY <2>1, <2>2
  <2>4. k \in Nat /\ k - 1 \in Nat /\ k - 1 \notin Bad
    <3>1. k \in Nat /\ k - 1 \in Nat /\ ~ (k <= k - 1)
      BY <2>1, <2>3
    <3> QED BY <2>1, <3>1
  <2>5. PICK f : \A d \in Top(k - 1) : f[d] = Body(f, d)
    BY <2>4
  <2> DEFINE longer == [d \in Top(k) |-> Body(f, d)]
  <2>6. \A d \in Top(k - 1) : d \in Top(k)
    BY <1>1, <2>4
  <2>7. \A d \in Top(k) : Later(days, d) # {} => Next1(d) \in Top(k - 1)
    <3> TAKE d \in Top(k)
    <3> HAVE Later(days, d) # {}
    <3>1. PICK e \in days : e = Next1(d) /\ e > d
      BY <1>2
    <3>2. d \in Int /\ e \in Int /\ d > LastDay - k
      BY <1>1
    <3>3. e > LastDay - (k - 1)
      BY <1>1, <2>4, <3>1, <3>2
    <3> QED BY <3>1, <3>3
  <2>8. \A d \in Top(k) : longer[d] = Body(f, d)
    OBVIOUS
  <2> HIDE DEF longer, Top, Worth, Next1
  <2>9. \A d \in Top(k) : Later(days, d) # {} => longer[Next1(d)] = f[Next1(d)]
    BY <2>5, <2>6, <2>7, <2>8
  <2>10. \A d \in Top(k) : longer[d] = Body(longer, d)
    BY <2>8, <2>9
  <2>11. k \notin Bad
    BY <2>10
  <2> QED BY <2>1, <2>11
<1>4. PICK f : \A d \in days : f[d] = Body(f, d)
  <2>1. Top(LastDay) = days
    <3>1. LastDay - LastDay = 0 /\ \A d \in days : d > 0
      BY <1>1
    <3> QED BY <3>1
  <2>2. \E f : \A d \in Top(LastDay) : f[d] = Body(f, d)
    <3>1. LastDay \notin Bad /\ LastDay \in Nat
      BY <1>1, <1>3
    <3> HIDE DEF Body, Top
    <3> QED BY <3>1
  <2> QED BY <2>1, <2>2
<1> DEFINE IsValue(v) ==
        v = [d \in days |->
               IF Later(days, d) = {} THEN Mean(table[d])
               ELSE Mean([s \in Sims |-> IF table[d][s] > v[Min(Later(days, d))]
                                         THEN table[d][s] ELSE v[Min(Later(days, d))]])]
<1>5. \E v : IsValue(v)
  <2> DEFINE v == [d \in days |-> f[d]]
  <2>1. \A d \in days : v[d] = f[d] /\ (Later(days, d) # {} => v[Next1(d)] = f[Next1(d)])
    BY <1>2
  <2> HIDE DEF v, Worth, Next1
  <2>2. \A d \in days : v[d] = Body(v, d)
    BY <1>4, <2>1
  <2>3. v = [d \in days |-> v[d]]
    BY DEF v
  <2>4. v = [d \in days |-> Body(v, d)]
    BY <2>2, <2>3
  <2>5. IsValue(v)
    BY <2>4 DEF Worth, Next1
  <2> QED BY <2>5
<1>6. ContinuationValue(table, days) = (CHOOSE v : IsValue(v))[Min(days)]
  BY DEF ContinuationValue
<1>7. PICK v : IsValue(v) /\ ContinuationValue(table, days) = v[Min(days)]
  BY <1>5, <1>6
<1>8. \A d \in days : v[d] = Body(v, d)
  BY <1>7
<1> HIDE DEF IsValue, Bad, Top, Next1
<1> DEFINE Odd == {d \in days : v[d] \notin Nat}
<1>9. ASSUME Odd # {} PROVE FALSE
  <2>1. Odd \in SUBSET Days
    OBVIOUS
  <2>2. PICK d \in Odd : \A e \in Odd : e <= d
    BY <1>9, <2>1, DayExtremes
  <2>3. d \in days /\ v[d] \notin Nat /\ d \in Days /\ d \in Int
    BY <1>1, <2>2
  <2>4. table[d] \in [Sims -> Nat]
    BY <2>3
  <2>5. CASE Later(days, d) = {}
    BY <1>8, <2>3, <2>4, <2>5, MeanIsNat
  <2>6. CASE Later(days, d) # {}
    <3>1. PICK e \in days : e = Next1(d) /\ e > d
      BY <1>2, <2>3, <2>6
    <3>2. e \in Int /\ ~ (e <= d)
      BY <1>1, <2>3, <3>1
    <3>3. PICK riding \in Nat : riding = v[e]
      BY <2>2, <3>2
    <3>4. PICK passed : passed = [s \in Sims |-> IF table[d][s] > riding THEN table[d][s] ELSE riding]
      OBVIOUS
    <3>5. passed \in [Sims -> Nat]
      BY <2>4, <3>4
    <3>6. v[d] = Mean(passed)
      BY <1>8, <2>3, <2>6, <3>1, <3>3, <3>4
    <3> QED BY <2>3, <3>5, <3>6, MeanIsNat
  <2> QED BY <2>5, <2>6
<1>10. Min(days) \in days
  BY DayExtremes
<1> QED BY <1>7, <1>9, <1>10

LEMMA BaseThresholds ==
    ASSUME NEW table \in [Days -> [Sims -> Nat]], NEW days \in SUBSET Days, NEW d \in days
    PROVE  BasePolicyThresholds(table, days)[d] = NoScore
           \/ BasePolicyThresholds(table, days)[d] \in Nat
<1>1. PICK after : after = Later(days, d)
  OBVIOUS
<1>2. after \in SUBSET Days
  BY <1>1 DEF Later
<1>3. BasePolicyThresholds(table, days)[d]
        = IF after = {} THEN NoScore ELSE ContinuationValue(table, after)
  BY <1>1 DEF BasePolicyThresholds
<1> QED BY <1>2, <1>3, ContinuationIsNat

\* A game of no score is missed by a replay and passed by the base policy: no
\* threshold of its own lets a zero clear.
LEMMA BaseWalksAsReplay ==
    ASSUME NEW table \in [Days -> [Sims -> Nat]], NEW left \in SUBSET Days, left # {},
           NEW s \in Sims, NEW base, base = BasePolicyThresholds(table, left)
    PROVE  LET path == [d \in Days |-> table[d][s]]
           IN  ApplyBasePolicy(table, left, base)[s]
                 = Replay(path, [d \in Days |-> path[d] # 0], left, base)
<1>1. PICK path : path = [d \in Days |-> table[d][s]]
  OBVIOUS
<1>2. PICK played : played = [d \in Days |-> path[d] # 0]
  OBVIOUS
<1>3. PICK fires : fires = {d \in left : Clears(path[d], base[d])}
  OBVIOUS
<1>4. \A d \in left : path[d] = table[d][s] /\ path[d] \in Nat /\ (played[d] <=> path[d] # 0)
  BY <1>1, <1>2
<1>5. fires = {d \in left : Clears(table[d][s], base[d])}
  BY <1>3, <1>4
<1>6. ASSUME NEW d \in left, path[d] = 0 PROVE ~ Clears(path[d], base[d])
  <2>1. base[d] = NoScore \/ base[d] \in Nat
    BY BaseThresholds
  <2>2. CASE base[d] = NoScore
    BY <2>2 DEF Clears
  <2>3. CASE base[d] \in Nat
    <3>1. base[d] # AnyScore /\ ~ (0 > base[d])
      BY <2>3, ThresholdsAssumption
    <3> QED BY <1>6, <3>1 DEF Clears
  <2> QED BY <2>1, <2>2, <2>3
<1>7. ReplayLocks(path, played, left, base) = fires
  <2>1. left \cap DOMAIN base = left
    BY DEF BasePolicyThresholds
  <2>2. \A d \in left : (played[d] /\ Clears(path[d], base[d])) <=> Clears(path[d], base[d])
    BY <1>4, <1>6
  <2> QED BY <1>3, <2>1, <2>2 DEF ReplayLocks
<1>8. ApplyBasePolicy(table, left, base)[s]
        = table[IF fires = {} THEN Max(left) ELSE Min(fires)][s]
  BY <1>5 DEF ApplyBasePolicy
<1>9. CASE fires = {}
  <2>1. PICK last \in left : last = Max(left)
    BY DayExtremes
  <2>2. Replay(path, played, left, base) = IF played[last] THEN path[last] ELSE 0
    BY <1>7, <1>9, <2>1 DEF Replay, Ride
  <2>3. Replay(path, played, left, base) = table[last][s]
    BY <1>4, <2>1, <2>2
  <2> QED BY <1>1, <1>2, <1>8, <1>9, <2>1, <2>3
<1>10. CASE fires # {}
  <2>1. PICK first \in left : first = Min(fires)
    <3>1. fires \in SUBSET Days /\ fires \subseteq left
      BY <1>3
    <3> QED BY <1>10, <3>1, DayExtremes
  <2>2. Replay(path, played, left, base) = path[first]
    BY <1>7, <1>10, <2>1 DEF Replay
  <2> QED BY <1>1, <1>2, <1>4, <1>8, <1>10, <2>1, <2>2
<1> QED BY <1>9, <1>10

LEMMA InvBase == IInv => BaseIsReplay
<1> SUFFICES ASSUME IInv, NEW p \in Players, NEW known \in 0..(LastDay - 1), NEW s \in Sims,
                    Ahead(p, known) # {}
             PROVE  LET base == BasePolicyThresholds(draws[p], Ahead(p, known))
                        path == [d \in Days |-> draws[p][d][s]]
                    IN  ApplyBasePolicy(draws[p], Ahead(p, known), base)[s]
                          = Replay(path, [d \in Days |-> path[d] # 0], Ahead(p, known), base)
  BY DEF BaseIsReplay
<1>1. WeekOK
  BY DEF IInv
<1>2. PICK table : table = draws[p]
  OBVIOUS
<1>3. PICK left : left = Ahead(p, known)
  OBVIOUS
<1>4. table \in [Days -> [Sims -> Nat]]
  BY <1>1, <1>2, RolloutAssumption DEF WeekOK
<1>5. left \in SUBSET Days /\ left # {}
  BY <1>1, <1>3, FixtureFacts
<1> QED BY <1>2, <1>3, <1>4, <1>5, BaseWalksAsReplay

\* The base policy locks, on every simulated week, the game that a replay of
\* that week as a real one would lock. (winprob.py apply_base_policy, policy.py
\* replay.)
THEOREM BaseWalks == Spec => []BaseIsReplay
BY Invariance, InvBase, PTL
==============================================================================
