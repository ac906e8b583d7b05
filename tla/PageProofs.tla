------------------------------ MODULE PageProofs ------------------------------
(***************************************************************************)
(* Proofs about module Page, for any roster, any schedule of tips, any       *)
(* period, limit and horizon, and any number of digests: what a page may say *)
(* of the digests it is built from, whichever runs of the guard fail, hang,  *)
(* overlap or are killed, and whatever is written while a page is gathered or *)
(* a push is on its way.                                                   *)
(* The guard's own gap report comes with it, since a page's guard is         *)
(* CronGuard's.                                                            *)
(***************************************************************************)
EXTENDS Page, WellFoundedInduction, TLAPS

RowType == [madeAt : Times, asOf : Days, live : BOOLEAN, retro : BOOLEAN,
            supplied : BOOLEAN, calls : SUBSET CallType, printed : SUBSET MarkType]

\* A run past its command has this very moment's NOW; one that has compared a
\* stamp too old has tried to say so; and none runs before it is due.
RunOK(t) ==
    /\ pc[t] # "idle" => t <= clock
    /\ pc[t] \in {"compare", "stamp"} => now[t] = clock
    /\ pc[t] = "stamp" /\ stamp # NoStamp /\ clock - stamp > MaxGap => clock \in tried

GuardInv == Guard!TypeOK /\ \A t \in Firing : RunOK(t)

\* A call of a digest for `asOf` written at `at`, of one whose games tip at `his`:
\* the latest of them by then, while his next one was ahead.
TippedBy(his, asOf, at) == {t \in his : Day(t) < asOf /\ t <= at}
IsAhead(his, asOf)      == {t \in his : asOf <= Day(t)}

CallOK(c, his, asOf, at) ==
    /\ c.game \in TippedBy(his, asOf, at) /\ \A u \in TippedBy(his, asOf, at) : u <= c.game
    /\ c.closes \in IsAhead(his, asOf) /\ \A u \in IsAhead(his, asOf) : c.closes <= u

Before(i) == {rows[j] : j \in 1..(i - 1)}

PrintedFrom(r, before, cut) ==
    r.printed = Marked(r.calls, r.asOf, r.supplied, {b \in before : b.madeAt < cut})

\* A live run is dated by its start and keeps what was open then.
LiveOK(r, before, start) ==
    /\ start <= r.madeAt
    /\ r.asOf = Day(start)
    /\ \A c \in r.calls : start < c.closes
    /\ PrintedFrom(r, before, start)

\* A row written by `time`, under the schedule `of`.
RowOK(r, before, time, of) ==
    /\ r.madeAt <= time
    /\ \A c \in r.calls : CallOK(c, of[c.p], r.asOf, r.madeAt)
    /\ r.live => ~r.retro /\ \E start \in Times : LiveOK(r, before, start)
    /\ ~r.live /\ r.calls # {} => r.retro
    /\ ~r.live => PrintedFrom(r, before, Morning(r.asOf))

RowsInv ==
    /\ rows \in Seq(RowType)
    /\ Len(rows) <= MaxRows
    /\ \A i \in 1..Len(rows) : RowOK(rows[i], Before(i), clock, tips)

PageType == [step : {"closed", "opened", "shown"}, row : Nat,
             marks : SUBSET MarkType, calls : SUBSET CallType]

\* The page being read is of a run that is there.
PageInv ==
    /\ page \in PageType
    /\ page.step = "closed" => page = NoPage
    /\ page.step # "closed" => page.row \in 1..Len(rows)
    /\ page.step = "opened" => page.calls = {} /\ page.marks = {}
    /\ page.step = "shown" => page.calls = Header.calls /\ page.marks = Marks

TipsInv == tips \in [Players -> SUBSET Evenings]

\* A digest that is committed stays, for as long as its command runs and after.
JobOK(t) == job[t] # NoJob =>
    /\ pc[t] = "command"
    /\ \E i \in DOMAIN rows : /\ rows[i].live /\ rows[i].asOf = Day(t)
                             /\ rows[i].madeAt <= clock
                             /\ Report(rows[i]) = job[t].says

JobInv ==
    /\ job \in [Firing -> JobType]
    /\ phone \in SUBSET Reports
    /\ \A t \in Firing : JobOK(t)

IInv == GuardInv /\ TipsInv /\ RowsInv /\ JobInv /\ PageInv /\ PushedIsWritten

-----------------------------------------------------------------------------
\* Days and half-days.

LEMMA TimesAreNat ==
    /\ Times \subseteq Nat /\ Firing \subseteq Times /\ Evenings \subseteq Nat
    /\ \A t \in Evenings : t <= Horizon + 1
    /\ \A t \in Times : t <= Horizon
BY HorizonAssumption DEF Times, Firing, Evenings

\* The guard's crontab is the page's, and its clock is in half-days.
LEMMA GuardsCrontab == Guard!Times = Times /\ Guard!Firing = Firing
BY DEF Guard!Times, Guard!Firing, Times, Firing

LEMMA ClockType == GuardInv => clock \in Times /\ clock \in Nat
BY GuardsCrontab, TimesAreNat DEF GuardInv, Guard!TypeOK

LEMMA DayOf ==
    ASSUME NEW t \in Nat
    PROVE  Day(t) \in Nat /\ Morning(Day(t)) <= t /\ t <= Morning(Day(t)) + 1
BY DEF Day, Morning

LEMMA DaysFollow ==
    ASSUME NEW t \in Nat, NEW u \in Nat
    PROVE  /\ t <= u => Day(t) <= Day(u)
           /\ Day(t) < Day(u) => t < Morning(Day(u)) /\ t < u
BY DEF Day, Morning

LEMMA DayOfTimes == \A t \in Times : Day(t) \in Days
BY TimesAreNat, HorizonAssumption, DaysFollow, DayOf DEF Days

LEMMA DaysAreNat == Days \subseteq Nat /\ NoDay \notin Days
BY HorizonAssumption, DayOf DEF Days, NoDay

-----------------------------------------------------------------------------
\* Every nonempty set of naturals has a least element, and a bounded one a
\* greatest.

LEMMA LeastNat ==
    ASSUME NEW S \in SUBSET Nat, S # {}
    PROVE  \E m \in S : \A n \in S : m <= n
<1>1. IsWellFoundedOn(OpToRel(<, Nat), Nat)
  BY NatLessThanWellFounded
<1>2. PICK m \in S : \A n \in S : ~(<<n, m>> \in OpToRel(<, Nat))
  BY <1>1, WFMin
<1>3. ASSUME NEW n \in S PROVE m <= n
  <2>1. n < m => <<n, m>> \in OpToRel(<, Nat)
    BY DEF OpToRel
  <2>2. ~(n < m)
    BY <1>2, <2>1
  <2> QED BY <2>2
<1> QED BY <1>3

LEMMA LatestIsLast ==
    ASSUME NEW S \in SUBSET Evenings, S # {}
    PROVE  Latest(S) \in S /\ \A u \in S : u <= Latest(S)
<1> DEFINE T == {Horizon + 1 - t : t \in S}
<1>1. T \in SUBSET Nat /\ T # {}
  <2>1. ASSUME NEW t \in S PROVE Horizon + 1 - t \in Nat
    BY TimesAreNat, HorizonAssumption
  <2> QED BY <2>1
<1> HIDE DEF T
<1>2. PICK m \in T : \A n \in T : m <= n
  BY <1>1, LeastNat
<1>3. PICK t \in S : m = Horizon + 1 - t
  BY <1>2 DEF T
<1>4. ASSUME NEW u \in S PROVE u <= t
  <2>1. Horizon + 1 - u \in T
    BY DEF T
  <2> QED BY <1>2, <1>3, <2>1, TimesAreNat, HorizonAssumption
<1> QED BY <1>4 DEF Latest

LEMMA NextTipIsFirst ==
    ASSUME TipsInv, NEW p \in Players, NEW asOf, Ahead(p, asOf) # {}
    PROVE  NextTip(p, asOf) \in Ahead(p, asOf) /\ \A u \in Ahead(p, asOf) : NextTip(p, asOf) <= u
<1>1. Ahead(p, asOf) \in SUBSET Nat
  BY TimesAreNat DEF Ahead, TipsInv
<1>2. \E m \in Ahead(p, asOf) : \A n \in Ahead(p, asOf) : m <= n
  BY <1>1, LeastNat
<1> QED BY <1>2 DEF NextTip

-----------------------------------------------------------------------------
\* What an earlier run said of a call: which row it is, and the first morning.

LEMMA FirstSaidOfSame ==
    ASSUME NEW c, NEW d, c.p = d.p, c.game = d.game, NEW asOf, NEW seen
    PROVE  FirstSaid(c, asOf, seen) = FirstSaid(d, asOf, seen)
<1>1. Saying(c, asOf, seen) = Saying(d, asOf, seen)
  BY DEF Saying
<1> QED BY <1>1 DEF FirstSaid

LEMMA FirstSaidOfRows ==
    ASSUME NEW c, NEW asOf, NEW seen, NEW others,
           Saying(c, asOf, seen) = Saying(c, asOf, others)
    PROVE  FirstSaid(c, asOf, seen) = FirstSaid(c, asOf, others)
BY DEF FirstSaid

LEMMA FirstSaidIs ==
    ASSUME NEW c, NEW asOf, NEW seen \in SUBSET RowType
    PROVE  /\ FirstSaid(c, asOf, seen) \in Days \cup {NoDay}
           /\ FirstSaid(c, asOf, seen) = NoDay <=> Saying(c, asOf, seen) = {}
           /\ Saying(c, asOf, seen) # {} =>
                \E r \in Saying(c, asOf, seen) : FirstSaid(c, asOf, seen) = r.asOf
           /\ \A r \in Saying(c, asOf, seen) : FirstSaid(c, asOf, seen) <= r.asOf
<1> DEFINE R == Saying(c, asOf, seen)
           said == {r.asOf : r \in R}
<1>1. said \in SUBSET Days
  BY DEF Saying, RowType
<1>2. FirstSaid(c, asOf, seen) =
        IF said = {} THEN NoDay ELSE CHOOSE d \in said : \A e \in said : d <= e
  BY DEF FirstSaid
<1>3. said = {} <=> R = {}
  OBVIOUS
<1>4. said # {} => \E d \in said : \A e \in said : d <= e
  BY <1>1, LeastNat, DaysAreNat
<1>5. \A r \in R : r.asOf \in said
  OBVIOUS
<1>6. \A d \in said : \E r \in R : d = r.asOf
  OBVIOUS
<1> HIDE DEF said
<1>7. CASE said = {}
  BY <1>7, <1>2, <1>3, <1>5
<1>8. CASE said # {}
  <2>1. /\ FirstSaid(c, asOf, seen) \in said
        /\ \A e \in said : FirstSaid(c, asOf, seen) <= e
    BY <1>2, <1>4, <1>8
  <2> QED BY <1>1, <1>3, <1>5, <1>6, <1>8, <2>1, DaysAreNat
<1> QED BY <1>7, <1>8

LEMMA MarkedType ==
    ASSUME NEW calls \in SUBSET CallType, NEW asOf, NEW supplied \in BOOLEAN,
           NEW seen \in SUBSET RowType
    PROVE  Marked(calls, asOf, supplied, seen) \in SUBSET MarkType
<1>1. \A c \in calls : FirstSaid(c, asOf, seen) \in Days \cup {NoDay}
  BY FirstSaidIs
<1> QED BY <1>1 DEF Marked, MarkType

-----------------------------------------------------------------------------
\* A digest's calls are of players who have played and have a game ahead.

LEMMA CallsAreOK ==
    ASSUME IInv, NEW asOf \in Days, NEW called \in SUBSET Players, NEW locks,
           NEW c \in ReplayCalls(asOf, called, locks)
    PROVE  c \in CallType /\ CallOK(c, tips[c.p], asOf, clock)
<1>1. PICK p \in called \cap Callable(asOf) : c = CallOn(p, asOf, locks)
  BY DEF ReplayCalls
<1>2. p \in Players /\ Played(p, asOf) # {} /\ Ahead(p, asOf) # {}
  BY <1>1 DEF Callable
<1>3. tips[p] \in SUBSET Evenings
  BY <1>2 DEF IInv, TipsInv
<1>4. Played(p, asOf) = TippedBy(tips[p], asOf, clock)
  BY DEF Played, TippedBy
<1>5. Ahead(p, asOf) = IsAhead(tips[p], asOf)
  <2>1. \A t \in tips[p] : Day(t) >= asOf <=> asOf <= Day(t)
    BY <1>3, TimesAreNat, DayOf, DaysAreNat
  <2> QED BY <2>1 DEF Ahead, IsAhead
<1>6. /\ Latest(Played(p, asOf)) \in Played(p, asOf)
      /\ \A u \in Played(p, asOf) : u <= Latest(Played(p, asOf))
  <2>1. Played(p, asOf) \in SUBSET Evenings
    BY <1>3 DEF Played
  <2> QED BY <1>2, <2>1, LatestIsLast
<1>7. /\ NextTip(p, asOf) \in Ahead(p, asOf)
      /\ \A u \in Ahead(p, asOf) : NextTip(p, asOf) <= u
  BY <1>2, NextTipIsFirst DEF IInv
<1>8. c.p = p /\ c.game = Latest(Played(p, asOf)) /\ c.closes = NextTip(p, asOf)
  BY <1>1 DEF CallOn
<1>9. c \in CallType
  <2>1. Latest(Played(p, asOf)) \in Evenings /\ NextTip(p, asOf) \in Evenings
    BY <1>3, <1>6, <1>7 DEF Played, Ahead
  <2> QED BY <1>1, <1>2, <2>1 DEF CallOn, CallType
<1> QED BY <1>4, <1>5, <1>6, <1>7, <1>8, <1>9 DEF CallOK

LEMMA BeforeType ==
    ASSUME RowsInv, NEW i \in 1..(Len(rows) + 1)
    PROVE  Before(i) \in SUBSET RowType
BY DEF RowsInv, Before

\* The rows there are when one is inserted are those before it.
LEMMA AllBefore ==
    ASSUME RowsInv, NEW t
    PROVE  MadeBefore(t) = {b \in Before(Len(rows) + 1) : b.madeAt < t}
<1>1. DOMAIN rows = 1..Len(rows) /\ Len(rows) \in Nat
  BY DEF RowsInv
<1>2. 1..((Len(rows) + 1) - 1) = 1..Len(rows)
  BY <1>1
<1> QED BY <1>1, <1>2 DEF MadeBefore, Before

-----------------------------------------------------------------------------
\* Rows stay as they are, and what is inserted is a row of its own.

LEMMA RowsStay ==
    ASSUME IInv, rows' = rows, tips' = tips, clock' \in Nat, clock <= clock'
    PROVE  RowsInv'
<1>1. clock \in Nat
  BY ClockType DEF IInv
<1>2. ASSUME NEW i \in 1..Len(rows) PROVE RowOK(rows[i], Before(i), clock', tips')
  <2>1. RowOK(rows[i], Before(i), clock, tips) /\ rows[i].madeAt \in Nat
    <3>1. rows[i] \in RowType
      BY <1>2 DEF IInv, RowsInv
    <3> QED BY <1>2, <3>1, TimesAreNat DEF IInv, RowsInv, RowType
  <2> QED BY <1>1, <2>1 DEF RowOK
<1>3. \A i \in 1..Len(rows) : Before(i)' = Before(i)
  BY DEF Before
<1> QED BY <1>2, <1>3 DEF IInv, RowsInv

LEMMA RowsGrow ==
    ASSUME IInv, NEW row \in RowType, RowOK(row, Before(Len(rows) + 1), clock, tips),
           Insert(row), UNCHANGED <<clock, tips>>
    PROVE  /\ RowsInv'
           /\ Len(rows') = Len(rows) + 1 /\ rows'[Len(rows')] = row
           /\ \A i \in 1..Len(rows) : rows'[i] = rows[i]
<1>1. rows \in Seq(RowType) /\ Len(rows) \in Nat
  BY DEF IInv, RowsInv
<1>2. /\ rows' \in Seq(RowType) /\ Len(rows') = Len(rows) + 1
      /\ \A i \in 1..Len(rows) : rows'[i] = rows[i]
      /\ rows'[Len(rows) + 1] = row
  BY <1>1 DEF Insert
<1>3. \A i \in 1..(Len(rows) + 1) : Before(i)' = Before(i)
  BY <1>1, <1>2 DEF Before
<1>4. ASSUME NEW i \in 1..Len(rows') PROVE RowOK(rows'[i], Before(i), clock, tips)
  <2>1. CASE i \in 1..Len(rows)
    BY <1>2, <2>1 DEF IInv, RowsInv
  <2>2. CASE i = Len(rows) + 1
    BY <1>2, <2>2
  <2> QED BY <1>1, <1>2, <2>1, <2>2
<1>5. Len(rows') <= MaxRows
  BY <1>1, <1>2, MaxRowsAssumption DEF Insert
<1>6. \A i \in 1..Len(rows') : RowOK(rows'[i], Before(i)', clock', tips')
  BY <1>2, <1>3, <1>4
<1> QED BY <1>2, <1>5, <1>6 DEF RowsInv

LEMMA LiveIsOK ==
    ASSUME IInv, NEW start \in Times, start <= clock, NEW supplied \in BOOLEAN,
           NEW called \in SUBSET Players, NEW locks,
           Insert(LiveRow(start, supplied, called, locks)), UNCHANGED <<clock, tips>>
    PROVE  /\ RowsInv'
           /\ Len(rows') = Len(rows) + 1
           /\ \A i \in 1..Len(rows) : rows'[i] = rows[i]
           /\ rows'[Len(rows')] = LiveRow(start, supplied, called, locks)
           /\ LiveRow(start, supplied, called, locks) \in RowType
           /\ rows'[Len(rows')].live
           /\ rows'[Len(rows')].asOf = Day(start)
           /\ rows'[Len(rows')].madeAt = clock
<1> DEFINE asOf   == Day(start)
           calls  == LiveCalls(asOf, start, called, locks)
           before == Before(Len(rows) + 1)
           marks  == Marked(calls, asOf, supplied, MadeBefore(start))
           row    == Row(asOf, TRUE, FALSE, supplied, calls, marks)
<1>1. clock \in Times /\ RowsInv
  BY ClockType DEF IInv
<1>2. asOf \in Days
  BY DayOfTimes
<1>3. before \in SUBSET RowType
  BY <1>1, BeforeType DEF RowsInv
<1>4. ASSUME NEW c \in calls
      PROVE  c \in CallType /\ CallOK(c, tips[c.p], asOf, clock) /\ start < c.closes
  <2>1. c \in ReplayCalls(asOf, called, locks) /\ c.closes > start
    BY <1>4 DEF LiveCalls
  <2>2. c \in CallType /\ CallOK(c, tips[c.p], asOf, clock)
    BY <1>2, <2>1, CallsAreOK
  <2> QED BY <2>1, <2>2, TimesAreNat DEF CallType
<1>5. MadeBefore(start) = {b \in before : b.madeAt < start}
  BY <1>1, AllBefore
<1>6. marks \in SUBSET MarkType
  BY <1>3, <1>4, <1>5, MarkedType
<1>7. row = [madeAt |-> clock, asOf |-> asOf, live |-> TRUE, retro |-> FALSE,
             supplied |-> supplied, calls |-> calls, printed |-> marks]
  BY DEF Row
<1>8. Insert(row) /\ row = LiveRow(start, supplied, called, locks)
  BY DEF LiveRow
<1> HIDE DEF asOf, calls, before, marks, row
<1>9. /\ row \in RowType /\ row.live /\ ~row.retro /\ row.asOf = asOf /\ row.madeAt = clock
      /\ row.calls = calls /\ row.supplied = supplied /\ row.printed = marks
  BY <1>1, <1>2, <1>4, <1>6, <1>7 DEF RowType
<1>10. LiveOK(row, before, start)
  BY <1>4, <1>5, <1>9 DEF LiveOK, PrintedFrom, marks, asOf
<1>11. RowOK(row, before, clock, tips)
  BY <1>1, <1>4, <1>9, <1>10, TimesAreNat DEF RowOK
<1>12. RowOK(row, Before(Len(rows) + 1), clock, tips)
  BY <1>11 DEF before
<1> QED BY <1>8, <1>9, <1>12, RowsGrow DEF asOf

LEMMA ReplayIsOK ==
    ASSUME IInv, NEW asOf \in Days, NEW supplied \in BOOLEAN,
           NEW called \in SUBSET Players, NEW locks, Replay(asOf, supplied, called, locks)
    PROVE  /\ RowsInv'
           /\ Len(rows') = Len(rows) + 1
           /\ \A i \in 1..Len(rows) : rows'[i] = rows[i]
<1> DEFINE calls  == ReplayCalls(asOf, called, locks)
           before == Before(Len(rows) + 1)
           cut    == Morning(asOf)
           marks  == Marked(calls, asOf, supplied, MadeBefore(cut))
<1>1. clock \in Times /\ RowsInv
  BY ClockType DEF IInv
<1>2. before \in SUBSET RowType
  <2>1. Len(rows) \in Nat
    BY <1>1 DEF RowsInv
  <2> QED BY <1>1, <2>1, BeforeType
<1>3. ASSUME NEW c \in calls
      PROVE  c \in CallType /\ CallOK(c, tips[c.p], asOf, clock)
  BY <1>3, CallsAreOK
<1>4. MadeBefore(cut) = {b \in before : b.madeAt < cut}
  BY <1>1, AllBefore
<1>5. marks \in SUBSET MarkType
  BY <1>2, <1>3, <1>4, MarkedType
<1>6. PICK retro \in BOOLEAN :
        /\ calls # {} => retro
        /\ Insert(Row(asOf, FALSE, retro, supplied, calls, marks))
  BY DEF Replay
<1> DEFINE row == Row(asOf, FALSE, retro, supplied, calls, marks)
<1>7. row = [madeAt |-> clock, asOf |-> asOf, live |-> FALSE, retro |-> retro,
             supplied |-> supplied, calls |-> calls, printed |-> marks]
  BY DEF Row
<1>8. Insert(row) /\ UNCHANGED <<clock, tips>>
  BY <1>6 DEF Replay, guard
<1> HIDE DEF calls, before, marks, row
<1>9. /\ row \in RowType /\ ~row.live /\ row.retro = retro /\ row.asOf = asOf
      /\ row.madeAt = clock /\ row.calls = calls /\ row.supplied = supplied
      /\ row.printed = marks
  BY <1>1, <1>3, <1>5, <1>7 DEF RowType
<1>10. PrintedFrom(row, before, cut)
  BY <1>4, <1>9 DEF PrintedFrom, marks
<1>11. RowOK(row, before, clock, tips)
  BY <1>1, <1>3, <1>6, <1>9, <1>10, TimesAreNat DEF RowOK
<1>12. RowOK(row, Before(Len(rows) + 1), clock, tips)
  BY <1>11 DEF before
<1> QED BY <1>8, <1>9, <1>12, RowsGrow

-----------------------------------------------------------------------------
\* The guard's own steps.

\* A run's step leaves the others' as they were.
LEMMA OthersOK ==
    ASSUME GuardInv, NEW t \in Firing, NEW o \in Firing \ {t},
           pc'[o] = pc[o], now'[o] = now[o], UNCHANGED <<clock, stamp>>,
           tried \subseteq tried'
    PROVE  RunOK(o)'
BY DEF GuardInv, RunOK

LEMMA RunKeeps ==
    ASSUME GuardInv, NEW t \in Firing, Guard!Run(t)
    PROVE  GuardInv' /\ clock' = clock
<1> USE GuardsCrontab DEF Guard!Goes, Guard!Alert, Guard!Quiet
<1>1. t \in Times /\ clock \in Times /\ Times \subseteq Nat /\ 0 \in Times
  BY TimesAreNat, ClockType, HorizonAssumption DEF Times
<1>2. CASE Guard!Fire(t)
  <2>1. Guard!TypeOK' BY <1>2 DEF Guard!Fire, GuardInv, Guard!TypeOK, Guard!Ended
  <2>2. RunOK(t)' BY <1>1, <1>2 DEF Guard!Fire, RunOK, GuardInv, Guard!TypeOK
  <2>3. \A o \in Firing \ {t} : RunOK(o)'
    BY <1>2, OthersOK DEF Guard!Fire, GuardInv, Guard!TypeOK
  <2> QED BY <1>2, <2>1, <2>2, <2>3 DEF GuardInv, Guard!Fire
<1>3. CASE Guard!CommandFails(t)
  <2>1. Guard!TypeOK' BY <1>3 DEF Guard!CommandFails, GuardInv, Guard!TypeOK, Guard!Ended
  <2>2. RunOK(t)' BY <1>3 DEF Guard!CommandFails, RunOK, GuardInv, Guard!TypeOK
  <2>3. \A o \in Firing \ {t} : RunOK(o)'
    BY <1>3, OthersOK DEF Guard!CommandFails, GuardInv, Guard!TypeOK
  <2> QED BY <1>3, <2>1, <2>2, <2>3 DEF GuardInv, Guard!CommandFails
<1>4. CASE Guard!CommandSucceeds(t)
  <2>1. Guard!TypeOK' BY <1>4 DEF Guard!CommandSucceeds, GuardInv, Guard!TypeOK, Guard!Ended
  <2>2. RunOK(t)' BY <1>4 DEF Guard!CommandSucceeds, RunOK, GuardInv, Guard!TypeOK
  <2>3. \A o \in Firing \ {t} : RunOK(o)'
    BY <1>4, OthersOK DEF Guard!CommandSucceeds, GuardInv, Guard!TypeOK
  <2> QED BY <1>4, <2>1, <2>2, <2>3 DEF GuardInv, Guard!CommandSucceeds
<1>5. CASE Guard!Compare(t)
  <2>1. Guard!TypeOK' BY <1>5 DEF Guard!Compare, GuardInv, Guard!TypeOK, Guard!Ended
  <2>2. RunOK(t)' BY <1>5 DEF Guard!Compare, RunOK, GuardInv, Guard!TypeOK
  <2>3. \A o \in Firing \ {t} : RunOK(o)'
    BY <1>5, OthersOK DEF Guard!Compare, GuardInv, Guard!TypeOK
  <2> QED BY <1>5, <2>1, <2>2, <2>3 DEF GuardInv, Guard!Compare
<1>6. CASE Guard!WriteStamp(t)
  <2>1. now[t] = clock BY <1>6 DEF Guard!WriteStamp, GuardInv, RunOK
  <2>2. Guard!TypeOK'
    BY <1>1, <1>6, <2>1 DEF Guard!WriteStamp, GuardInv, Guard!TypeOK, Guard!Ended
  <2>3. stamp' # NoStamp => clock' - stamp' = 0
    BY <1>1, <1>6, <2>1 DEF Guard!WriteStamp
  <2>4. \A o \in Firing : RunOK(o)'
    BY <1>6, <2>3, MaxGapAssumption DEF Guard!WriteStamp, GuardInv, Guard!TypeOK, RunOK
  <2> QED BY <1>6, <2>2, <2>4 DEF GuardInv, Guard!WriteStamp
<1>7. CASE Guard!Killed(t)
  <2>1. Guard!TypeOK' BY <1>7 DEF Guard!Killed, GuardInv, Guard!TypeOK, Guard!Ended
  <2>2. RunOK(t)'
    BY <1>7 DEF Guard!Killed, Guard!Running, RunOK, GuardInv, Guard!TypeOK
  <2>3. \A o \in Firing \ {t} : RunOK(o)'
    BY <1>7, OthersOK DEF Guard!Killed, GuardInv, Guard!TypeOK
  <2> QED BY <1>7, <2>1, <2>2, <2>3 DEF GuardInv, Guard!Killed
<1> QED BY <1>2, <1>3, <1>4, <1>5, <1>6, <1>7 DEF Guard!Run

LEMMA TickKeeps ==
    ASSUME GuardInv, Guard!Tick
    PROVE  GuardInv' /\ clock' = clock + 1
<1> USE GuardsCrontab
<1>1. Guard!TypeOK'
  <2>1. clock' \in Times /\ clock \in Nat /\ clock' = clock + 1
    BY ClockType, HorizonAssumption DEF Guard!Tick, Times
  <2>2. 0..clock \subseteq 0..clock'
    BY <2>1
  <2> QED BY <2>1, <2>2 DEF Guard!Tick, Guard!Quiet, GuardInv, Guard!TypeOK
<1>2. \A t \in Firing : RunOK(t)'
  BY ClockType, TimesAreNat DEF Guard!Tick, Guard!Quiet, GuardInv, RunOK
<1> QED BY <1>1, <1>2 DEF GuardInv, Guard!Tick

LEMMA GuardStays ==
    ASSUME GuardInv, UNCHANGED guard
    PROVE  GuardInv'
BY DEF guard, GuardInv, Guard!TypeOK, RunOK

-----------------------------------------------------------------------------
\* The digests that stamped runs have written stay there.

RowsKept == /\ Len(rows) \in Nat /\ Len(rows') \in Nat /\ Len(rows) <= Len(rows')
            /\ \A i \in 1..Len(rows) : rows'[i] = rows[i]

LEMMA RowStays ==
    ASSUME RowsInv, RowsInv', RowsKept, NEW i \in DOMAIN rows
    PROVE  i \in DOMAIN rows' /\ rows'[i] = rows[i]
<1>1. DOMAIN rows = 1..Len(rows) /\ DOMAIN rows' = 1..Len(rows')
  BY DEF RowsInv
<1> QED BY <1>1 DEF RowsKept

Stamped(t) == pc[t] \in {"compare", "stamp", "clean"}

WrittenBy(t) == \E i \in DOMAIN rows :
    rows[i].live /\ rows[i].asOf = Day(t) /\ rows[i].madeAt <= now[t]

Kept(report) == \E i \in DOMAIN rows : rows[i].live /\ Report(rows[i]) = report

LEMMA WrittenStays ==
    ASSUME IInv, RowsInv', RowsKept, NEW t \in Firing, Stamped(t), now'[t] = now[t]
    PROVE  WrittenBy(t)'
<1>1. PICK i \in DOMAIN rows : rows[i].live /\ rows[i].asOf = Day(t) /\ rows[i].madeAt <= now[t]
  BY DEF IInv, PushedIsWritten, Stamped
<1>2. i \in DOMAIN rows' /\ rows'[i] = rows[i]
  BY RowStays DEF IInv
<1> QED BY <1>1, <1>2 DEF WrittenBy

LEMMA KeptStays ==
    ASSUME IInv, RowsInv', RowsKept, NEW report, Kept(report)
    PROVE  Kept(report)'
<1>1. PICK i \in DOMAIN rows : rows[i].live /\ Report(rows[i]) = report
  BY DEF Kept
<1>2. i \in DOMAIN rows' /\ rows'[i] = rows[i]
  BY RowStays DEF IInv
<1> QED BY <1>1, <1>2 DEF Kept, Report

\* The command of a run that has committed, and does not end, keeps its digest.
LEMMA JobStays ==
    ASSUME IInv, RowsInv', RowsKept, clock' \in Nat, clock <= clock', NEW t \in Firing,
           job'[t] # NoJob => /\ job[t] # NoJob /\ job'[t].says = job[t].says
                              /\ pc'[t] = pc[t]
    PROVE  JobOK(t)'
<1> SUFFICES ASSUME job'[t] # NoJob PROVE JobOK(t)'
  BY DEF JobOK
<1>1. PICK i \in DOMAIN rows : /\ rows[i].live /\ rows[i].asOf = Day(t)
                               /\ rows[i].madeAt <= clock /\ Report(rows[i]) = job[t].says
  BY DEF IInv, JobInv, JobOK
<1>2. i \in DOMAIN rows' /\ rows'[i] = rows[i]
  BY RowStays DEF IInv
<1>3. rows[i].madeAt \in Nat /\ clock \in Nat
  <2>1. rows \in Seq(RowType) /\ rows[i] \in RowType
    BY DEF IInv, RowsInv
  <2> QED BY <2>1, ClockType, TimesAreNat DEF IInv, RowType
<1>4. rows'[i].madeAt <= clock'
  BY <1>1, <1>2, <1>3
<1>5. Report(rows'[i]) = job'[t].says
  BY <1>1, <1>2
<1>6. pc'[t] = "command"
  BY DEF IInv, JobInv, JobOK
<1> QED BY <1>1, <1>2, <1>4, <1>5, <1>6 DEF JobOK, Report

\* A run whose step is not its command's success was stamped before, or is not.
LEMMA StampedStays ==
    ASSUME IInv, RowsInv', RowsKept, UNCHANGED phone,
           \A t \in Firing : Stamped(t)' => Stamped(t) /\ now'[t] = now[t]
    PROVE  PushedIsWritten'
<1>1. ASSUME NEW t \in Firing, Stamped(t)' PROVE WrittenBy(t)'
  BY <1>1, WrittenStays
<1>2. ASSUME NEW report \in phone' PROVE Kept(report)'
  <2>1. Kept(report)
    BY <1>2 DEF IInv, PushedIsWritten, Kept
  <2> QED BY <2>1, KeptStays
<1> QED BY <1>1, <1>2 DEF PushedIsWritten, Stamped, WrittenBy, Kept

\* The page being read is of rows that do not change.
LEMMA PageStays ==
    ASSUME IInv, RowsInv', RowsKept, UNCHANGED page, page.step # "shown"
    PROVE  PageInv'
<1>1. page.row \in 1..Len(rows) => page.row \in 1..Len(rows')
  BY DEF RowsKept
<1> QED BY <1>1 DEF IInv, PageInv, NoPage

\* The run on the page, and its marks.
LEMMA HeaderType ==
    ASSUME RowsInv, page.row \in 1..Len(rows)
    PROVE  Header \in RowType
BY DEF RowsInv, Header

LEMMA MarksAreOf ==
    ASSUME RowsInv, page.row \in 1..Len(rows)
    PROVE  /\ Before(page.row) \in SUBSET RowType
           /\ Marks = {m \in Marked(UNION {r.calls : r \in Before(page.row) \cup {Header}},
                                    Header.asOf, Header.supplied, Before(page.row)) :
                           m.said # NoDay}
<1>1. Before(page.row) \in SUBSET RowType
  BY DEF RowsInv, Before
<1> QED BY <1>1 DEF Marks, Before, Header

LEMMA MarksType ==
    ASSUME RowsInv, page.row \in 1..Len(rows)
    PROVE  Marks \in SUBSET MarkType
<1> DEFINE calls == UNION {r.calls : r \in Before(page.row) \cup {Header}}
<1>1. calls \in SUBSET CallType
  BY HeaderType, MarksAreOf DEF RowType
<1>2. Marked(calls, Header.asOf, Header.supplied, Before(page.row)) \in SUBSET MarkType
  <2>1. Header.supplied \in BOOLEAN
    BY HeaderType DEF RowType
  <2> HIDE DEF calls
  <2> QED BY <1>1, <2>1, MarksAreOf, MarkedType
<1> QED BY <1>2, MarksAreOf

LEMMA GuardStepKeeps ==
    ASSUME IInv, page.step # "shown", NEW t \in Firing, JobFails(t) \/ GuardStep(t)
    PROVE  IInv'
<1>1. /\ Guard!CommandFails(t) \/ Guard!Fire(t) \/ Guard!Compare(t) \/ Guard!WriteStamp(t)
         \/ Guard!Killed(t)
      /\ UNCHANGED <<tips, rows, phone, page>>
      /\ job' = [job EXCEPT ![t] = NoJob]
  BY DEF JobFails, GuardStep
<1>2. GuardInv' /\ clock' = clock
  BY <1>1, RunKeeps DEF Guard!Run, IInv
<1>3. RowsInv'
  BY <1>1, <1>2, ClockType, RowsStay DEF IInv
<1>4. RowsKept
  BY <1>1 DEF RowsKept, IInv, RowsInv
<1>5. /\ now' = now /\ pc \in [Firing -> Guard!Ended \cup {"idle", "command", "compare", "stamp"}]
      /\ \A o \in Firing \ {t} : pc'[o] = pc[o]
  <2>1. now' = now /\ pc \in [Firing -> Guard!Ended \cup {"idle", "command", "compare", "stamp"}]
    BY <1>1, GuardsCrontab DEF Guard!CommandFails, Guard!Fire, Guard!Compare, Guard!WriteStamp,
       Guard!Killed, IInv, GuardInv, Guard!TypeOK
  <2>2. \A o \in Firing \ {t} : pc'[o] = pc[o]
    BY <1>1, <2>1 DEF Guard!CommandFails, Guard!Fire, Guard!Compare, Guard!WriteStamp,
       Guard!Killed, Guard!Goes
  <2> QED BY <2>1, <2>2
<1>6. \A o \in Firing : Stamped(o)' => Stamped(o) /\ now'[o] = now[o]
  <2>1. pc'[t] \in {"compare", "stamp", "clean"} => pc[t] \in {"compare", "stamp", "clean"}
    BY <1>1, <1>5 DEF Guard!CommandFails, Guard!Fire, Guard!Compare, Guard!WriteStamp,
       Guard!Killed, Guard!Goes
  <2> QED BY <1>5, <2>1 DEF Stamped
<1>7. PushedIsWritten'
  BY <1>1, <1>3, <1>4, <1>6, StampedStays
<1>8. JobInv'
  <2>1. job' \in [Firing -> JobType]
    BY <1>1 DEF IInv, JobInv, JobType
  <2>2. ASSUME NEW o \in Firing PROVE JobOK(o)'
    <3>1. job'[o] # NoJob => o # t /\ job'[o] = job[o]
      BY <1>1 DEF IInv, JobInv
    <3> QED BY <1>2, <1>3, <1>4, <1>5, <3>1, ClockType, JobStays DEF IInv
  <2> QED BY <1>1, <2>1, <2>2 DEF JobInv, IInv
<1>9. PageInv'
  BY <1>1, <1>3, <1>4, PageStays
<1> QED BY <1>1, <1>2, <1>3, <1>7, <1>8, <1>9 DEF IInv, TipsInv

\* The command ends with its digest in the database: that of the run it stamps.
LEMMA JobSucceedsKeeps ==
    ASSUME IInv, page.step # "shown", NEW t \in Firing, JobSucceeds(t)
    PROVE  IInv'
<1>1. /\ Guard!CommandSucceeds(t) /\ UNCHANGED <<tips, rows, phone, page>>
      /\ job[t].step = "pushed" /\ job' = [job EXCEPT ![t] = NoJob]
  BY DEF JobSucceeds
<1>2. GuardInv' /\ clock' = clock
  BY <1>1, RunKeeps DEF Guard!Run, IInv
<1>3. RowsInv'
  BY <1>1, <1>2, ClockType, RowsStay DEF IInv
<1>4. RowsKept
  BY <1>1 DEF RowsKept, IInv, RowsInv
<1>5. /\ now' = [now EXCEPT ![t] = clock] /\ pc' = [pc EXCEPT ![t] = "compare"]
      /\ now \in [Firing -> Times]
      /\ pc \in [Firing -> Guard!Ended \cup {"idle", "command", "compare", "stamp"}]
  BY <1>1, GuardsCrontab DEF Guard!CommandSucceeds, Guard!Goes, IInv, GuardInv, Guard!TypeOK
<1>6. job[t] # NoJob
  BY <1>1 DEF NoJob
<1>7. WrittenBy(t)'
  <2>1. PICK i \in DOMAIN rows :
           rows[i].live /\ rows[i].asOf = Day(t) /\ rows[i].madeAt <= clock
    BY <1>6 DEF IInv, JobInv, JobOK
  <2>2. now'[t] = clock
    BY <1>5
  <2> QED BY <1>1, <2>1, <2>2 DEF WrittenBy
<1>8. ASSUME NEW o \in Firing \ {t}, Stamped(o)' PROVE WrittenBy(o)'
  <2>1. Stamped(o) /\ now'[o] = now[o]
    BY <1>5, <1>8 DEF Stamped
  <2> QED BY <1>3, <1>4, <2>1, WrittenStays
<1>9. PushedIsWritten'
  <2>1. ASSUME NEW report \in phone' PROVE Kept(report)'
    <3>1. Kept(report)
      BY <1>1, <2>1 DEF IInv, PushedIsWritten, Kept
    <3> QED BY <1>3, <1>4, <3>1, KeptStays
  <2> QED BY <1>7, <1>8, <2>1 DEF PushedIsWritten, Stamped, WrittenBy, Kept
<1>10. JobInv'
  <2>1. job' \in [Firing -> JobType]
    BY <1>1 DEF IInv, JobInv, JobType
  <2>2. ASSUME NEW o \in Firing PROVE JobOK(o)'
    <3>1. job'[o] # NoJob => o # t /\ job'[o] = job[o] /\ pc'[o] = pc[o]
      BY <1>1, <1>5 DEF IInv, JobInv
    <3> QED BY <1>2, <1>3, <1>4, <3>1, ClockType, JobStays DEF IInv
  <2> QED BY <1>1, <2>1, <2>2 DEF JobInv, IInv
<1>11. PageInv'
  BY <1>1, <1>3, <1>4, PageStays
<1> QED BY <1>1, <1>2, <1>3, <1>9, <1>10, <1>11 DEF IInv, TipsInv

LEMMA DigestCommitsKeeps ==
    ASSUME IInv, page.step # "shown", NEW t \in Firing, DigestCommits(t)
    PROVE  IInv'
<1>1. /\ pc[t] = "command"
      /\ UNCHANGED <<clock, stamp, pc, now, tried, tips, phone, page>>
  BY DEF DigestCommits, guard
<1>2. t \in Times /\ t <= clock /\ clock \in Times /\ clock \in Nat
  BY <1>1, TimesAreNat, ClockType DEF IInv, GuardInv, RunOK
<1>3. PICK called \in SUBSET Players : \E locks \in SUBSET called :
         /\ Insert(LiveRow(t, FALSE, called, locks))
         /\ job' = [job EXCEPT ![t] = [step |-> "written",
                                      says |-> Report(LiveRow(t, FALSE, called, locks))]]
  BY DEF DigestCommits
<1>4. PICK locks \in SUBSET called :
         /\ Insert(LiveRow(t, FALSE, called, locks))
         /\ job' = [job EXCEPT ![t] = [step |-> "written",
                                      says |-> Report(LiveRow(t, FALSE, called, locks))]]
  BY <1>3
<1>5. PICK row : row = LiveRow(t, FALSE, called, locks)
  OBVIOUS
<1>6. /\ RowsInv' /\ Len(rows') = Len(rows) + 1
      /\ \A i \in 1..Len(rows) : rows'[i] = rows[i]
      /\ rows'[Len(rows')] = row /\ row \in RowType
      /\ row.live /\ row.asOf = Day(t) /\ row.madeAt = clock
  BY <1>1, <1>2, <1>4, <1>5, LiveIsOK
<1>7. RowsKept
  BY <1>6 DEF RowsKept, IInv, RowsInv
<1>8. Report(row) \in Reports
  BY <1>6 DEF RowType, Report, Reports
<1>9. job' = [job EXCEPT ![t] = [step |-> "written", says |-> Report(row)]]
  BY <1>4, <1>5
<1>10. JobInv'
  <2>1. job' \in [Firing -> JobType]
    BY <1>8, <1>9 DEF IInv, JobInv, JobType
  <2>2. JobOK(t)'
    <3>1. Len(rows') \in DOMAIN rows'
      BY <1>6, <1>7 DEF RowsInv, RowsKept
    <3>2. job'[t].says = Report(row)
      BY <1>9 DEF IInv, JobInv
    <3>3. Report(rows'[Len(rows')]) = job'[t].says
      BY <1>6, <3>2
    <3>4. /\ pc'[t] = "command" /\ rows'[Len(rows')].live /\ rows'[Len(rows')].asOf = Day(t)
          /\ rows'[Len(rows')].madeAt <= clock'
      BY <1>1, <1>2, <1>6
    <3> QED BY <3>1, <3>3, <3>4 DEF JobOK, Report
  <2>3. ASSUME NEW o \in Firing \ {t} PROVE JobOK(o)'
    <3>1. job'[o] = job[o]
      BY <1>9 DEF IInv, JobInv
    <3> QED BY <1>1, <1>2, <1>6, <1>7, <3>1, JobStays
  <2> QED BY <1>1, <2>1, <2>2, <2>3 DEF JobInv, IInv
<1>11. PushedIsWritten'
  BY <1>1, <1>6, <1>7, StampedStays DEF Stamped
<1>12. GuardInv'
  BY <1>1, GuardStays DEF guard, IInv
<1>13. PageInv'
  BY <1>1, <1>6, <1>7, PageStays
<1> QED BY <1>1, <1>6, <1>10, <1>11, <1>12, <1>13 DEF IInv, TipsInv

\* What goes out is what was committed.
LEMMA DigestPushedKeeps ==
    ASSUME IInv, page.step # "shown", NEW t \in Firing, DigestPushed(t)
    PROVE  IInv'
<1>1. /\ UNCHANGED <<clock, stamp, pc, now, tried, tips, rows, page>>
      /\ job[t].step = "written"
      /\ job' = [job EXCEPT ![t].step = "pushed"]
      /\ phone' = phone \/ phone' = phone \cup {job[t].says}
  BY DEF DigestPushed, guard
<1>2. job[t] # NoJob /\ job[t] \in [step : {"written", "pushed"}, says : Reports]
  BY <1>1 DEF NoJob, IInv, JobInv, JobType
<1>3. job' = [job EXCEPT ![t] = [step |-> "pushed", says |-> job[t].says]]
  <2>1. [job[t] EXCEPT !.step = "pushed"] = [step |-> "pushed", says |-> job[t].says]
    BY <1>2
  <2>2. job' = [job EXCEPT ![t] = [job[t] EXCEPT !.step = "pushed"]]
    BY <1>1
  <2> QED BY <2>1, <2>2
<1>4. clock \in Nat
  BY ClockType DEF IInv
<1>5. RowsInv' /\ RowsKept
  <2>1. RowsInv'
    BY <1>1, <1>4, RowsStay
  <2> QED BY <1>1, <2>1 DEF RowsKept, IInv, RowsInv
<1>6. JobInv'
  <2>1. job' \in [Firing -> JobType] /\ phone' \in SUBSET Reports
    BY <1>1, <1>2, <1>3 DEF IInv, JobInv, JobType
  <2>2. ASSUME NEW o \in Firing PROVE JobOK(o)'
    <3>1. job'[o] # NoJob => job[o] # NoJob /\ job'[o].says = job[o].says
      BY <1>2, <1>3 DEF IInv, JobInv
    <3> QED BY <1>1, <1>4, <1>5, <3>1, JobStays
  <2> QED BY <2>1, <2>2 DEF JobInv
<1>7. PushedIsWritten'
  <2>1. Kept(job[t].says)
    BY <1>2 DEF IInv, JobInv, JobOK, Kept
  <2>2. ASSUME NEW report \in phone' PROVE Kept(report)'
    <3>1. Kept(report)
      BY <1>1, <2>1, <2>2 DEF IInv, PushedIsWritten, Kept
    <3> QED BY <1>5, <3>1, KeptStays
  <2>3. ASSUME NEW o \in Firing, Stamped(o)' PROVE WrittenBy(o)'
    <3>1. Stamped(o) /\ now'[o] = now[o]
      BY <1>1, <2>3 DEF Stamped
    <3> QED BY <1>5, <3>1, WrittenStays
  <2> QED BY <2>2, <2>3 DEF PushedIsWritten, Stamped, WrittenBy, Kept
<1>8. GuardInv'
  BY <1>1, GuardStays DEF guard, IInv
<1>9. PageInv'
  BY <1>1, <1>5, PageStays
<1> QED BY <1>1, <1>5, <1>6, <1>7, <1>8, <1>9 DEF IInv, TipsInv

\* The guard and the jobs of its runs are as they were.
LEMMA JobsStay ==
    ASSUME IInv, RowsInv', RowsKept, clock' \in Nat, clock <= clock',
           UNCHANGED <<pc, job, phone>>
    PROVE  JobInv'
<1>1. \A t \in Firing : JobOK(t)'
  BY JobStays
<1> QED BY <1>1 DEF IInv, JobInv

LEMMA ByHandKeeps ==
    ASSUME IInv, page.step # "shown", ByHand
    PROVE  IInv'
<1>1. UNCHANGED <<clock, stamp, pc, now, tried, tips, job, phone, page>>
  BY DEF ByHand, RunByHand, Replay, guard, push
<1>2. /\ RowsInv' /\ Len(rows') = Len(rows) + 1
      /\ \A i \in 1..Len(rows) : rows'[i] = rows[i]
  <2>1. PICK supplied \in BOOLEAN, called \in SUBSET Players : \E locks \in SUBSET called :
           \/ RunByHand(supplied, called, locks)
           \/ \E asOf \in Replays : Replay(asOf, supplied, called, locks)
    BY DEF ByHand
  <2>2. ASSUME NEW locks \in SUBSET called, RunByHand(supplied, called, locks)
        PROVE  /\ RowsInv' /\ Len(rows') = Len(rows) + 1
               /\ \A i \in 1..Len(rows) : rows'[i] = rows[i]
    <3>1. clock \in Times /\ clock <= clock
      BY ClockType DEF IInv
    <3> QED BY <1>1, <2>2, <3>1, LiveIsOK DEF RunByHand
  <2>3. ASSUME NEW locks \in SUBSET called, NEW asOf \in Days,
               Replay(asOf, supplied, called, locks)
        PROVE  /\ RowsInv' /\ Len(rows') = Len(rows) + 1
               /\ \A i \in 1..Len(rows) : rows'[i] = rows[i]
    BY <2>3, ReplayIsOK
  <2> QED BY <2>1, <2>2, <2>3, ReplaysAssumption
<1>3. RowsKept
  BY <1>2 DEF RowsKept, IInv, RowsInv
<1>4. GuardInv'
  BY <1>1, GuardStays DEF guard, IInv
<1>5. PushedIsWritten'
  BY <1>1, <1>2, <1>3, StampedStays DEF Stamped
<1>6. PageInv'
  BY <1>1, <1>2, <1>3, PageStays
<1>7. JobInv'
  BY <1>1, <1>2, <1>3, ClockType, JobsStay DEF IInv
<1> QED BY <1>1, <1>2, <1>4, <1>5, <1>6, <1>7 DEF IInv, TipsInv

LEMMA ReaderKeeps ==
    ASSUME IInv, OpenPage \/ ReadPage \/ ClosePage \/ UNCHANGED vars
    PROVE  IInv'
<1>1. UNCHANGED <<clock, stamp, pc, now, tried, tips, rows, job, phone>>
  BY DEF OpenPage, ReadPage, ShowPage, ClosePage, vars, guard, push
<1>2. GuardInv'
  BY <1>1, GuardStays DEF guard, IInv
<1>3. RowsInv' /\ RowsKept
  <2>1. clock' \in Nat /\ clock <= clock'
    BY <1>1, ClockType DEF IInv
  <2>2. RowsInv'
    BY <1>1, <2>1, RowsStay
  <2> QED BY <1>1, <2>2 DEF RowsKept, IInv, RowsInv
<1>4. PushedIsWritten' /\ JobInv'
  BY <1>1, <1>3, ClockType, StampedStays, JobsStay DEF Stamped, IInv
<1>5. PageInv'
  <2>1. CASE OpenPage
    <3>1. page' = [step |-> "opened", row |-> Len(rows), marks |-> {}, calls |-> {}]
      BY <2>1 DEF OpenPage, NoPage
    <3>2. Len(rows) \in Nat /\ Len(rows) \in 1..Len(rows')
      BY <1>1, <2>1 DEF OpenPage, IInv, RowsInv
    <3> QED BY <3>1, <3>2 DEF PageInv, PageType
  <2>2. CASE ReadPage
    <3>1. /\ page.step = "opened" /\ page \in PageType /\ page.row \in 1..Len(rows)
          /\ page' = [page EXCEPT !.step = "shown", !.marks = Marks, !.calls = Header.calls]
      BY <2>2 DEF ReadPage, ShowPage, Header, IInv, PageInv
    <3>2. Header' = Header /\ Marks' = Marks
      BY <1>1, <3>1 DEF Header, Marks, PageType
    <3>3. Header.calls \in SUBSET CallType /\ Marks \in SUBSET MarkType
      BY <3>1, MarksType, HeaderType DEF IInv, RowType
    <3> QED BY <1>1, <3>1, <3>2, <3>3 DEF PageInv, PageType
  <2>3. CASE ClosePage
    BY <2>3 DEF ClosePage, PageInv, PageType, NoPage
  <2>4. CASE UNCHANGED vars
    BY <2>4, <1>1 DEF vars, IInv, PageInv, NoPage, Header, Marks
  <2> QED BY <2>1, <2>2, <2>3, <2>4
<1> QED BY <1>1, <1>2, <1>3, <1>4, <1>5 DEF IInv, TipsInv

-----------------------------------------------------------------------------
\* The invariant.

LEMMA Initially == Init => IInv
<1> SUFFICES ASSUME Init PROVE IInv
  OBVIOUS
<1>1. 0 \in Times /\ Firing \subseteq Times
  BY HorizonAssumption DEF Times, Firing
<1>2. GuardInv
  BY <1>1, GuardsCrontab
     DEF Init, Guard!Init, GuardInv, Guard!TypeOK, Guard!Ended, RunOK
<1>3. RowsInv
  BY MaxRowsAssumption DEF Init, RowsInv
<1>4. PageInv
  BY DEF Init, PageInv, PageType, NoPage
<1>5. PushedIsWritten
  BY GuardsCrontab DEF Init, Guard!Init, PushedIsWritten
<1>6. JobInv
  BY DEF Init, JobInv, JobType, JobOK
<1> QED BY <1>2, <1>3, <1>4, <1>5, <1>6 DEF Init, IInv, TipsInv

LEMMA NextKeeps == IInv /\ [Next]_vars => IInv'
<1> SUFFICES ASSUME IInv, [Next]_vars PROVE IInv'
  OBVIOUS
<1>1. ASSUME page.step # "shown", NEW t \in Firing, JobSucceeds(t) PROVE IInv'
  BY <1>1, JobSucceedsKeeps
<1>2. ASSUME page.step # "shown", NEW t \in Firing, JobFails(t) \/ GuardStep(t) PROVE IInv'
  BY <1>2, GuardStepKeeps
<1>3. ASSUME page.step # "shown", NEW t \in Firing, DigestCommits(t) \/ DigestPushed(t)
      PROVE  IInv'
  BY <1>3, DigestCommitsKeeps, DigestPushedKeeps
<1>4. CASE page.step # "shown" /\ ByHand
  BY <1>4, ByHandKeeps
<1>5. CASE page.step # "shown" /\ Tick
  <2>1. Guard!Tick /\ UNCHANGED <<tips, rows, push, page>>
    BY <1>5 DEF Tick
  <2>2. GuardInv' /\ clock' \in Nat /\ clock <= clock'
    BY <2>1, TickKeeps, ClockType DEF IInv
  <2>3. RowsInv' /\ RowsKept
    <3>1. RowsInv'
      BY <2>1, <2>2, RowsStay
    <3> QED BY <2>1, <3>1 DEF RowsKept, IInv, RowsInv
  <2>4. PushedIsWritten' /\ JobInv'
    <3>1. UNCHANGED <<pc, now, job, phone>>
      BY <2>1 DEF Guard!Tick, push
    <3> QED BY <2>2, <2>3, <3>1, StampedStays, JobsStay DEF Stamped
  <2>5. PageInv'
    BY <1>5, <2>1, <2>3, PageStays
  <2> QED BY <2>1, <2>2, <2>3, <2>4, <2>5 DEF IInv, TipsInv
<1>6. CASE OpenPage \/ ReadPage \/ ClosePage \/ UNCHANGED vars
  BY <1>6, ReaderKeeps
<1> QED BY <1>1, <1>2, <1>3, <1>4, <1>5, <1>6 DEF Next, Digest

\* The strengthening, in every behaviour: the guard's runs, the rows of every
\* digest and the page gathered from them (scripts/cron-guard, lockin/cli.py
\* digest, lockin/store/runs.py, lockin/advice.py latest_run).
THEOREM Invariance == Spec => []IInv
BY Initially, NextKeeps, PTL DEF Spec

-----------------------------------------------------------------------------
\* What follows from it.

\* The rows the page is built of.
LEMMA RowAt ==
    ASSUME RowsInv, NEW i \in 1..Len(rows)
    PROVE  /\ rows[i] \in RowType
           /\ RowOK(rows[i], Before(i), clock, tips)
           /\ rows[i].madeAt \in Nat /\ rows[i].asOf \in Nat
<1>1. rows[i] \in RowType /\ RowOK(rows[i], Before(i), clock, tips)
  BY DEF RowsInv
<1> QED BY <1>1, TimesAreNat, DaysAreNat DEF RowType

LEMMA ShownHeader ==
    ASSUME IInv, Shown
    PROVE  /\ page.row \in 1..Len(rows) /\ Header = rows[page.row]
           /\ Header \in RowType /\ RowOK(Header, Before(page.row), clock, tips)
           /\ page.calls = Header.calls /\ page.marks = Marks
           /\ clock \in Nat /\ Header.madeAt \in Nat /\ Header.asOf \in Nat
<1>1. /\ page.row \in 1..Len(rows) /\ page.calls = Header.calls /\ page.marks = Marks
  BY DEF IInv, PageInv, Shown, PageType
<1> QED BY <1>1, ClockType, RowAt DEF IInv, Header

\* A live run is dated by a start no later than it is written; one with calls
\* that is no replay is live.
LEMMA LiveStart ==
    ASSUME NEW r \in RowType, NEW before, RowOK(r, before, clock, tips), r.live
    PROVE  \E start \in Nat : LiveOK(r, before, start)
<1>1. PICK start \in Times : LiveOK(r, before, start)
  BY DEF RowOK
<1> QED BY <1>1, TimesAreNat

\* _freshness, render: calls that read as this morning's are a live run's of this
\* morning, whatever was replayed and however long the guard's run took
\* (lockin/advice.py _freshness, render).
LEMMA FreshHolds == IInv => FreshIsLive
<1> SUFFICES ASSUME IInv, Shown, ReadsFresh, ~SaysHistorical, page.calls # {}
             PROVE  Header.live /\ Header.asOf = Day(clock)
  BY DEF FreshIsLive
<1>1. Header.live
  BY ShownHeader DEF SaysHistorical, RowOK, RowType
<1>2. PICK start \in Nat : LiveOK(Header, Before(page.row), start)
  BY <1>1, ShownHeader, LiveStart
<1>3. start <= clock
  BY <1>2, ShownHeader DEF LiveOK, RowOK
<1>4. Day(start) <= Day(clock) /\ Day(start) \in Nat /\ Day(clock) \in Nat
  BY <1>3, ShownHeader, DaysFollow, DayOf
<1> QED BY <1>1, <1>2, <1>4, ShownHeader DEF ReadsFresh, LiveOK

\* What heads "Lock now" can still be locked, is his latest game, and is said by
\* the live run the page names (lockin/advice.py deadline_status, render).
LEMMA LockNowHolds == IInv => LockNowIsOpen
<1> SUFFICES ASSUME IInv, Shown, NEW c \in LockNow
             PROVE  /\ Header.live /\ c \in Header.calls
                    /\ c.game = Latest({t \in tips[c.p] : t <= clock})
  BY DEF LockNowIsOpen
<1>1. ~Header.retro /\ c \in Header.calls /\ c.closes > clock
  BY ShownHeader DEF LockNow, SaysHistorical, IsOpen
<1>2. Header.live
  BY <1>1, ShownHeader DEF RowOK, RowType
<1>3. PICK start \in Nat : LiveOK(Header, Before(page.row), start)
  BY <1>2, ShownHeader, LiveStart
<1>4. /\ c.p \in Players /\ c.closes \in Nat
      /\ CallOK(c, tips[c.p], Header.asOf, Header.madeAt)
  BY <1>1, ShownHeader, TimesAreNat DEF RowOK, RowType, CallType
<1>5. tips[c.p] \in SUBSET Evenings /\ tips[c.p] \in SUBSET Nat
  BY <1>4, TimesAreNat DEF IInv, TipsInv
<1>6. Header.asOf = Day(start) /\ start <= Header.madeAt /\ Header.madeAt <= clock
  BY <1>3, ShownHeader DEF LiveOK, RowOK
<1>7. ASSUME NEW t \in tips[c.p]
      PROVE  t <= clock <=> Day(t) < Header.asOf /\ t <= Header.madeAt
  <2>1. t \in Nat /\ Day(t) \in Nat
    BY <1>5, DayOf
  <2>2. ASSUME t <= clock PROVE Day(t) < Header.asOf
    <3>1. ~(c.closes <= t)
      BY <1>1, <1>4, <2>1, <2>2, ShownHeader
    <3> QED BY <1>4, <2>1, <3>1, ShownHeader DEF CallOK, IsAhead
  <2>3. Day(t) < Header.asOf => t <= Header.madeAt
    BY <1>6, <2>1, ShownHeader, DaysFollow
  <2>4. t <= Header.madeAt => t <= clock
    BY <1>6, <2>1, ShownHeader
  <2> QED BY <2>2, <2>3, <2>4
<1> DEFINE past == {t \in tips[c.p] : t <= clock}
<1>8. past = TippedBy(tips[c.p], Header.asOf, Header.madeAt)
  BY <1>7 DEF TippedBy
<1>9. c.game \in past /\ \A u \in past : u <= c.game
  BY <1>4, <1>8 DEF CallOK
<1>10. past \in SUBSET Evenings
  BY <1>5
<1> HIDE DEF past
<1>11. Latest(past) \in past /\ \A u \in past : u <= Latest(past)
  BY <1>9, <1>10, LatestIsLast
<1>12. c.game = Latest(past)
  <2>1. c.game \in Nat /\ Latest(past) \in Nat
    BY <1>9, <1>10, <1>11, TimesAreNat
  <2>2. c.game <= Latest(past) /\ Latest(past) <= c.game
    BY <1>9, <1>11
  <2> QED BY <2>1, <2>2
<1> QED BY <1>1, <1>2, <1>12 DEF past

\* What the page says on a call of its run: the first morning its own lookup
\* finds, and nothing when it finds none or the run was told what is locked.
OnPage(c) == FirstSaid(c, Header.asOf, Before(page.row))

LEMMA SaidOnIs ==
    ASSUME IInv, Shown, NEW c \in Header.calls
    PROVE  /\ Header.supplied \/ OnPage(c) = NoDay => SaidOn(c) = {}
           /\ ~Header.supplied /\ OnPage(c) # NoDay => SaidOn(c) = {OnPage(c)}
<1> DEFINE before == Before(page.row)
           calls  == UNION {r.calls : r \in before \cup {Header}}
           said(d) == IF Header.supplied THEN NoDay ELSE FirstSaid(d, Header.asOf, before)
           its    == {n \in page.marks : n.call.p = c.p /\ n.call.game = c.game}
<1>1. page.marks = {m \in {[call |-> d, said |-> said(d)] : d \in calls} : m.said # NoDay}
  BY ShownHeader, MarksAreOf DEF Marked, IInv
<1>2. c \in calls
  OBVIOUS
<1> HIDE DEF calls, before
<1>3. ASSUME NEW m \in its
      PROVE  ~Header.supplied /\ m.said = OnPage(c) /\ OnPage(c) # NoDay
  <2>1. PICK d \in calls : m = [call |-> d, said |-> said(d)]
    BY <1>1
  <2>2. d.p = c.p /\ d.game = c.game /\ m.said = said(d) /\ m.said # NoDay
    BY <1>1, <2>1
  <2>3. FirstSaid(d, Header.asOf, before) = FirstSaid(c, Header.asOf, before)
    BY <2>2, FirstSaidOfSame
  <2> QED BY <2>2, <2>3 DEF OnPage, before
<1>4. ASSUME ~Header.supplied, OnPage(c) # NoDay
      PROVE  [call |-> c, said |-> OnPage(c)] \in its
  <2>1. said(c) = OnPage(c)
    BY <1>4 DEF OnPage, before
  <2> QED BY <1>1, <1>2, <1>4, <2>1
<1> DEFINE mark == [call |-> c, said |-> OnPage(c)]
<1>5. SaidOn(c) = {m.said : m \in its}
  BY DEF SaidOn
<1>6. mark.said = OnPage(c)
  OBVIOUS
<1> HIDE DEF its, mark
<1>7. ~Header.supplied /\ OnPage(c) # NoDay => mark \in its
  BY <1>4 DEF mark
<1> QED BY <1>3, <1>5, <1>6, <1>7

\* The rows that said LOCK on a call: they are live, so none was made after the
\* morning of a run that repeats it began.
LEMMA SayingIsLive ==
    ASSUME IInv, Shown, NEW c, NEW r \in Saying(c, Header.asOf, Before(page.row))
    PROVE  \E i \in 1..(page.row - 1) : r = rows[i] /\ r.live /\ r.asOf < Header.asOf
<1>1. PICK i \in 1..(page.row - 1) : r = rows[i]
  BY DEF Saying, Before
<1>2. i \in 1..Len(rows)
  BY ShownHeader DEF IInv, RowsInv
<1>3. r \in RowType /\ RowOK(r, Before(i), clock, tips)
  BY <1>1, <1>2, RowAt DEF IInv
<1>4. r.calls # {} /\ ~r.retro /\ r.asOf < Header.asOf
  BY DEF Saying
<1> QED BY <1>1, <1>3, <1>4 DEF RowOK, RowType

\* latest_run: "the page marks the calls the notification marked": the lookup by
\* creation order and the one by the start of the run find the same mornings,
\* when every run ended the day it describes (lockin/advice.py latest_run,
\* lockin/cli.py digest).
LEMMA MarksHold == IInv => MarksAsPrinted
<1> SUFFICES ASSUME IInv, Shown, \A i \in 1..page.row : Prompt(rows[i]),
                    NEW m \in Header.printed
             PROVE  SaidOn(m.call) = IF m.said = NoDay THEN {} ELSE {m.said}
  BY DEF MarksAsPrinted
<1> DEFINE before == Before(page.row)
<1>1. PICK cut \in Nat : /\ PrintedFrom(Header, before, cut)
                         /\ \A d \in Nat, t \in Nat : Day(t) = d /\ d < Header.asOf => t < cut
  <2>1. CASE Header.live
    <3>1. PICK start \in Nat : LiveOK(Header, before, start)
      BY <2>1, ShownHeader, LiveStart
    <3>2. PrintedFrom(Header, before, start) /\ Header.asOf = Day(start)
      BY <3>1 DEF LiveOK
    <3> QED BY <3>2, DaysFollow
  <2>2. CASE ~Header.live
    <3>1. PrintedFrom(Header, before, Morning(Header.asOf))
      BY <2>2, ShownHeader DEF RowOK
    <3>2. Morning(Header.asOf) \in Nat
      BY ShownHeader DEF Morning
    <3>3. \A t \in Nat : Day(t) < Header.asOf => t < Morning(Header.asOf)
      BY ShownHeader DEF Day, Morning
    <3> QED BY <3>1, <3>2, <3>3
  <2> QED BY <2>1, <2>2
<1> DEFINE seen == {b \in before : b.madeAt < cut}
<1>2. PICK c \in Header.calls :
        m = [call |-> c,
             said |-> IF Header.supplied THEN NoDay ELSE FirstSaid(c, Header.asOf, seen)]
  BY <1>1 DEF PrintedFrom, Marked
<1>3. Saying(c, Header.asOf, seen) = Saying(c, Header.asOf, before)
  <2>1. ASSUME NEW r \in Saying(c, Header.asOf, before) PROVE r \in seen
    <3>1. PICK i \in 1..(page.row - 1) : r = rows[i] /\ r.live /\ r.asOf < Header.asOf
      BY SayingIsLive
    <3>2. i \in 1..page.row /\ i \in 1..Len(rows)
      BY ShownHeader DEF IInv, RowsInv
    <3>3. Prompt(r) /\ r.madeAt \in Nat /\ r.asOf \in Nat
      BY <3>1, <3>2, RowAt DEF IInv
    <3>4. r.madeAt < cut
      BY <1>1, <3>1, <3>3 DEF Prompt
    <3> QED BY <3>4 DEF Saying
  <2> QED BY <2>1 DEF Saying
<1> HIDE DEF seen
<1>4. FirstSaid(c, Header.asOf, seen) = OnPage(c)
  <2>1. FirstSaid(c, Header.asOf, seen) = FirstSaid(c, Header.asOf, before)
    BY <1>3, FirstSaidOfRows
  <2> QED BY <2>1 DEF OnPage
<1>5. m.call = c /\ m.said = IF Header.supplied THEN NoDay ELSE OnPage(c)
  BY <1>2, <1>4
<1> QED BY <1>5, SaidOnIs

\* A call that was said before is marked with the first morning that said it, and
\* his window has been open since; one that was not is not marked
\* (lockin/store/runs.py earlier_lock_calls, lockin/advice.py latest_run).
LEMMA RepeatHolds == IInv => RepeatIsMarked
<1> SUFFICES ASSUME IInv, Shown, ~Header.supplied, NEW c \in page.calls
             PROVE  LET saying == {i \in 1..(page.row - 1) :
                                      /\ rows[i].live /\ rows[i].asOf < Header.asOf
                                      /\ \E d \in rows[i].calls :
                                             d.p = c.p /\ d.game = c.game /\ d.action = "LOCK"}
                    IN  /\ (saying = {}) <=> (SaidOn(c) = {})
                        /\ \A i \in saying : \E d \in SaidOn(c) :
                              /\ d <= rows[i].asOf
                              /\ \A t \in tips[c.p] : c.game < t => t >= Morning(d)
  BY DEF RepeatIsMarked
<1> DEFINE saying == {i \in 1..(page.row - 1) :
                         /\ rows[i].live /\ rows[i].asOf < Header.asOf
                         /\ \E d \in rows[i].calls :
                                d.p = c.p /\ d.game = c.game /\ d.action = "LOCK"}
           before == Before(page.row)
           rowsOf == Saying(c, Header.asOf, before)
<1>1. c \in Header.calls /\ c \in CallType
  BY ShownHeader DEF RowType
<1>2. before \in SUBSET RowType
  BY ShownHeader, MarksAreOf DEF IInv
<1>3. ASSUME NEW i \in 1..(page.row - 1)
      PROVE  /\ rows[i] \in RowType /\ rows[i] \in before
             /\ RowOK(rows[i], Before(i), clock, tips)
             /\ rows[i].live /\ rows[i].calls # {} => ~rows[i].retro
  <2>1. i \in 1..Len(rows)
    BY ShownHeader DEF IInv, RowsInv
  <2> QED BY <2>1, RowAt DEF IInv, Before, RowOK
<1>4. \A i \in saying : rows[i] \in rowsOf
  BY <1>3 DEF Saying
<1>5. ASSUME NEW r \in rowsOf
      PROVE  \E i \in saying : r = rows[i]
  <2>1. PICK i \in 1..(page.row - 1) : r = rows[i] /\ r.live /\ r.asOf < Header.asOf
    BY SayingIsLive
  <2> QED BY <2>1 DEF Saying
<1>6. /\ OnPage(c) = NoDay <=> rowsOf = {}
      /\ rowsOf # {} => \E r \in rowsOf : OnPage(c) = r.asOf
      /\ \A r \in rowsOf : OnPage(c) <= r.asOf
  BY <1>2, FirstSaidIs DEF OnPage
<1>7. /\ OnPage(c) = NoDay => SaidOn(c) = {}
      /\ OnPage(c) # NoDay => SaidOn(c) = {OnPage(c)}
  BY <1>1, SaidOnIs
<1> HIDE DEF saying, rowsOf
<1>8. (saying = {}) <=> (SaidOn(c) = {})
  BY <1>4, <1>5, <1>6, <1>7
<1>9. ASSUME NEW r \in rowsOf, NEW t \in tips[c.p], c.game < t PROVE t >= Morning(r.asOf)
  <2>1. PICK i \in saying : r = rows[i]
    BY <1>5
  <2>2. i \in 1..(page.row - 1) /\ r.live
    BY <2>1 DEF saying
  <2>3. RowOK(r, Before(i), clock, tips) /\ r \in RowType /\ r.madeAt \in Nat /\ r.asOf \in Nat
    BY <1>3, <2>1, <2>2, TimesAreNat, DaysAreNat DEF RowType
  <2>4. PICK start \in Nat : LiveOK(r, Before(i), start)
    BY <2>2, <2>3, LiveStart
  <2>5. PICK d \in r.calls : d.p = c.p /\ d.game = c.game
    BY DEF rowsOf, Saying
  <2>6. CallOK(d, tips[c.p], r.asOf, r.madeAt)
    BY <2>3, <2>5 DEF RowOK
  <2>7. c.game \in Nat /\ t \in Nat
    BY <1>1, TimesAreNat DEF CallType, IInv, TipsInv
  <2>8. ~(Day(t) < r.asOf /\ t <= r.madeAt)
    BY <1>9, <2>5, <2>6, <2>7 DEF CallOK, TippedBy
  <2>9. r.asOf = Day(start) /\ start <= r.madeAt
    BY <2>4 DEF LiveOK
  <2>10. ~(Day(t) < r.asOf)
    BY <2>3, <2>7, <2>8, <2>9, DaysFollow
  <2>11. Day(t) \in Nat /\ Morning(Day(t)) <= t
    BY <2>7, DayOf
  <2> QED BY <2>3, <2>7, <2>10, <2>11 DEF Morning
<1>10. ASSUME NEW i \in saying
       PROVE  \E d \in SaidOn(c) : /\ d <= rows[i].asOf
                                   /\ \A t \in tips[c.p] : c.game < t => t >= Morning(d)
  <2>1. rowsOf # {} /\ OnPage(c) <= rows[i].asOf
    BY <1>4, <1>6
  <2>2. PICK r \in rowsOf : OnPage(c) = r.asOf
    BY <1>6, <2>1
  <2>3. OnPage(c) \in SaidOn(c)
    BY <1>6, <1>7, <2>1
  <2> QED BY <1>9, <2>1, <2>2, <2>3
<1> QED BY <1>8, <1>10 DEF saying

-----------------------------------------------------------------------------
\* The theorems.

LEMMA TypesHold == IInv => TypeOK
<1> SUFFICES ASSUME IInv PROVE TypeOK
  OBVIOUS
<1>1. DOMAIN rows = 1..Len(rows) /\ Len(rows) \in Nat /\ Len(rows) <= MaxRows
  BY DEF IInv, RowsInv
<1>2. ASSUME NEW i \in 1..Len(rows)
      PROVE  /\ rows[i].madeAt \in 0..clock /\ rows[i].asOf \in Days
             /\ rows[i].live => ~rows[i].retro
             /\ rows[i].calls \subseteq CallType /\ rows[i].printed \subseteq MarkType
  BY RowAt, ClockType DEF IInv, RowOK, RowType
<1>3. page.row \in 0..Len(rows) /\ page.calls \subseteq CallType /\ page.marks \subseteq MarkType
  <2>1. page \in PageType /\ (page.step = "closed" => page.row = 0)
    BY DEF IInv, PageInv, NoPage
  <2>2. page.step # "closed" => page.row \in 1..Len(rows)
    BY DEF IInv, PageInv
  <2> QED BY <1>1, <2>1, <2>2 DEF PageType
<1> QED BY <1>1, <1>2, <1>3 DEF TypeOK, IInv, GuardInv, TipsInv, JobInv

\* The shape of every variable, the rows' and the page's included; a live run is
\* never marked as a replay (lockin/cli.py digest).
THEOREM Types == Spec => []TypeOK
BY Invariance, TypesHold, PTL

\* What the page heads "Lock now" can still be locked when it is read, for any
\* roster, schedule and history of digests (lockin/advice.py render).
THEOREM LockNowOpen == Spec => []LockNowIsOpen
BY Invariance, LockNowHolds, PTL

\* The page marks what the notification marked (lockin/advice.py latest_run).
THEOREM PageMarks == Spec => []MarksAsPrinted
BY Invariance, MarksHold, PTL

\* A repeated call is never presented as news, nor news as repeated
\* (lockin/store/runs.py earlier_lock_calls).
THEOREM Repeats == Spec => []RepeatIsMarked
BY Invariance, RepeatHolds, PTL

\* Advice that reads as this morning's is this morning's (lockin/advice.py
\* _freshness).
THEOREM Fresh == Spec => []FreshIsLive
BY Invariance, FreshHolds, PTL

\* What the phone was told is in the database, whatever became of the run that told
\* it, and so is the digest of a morning that was stamped (lockin/cli.py digest,
\* lockin/notify.py send, scripts/cron-guard).
THEOREM PushesAreWritten == Spec => []PushedIsWritten
BY Invariance, PTL DEF IInv

\* A gap is never papered over: for any period and limit, a stamp too old is only
\* ever replaced by a run that has tried to report it (scripts/cron-guard,
\* "recovered").
THEOREM GapsAreReported == Spec => GapIsReported
<1> DEFINE Reported == stamp # NoStamp /\ stamp' # NoStamp /\ stamp' - stamp > MaxGap
                          => \E x \in tried : x >= stamp'
<1>1. ASSUME IInv, [Next]_vars PROVE [Reported]_(Guard!vars)
  <2>1. CASE UNCHANGED stamp
    BY <2>1, <1>1, GuardsCrontab, ClockType, MaxGapAssumption, NoStampAssumption
       DEF IInv, GuardInv, Guard!TypeOK
  <2>2. ASSUME NEW t \in Firing, Guard!WriteStamp(t) PROVE Reported
    <3>1. now[t] = clock /\ pc[t] = "stamp" /\ clock \in Nat
      BY <1>1, <2>2, ClockType DEF Guard!WriteStamp, IInv, GuardInv, RunOK
    <3>2. stamp' # NoStamp => stamp' = clock
      BY <2>2, <3>1 DEF Guard!WriteStamp
    <3>3. stamp # NoStamp /\ clock - stamp > MaxGap => clock \in tried
      BY <1>1, <3>1 DEF IInv, GuardInv, RunOK
    <3> QED BY <3>1, <3>2, <3>3
  <2>3. Next /\ stamp' # stamp => \E t \in Firing : Guard!WriteStamp(t)
    BY DEF Next, Tick, ByHand, RunByHand, Replay, OpenPage, ReadPage, ShowPage, ClosePage,
       Digest, DigestCommits, DigestPushed, JobSucceeds, JobFails, GuardStep, Guard!Tick, Guard!Fire, Guard!CommandFails,
       Guard!CommandSucceeds, Guard!Compare, Guard!Killed, guard
  <2> QED BY <1>1, <2>1, <2>2, <2>3 DEF vars, guard, push, Guard!vars
<1> QED BY <1>1, Invariance, PTL DEF Spec, GapIsReported, Guard!GapIsReported
================================================================================
