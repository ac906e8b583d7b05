--------------------------- MODULE SharedStoreProofs ---------------------------
(***************************************************************************)
(* For any ingests, digests and weeks, overlapping or not: a run recorded as *)
(* complete is whole, an ingest under way is never turned away at once, a    *)
(* digest commits advice that is current to the last commit, and whatever    *)
(* processes overlap, wait, are refused or die, the database changes as      *)
(* AtomicStore says.                                                        *)
(***************************************************************************)
EXTENDS SharedStore, SequenceTheorems, TLAPS

-----------------------------------------------------------------------------
\* e is d with more statements applied: no run or fetch of d is gone from it.
Extends(d, e) ==
    /\ d.fetches \subseteq e.fetches
    /\ DOMAIN d.runs \subseteq DOMAIN e.runs
    /\ \A r \in DOMAIN d.runs : e.runs[r].weeks = d.runs[r].weeks

\* Run r of d fetched every week of its own but those of ws.
Covered(d, r, ws) ==
    /\ r \in DOMAIN d.runs
    /\ \A w \in d.runs[r].weeks \ ws : \E f \in d.fetches : f.run = r /\ f.week = w

Whole(d) ==
    \A r \in DOMAIN d.runs : d.runs[r].status = "complete" => Covered(d, r, {})

\* A view is of a commit that was made; one that is of the last commit is what
\* it reads from; one that writes holds all that is committed.
Isolation ==
    \A c \in Conns :
        /\ view[c].version <= db.version
        /\ tx[c] = "reading" /\ view[c].version = db.version => view[c] = db
        /\ tx[c] = "writing" => /\ view[c].version = db.version
                                /\ Extends(db, view[c])
                                /\ Whole(view[c])

\* Where an ingest is: what its transaction has done, and that it has fetched
\* all its weeks but those left to do.
IngestUnderway(i) ==
    /\ pc[i] \in {"idle", "league", "start"} => job[i].run = 0
    /\ pc[i] = "idle" => tx[i] = "none"
    /\ pc[i] = "league" => tx[i] = "begun"
    /\ pc[i] = "start" => tx[i] = "reading"
    /\ pc[i] \in {"fetch", "store", "kinds"} => tx[i] \in {"begun", "writing"}
    /\ pc[i] \in {"checkpoint", "finish"} => tx[i] = "writing"
    /\ pc[i] \in {"fetch", "checkpoint", "kinds", "finish"}
        => Covered(Sees(i), job[i].run, job[i].left)
    /\ pc[i] = "store" => Covered(Sees(i), job[i].run, job[i].left \cup {job[i].stats.week})
    /\ pc[i] \in {"kinds", "finish"} => job[i].left = {}
    /\ pc[i] \notin {"persist", "commit"}
    /\ pc[i] = "refused" => job[i].run = 0

Underway == \A i \in Ingests : IngestUnderway(i)

\* Where a digest is, and that its verdict is of its view.
DigestUnderway(d) ==
    /\ pc[d] \in Ended \cup {"idle", "persist", "commit"}
    /\ pc[d] = "idle" => tx[d] = "none"
    /\ pc[d] = "persist" => tx[d] = "reading"
    /\ pc[d] = "commit" => /\ tx[d] = "writing"
                           /\ view[d].runs = db.runs
                           /\ view[d].rows = db.rows
    /\ pc[d] \in {"persist", "commit"} =>
        /\ verdict[d].read = view[d].rows[ThisWeek]
        /\ verdict[d].cites # 0 => IsNewest(view[d], ThisWeek, verdict[d].cites)

DigestsUnderway == \A d \in Digests : DigestUnderway(d)

IInv == TypeOK /\ Isolation /\ Underway /\ DigestsUnderway /\ Whole(db)

-----------------------------------------------------------------------------
\* Each statement keeps the version, adds to the database, and keeps it whole.

\* Extending is transitive, and what a run covered it still covers.
LEMMA ExtendsCovers ==
    ASSUME NEW d, NEW e, Extends(d, e), NEW r, NEW ws, Covered(d, r, ws)
    PROVE  Covered(e, r, ws)
BY DEF Extends, Covered

LEMMA ExtendsTransitive ==
    ASSUME NEW d, NEW e, NEW f, Extends(d, e), Extends(e, f)
    PROVE  Extends(d, f)
BY DEF Extends

\* A started run leaves the others as they were.
LEMMA WithRunFacts ==
    ASSUME NEW d \in Databases, NEW weeks \in SUBSET Weeks, NEW skipsNba \in BOOLEAN
    PROVE  LET e == WithRun(d, weeks, skipsNba)
           IN /\ e \in Databases
              /\ e.version = d.version
              /\ Extends(d, e)
              /\ Covered(e, Len(d.runs) + 1, weeks)
              /\ Whole(d) => Whole(e)
<1> DEFINE new == NewRun(weeks, skipsNba)
           e == WithRun(d, weeks, skipsNba)
<1>1. new \in Runs /\ new.weeks = weeks /\ new.status = "running"
  BY DEF NewRun, Runs
<1>2. d.runs \in Seq(Runs) /\ Len(d.runs) \in Nat
  BY DEF Databases
<1>3. /\ e.runs = Append(d.runs, new) /\ e.fetches = d.fetches /\ e.version = d.version
      /\ e.rows = d.rows /\ e.digests = d.digests
  BY DEF WithRun, Databases
<1>4. /\ Append(d.runs, new) \in Seq(Runs)
      /\ DOMAIN Append(d.runs, new) = 1..(Len(d.runs) + 1)
      /\ DOMAIN d.runs = 1..Len(d.runs)
      /\ Append(d.runs, new)[Len(d.runs) + 1] = new
      /\ \A r \in 1..Len(d.runs) : Append(d.runs, new)[r] = d.runs[r]
  BY <1>1, <1>2
<1>5. e \in Databases
  BY <1>3, <1>4 DEF WithRun, Databases
<1>6. Extends(d, e)
  BY <1>2, <1>3, <1>4 DEF Extends
<1>7. Covered(e, Len(d.runs) + 1, weeks)
  BY <1>1, <1>2, <1>3, <1>4 DEF Covered
<1>8. ASSUME Whole(d) PROVE Whole(e)
  <2> SUFFICES ASSUME NEW r \in DOMAIN e.runs, e.runs[r].status = "complete"
               PROVE  Covered(e, r, {})
    BY DEF Whole
  <2>1. r \in DOMAIN d.runs /\ e.runs[r] = d.runs[r]
    BY <1>1, <1>2, <1>3, <1>4
  <2> QED BY <2>1, <1>6, <1>8, ExtendsCovers DEF Whole
<1> QED BY <1>3, <1>5, <1>6, <1>7, <1>8

\* A stored week is covered, and no run was changed.
LEMMA WithStatsFacts ==
    ASSUME NEW d \in Databases, NEW run \in Nat \ {0},
           NEW got \in [week: Weeks, final: BOOLEAN]
    PROVE  LET e == WithStats(d, run, got)
           IN /\ e \in Databases
              /\ e.version = d.version
              /\ Extends(d, e)
              /\ \A ws : Covered(d, run, ws \cup {got.week}) => Covered(e, run, ws)
              /\ Whole(d) => Whole(e)
<1> DEFINE e == WithStats(d, run, got)
           f == [run |-> run, week |-> got.week, final |-> got.final]
<1>1. /\ e.runs = d.runs /\ e.fetches = d.fetches \cup {f} /\ e.version = d.version
      /\ e.digests = d.digests
      /\ e.rows = [d.rows EXCEPT ![got.week] = [run |-> run, final |-> got.final]]
  BY DEF WithStats, Databases
<1>2. f \in Fetches /\ [run |-> run, final |-> got.final] \in Rows
  BY DEF Fetches, Rows
<1>3. e \in Databases
  BY <1>1, <1>2 DEF WithStats, Databases
<1>4. Extends(d, e)
  BY <1>1 DEF Extends
<1>5. ASSUME NEW ws, Covered(d, run, ws \cup {got.week}) PROVE Covered(e, run, ws)
  <2>1. f.run = run /\ f.week = got.week /\ f \in e.fetches
    BY <1>1
  <2>2. run \in DOMAIN e.runs
    BY <1>1, <1>5 DEF Covered
  <2>3. ASSUME NEW w \in e.runs[run].weeks \ ws
        PROVE  \E g \in e.fetches : g.run = run /\ g.week = w
    <3>1. CASE w = got.week BY <3>1, <2>1
    <3>2. CASE w # got.week
      <4>1. w \in d.runs[run].weeks \ (ws \cup {got.week})
        BY <3>2, <2>3, <1>1
      <4> QED BY <4>1, <1>1, <1>5 DEF Covered
    <3> QED BY <3>1, <3>2
  <2> QED BY <2>2, <2>3 DEF Covered
<1>6. ASSUME Whole(d) PROVE Whole(e)
  BY <1>1, <1>4, <1>6, ExtendsCovers DEF Whole
<1> QED BY <1>1, <1>3, <1>4, <1>5, <1>6

\* A run that covered its weeks may be called complete.
LEMMA WithCompleteFacts ==
    ASSUME NEW d \in Databases, NEW run \in DOMAIN d.runs
    PROVE  LET e == WithComplete(d, run)
           IN /\ e \in Databases
              /\ e.version = d.version
              /\ Extends(d, e)
              /\ Whole(d) /\ Covered(d, run, {}) => Whole(e)
<1> DEFINE e == WithComplete(d, run)
           done == [d.runs[run] EXCEPT !.status = "complete"]
<1>1. d.runs \in Seq(Runs) /\ d.runs[run] \in Runs /\ run \in 1..Len(d.runs)
  BY DEF Databases
<1>2. done \in Runs /\ done.weeks = d.runs[run].weeks
  BY <1>1 DEF Runs
<1>3. /\ e.runs = [d.runs EXCEPT ![run] = done] /\ e.fetches = d.fetches
      /\ e.version = d.version /\ e.rows = d.rows /\ e.digests = d.digests
  BY DEF WithComplete, Databases
<1>4. /\ [d.runs EXCEPT ![run] = done] \in Seq(Runs)
      /\ DOMAIN [d.runs EXCEPT ![run] = done] = DOMAIN d.runs
  BY <1>1, <1>2
<1>5. e \in Databases
  BY <1>3, <1>4 DEF WithComplete, Databases
<1>6. Extends(d, e)
  BY <1>2, <1>3, <1>4 DEF Extends
<1>7. ASSUME Whole(d), Covered(d, run, {}) PROVE Whole(e)
  <2> SUFFICES ASSUME NEW r \in DOMAIN e.runs, e.runs[r].status = "complete"
               PROVE  Covered(e, r, {})
    BY DEF Whole
  <2>1. r \in DOMAIN d.runs BY <1>3, <1>4
  <2>2. Covered(d, r, {})
    <3>1. CASE r = run BY <3>1, <1>7
    <3>2. CASE r # run
      <4>1. e.runs[r] = d.runs[r] BY <3>2, <2>1, <1>3, <1>1
      <4> QED BY <4>1, <2>1, <1>7 DEF Whole
    <3> QED BY <3>1, <3>2
  <2> QED BY <2>2, <1>6, ExtendsCovers
<1> QED BY <1>3, <1>5, <1>6, <1>7

\* A digest row touches nothing an ingest wrote.
LEMMA WithDigestFacts ==
    ASSUME NEW d \in Databases, NEW given \in Verdicts
    PROVE  LET e == WithDigest(d, given)
           IN /\ e \in Databases
              /\ e.version = d.version
              /\ e.runs = d.runs /\ e.rows = d.rows
              /\ Extends(d, e)
              /\ Whole(d) => Whole(e)
<1> DEFINE e == WithDigest(d, given)
<1>1. /\ e.runs = d.runs /\ e.fetches = d.fetches /\ e.version = d.version
      /\ e.rows = d.rows /\ e.digests = Append(d.digests, given)
  BY DEF WithDigest, Databases
<1>2. Append(d.digests, given) \in Seq(Verdicts)
  BY DEF Databases
<1>3. e \in Databases
  BY <1>1, <1>2 DEF WithDigest, Databases
<1>4. Extends(d, e)
  BY <1>1 DEF Extends
<1>5. ASSUME Whole(d) PROVE Whole(e)
  BY <1>1, <1>4, <1>5, ExtendsCovers DEF Whole
<1> QED BY <1>1, <1>3, <1>4, <1>5

-----------------------------------------------------------------------------
\* Transactions. A connection that may write sees all that is committed.
LEMMA WriterSeesAll ==
    ASSUME TypeOK, Isolation, Whole(db), NEW c \in Conns, MayWrite(c)
    PROVE  /\ Sees(c) \in Databases
           /\ Sees(c).version = db.version
           /\ Extends(db, Sees(c))
           /\ Whole(Sees(c))
           /\ tx[c] = "reading" => Sees(c) = db
<1>1. Extends(db, db)
  BY DEF Extends
<1>2. db \in Databases /\ view[c] \in Databases
  BY DEF TypeOK
<1> QED BY <1>1, <1>2 DEF MayWrite, Sees, Isolation

\* The typing of what transactions keep, once a step has taken them on.
TransactionsTyped ==
    /\ db \in Databases
    /\ writer \in Conns \cup {Nobody}
    /\ tx \in [Conns -> {"none", "begun", "reading", "writing"}]
    /\ view \in [Conns -> Databases]
    /\ \A c \in Conns : tx[c] = "writing" <=> writer = c

LEMMA BeginIsolated ==
    ASSUME TypeOK, Isolation, NEW c \in Conns, tx[c] # "writing", Begin(c),
           UNCHANGED <<db, writer, view>>
    PROVE  TransactionsTyped' /\ Isolation'
<1>1. TransactionsTyped'
  BY DEF TypeOK, TransactionsTyped, Begin
<1>2. Isolation'
  <2> SUFFICES ASSUME NEW o \in Conns
               PROVE  /\ view[o]'.version <= db'.version
                      /\ tx'[o] = "reading" /\ view'[o].version = db'.version => view'[o] = db'
                      /\ tx'[o] = "writing" => /\ view'[o].version = db'.version
                                               /\ Extends(db', view'[o])
                                               /\ Whole(view'[o])
    BY DEF Isolation
  <2> QED BY DEF Isolation, Begin, TypeOK
<1> QED BY <1>1, <1>2

LEMMA ReadFirstIsolated ==
    ASSUME TypeOK, Isolation, NEW c \in Conns, tx[c] # "writing", ReadFirst(c),
           UNCHANGED <<db, writer>>
    PROVE  TransactionsTyped' /\ Isolation'
<1>1. TransactionsTyped'
  BY DEF TypeOK, TransactionsTyped, ReadFirst
<1>2. Isolation'
  <2> SUFFICES ASSUME NEW o \in Conns
               PROVE  /\ view'[o].version <= db'.version
                      /\ tx'[o] = "reading" /\ view'[o].version = db'.version => view'[o] = db'
                      /\ tx'[o] = "writing" => /\ view'[o].version = db'.version
                                               /\ Extends(db', view'[o])
                                               /\ Whole(view'[o])
    BY DEF Isolation
  <2>1. db.version \in Nat
    BY DEF TypeOK, Databases
  <2>2. CASE o = c
    BY <2>1, <2>2 DEF ReadFirst, TypeOK
  <2>3. CASE o # c
    BY <2>3 DEF ReadFirst, TypeOK, Isolation
  <2> QED BY <2>2, <2>3
<1> QED BY <1>1, <1>2

LEMMA WriteIsolated ==
    ASSUME TypeOK, Isolation, NEW c \in Conns, NEW new \in Databases, Write(c, new),
           new.version = db.version, Extends(db, new), Whole(new)
    PROVE  TransactionsTyped' /\ Isolation'
<1>1. writer \in {Nobody, c}
  BY DEF Write, MayWrite, TypeOK
<1>2. TransactionsTyped'
  BY <1>1, ConnsAssumption DEF TypeOK, TransactionsTyped, Write, Conns
<1>3. Isolation'
  <2> SUFFICES ASSUME NEW o \in Conns
               PROVE  /\ view'[o].version <= db'.version
                      /\ tx'[o] = "reading" /\ view'[o].version = db'.version => view'[o] = db'
                      /\ tx'[o] = "writing" => /\ view'[o].version = db'.version
                                               /\ Extends(db', view'[o])
                                               /\ Whole(view'[o])
    BY DEF Isolation
  <2>1. db.version \in Nat
    BY DEF TypeOK, Databases
  <2>2. CASE o = c
    BY <2>1, <2>2 DEF Write, TypeOK
  <2>3. CASE o # c
    BY <2>3 DEF Write, TypeOK, Isolation
  <2> QED BY <2>2, <2>3
<1> QED BY <1>2, <1>3

LEMMA NoViewFacts ==
    NoView \in Databases /\ NoView.version = 0 /\ Whole(NoView)
<1> DEFINE r1 == [weeks |-> Weeks, status |-> "complete", skipsNba |-> FALSE]
<1>1. r1 \in Runs /\ r1.weeks = Weeks
  BY DEF Runs
<1>2. <<r1>> \in Seq(Runs) /\ DOMAIN <<r1>> = {1} /\ <<r1>>[1] = r1
  BY <1>1
<1>3. Yesterday.runs = <<r1>> /\ Yesterday.version = 0
  BY DEF Yesterday
<1>4. Yesterday.fetches = {[run |-> 1, week |-> w, final |-> FALSE] : w \in Weeks}
  BY DEF Yesterday
<1>5. Yesterday.fetches \in SUBSET Fetches
  <2>1. \A w \in Weeks : [run |-> 1, week |-> w, final |-> FALSE] \in Fetches
    BY DEF Fetches
  <2> QED BY <2>1, <1>4
<1>6. Yesterday.rows \in [Weeks -> Rows]
  BY DEF Yesterday, Rows
<1>7. Yesterday.digests = <<>> /\ <<>> \in Seq(Verdicts)
  BY DEF Yesterday
<1>8. Yesterday \in Databases
  BY <1>2, <1>3, <1>5, <1>6, <1>7 DEF Yesterday, Databases
<1>9. Whole(Yesterday)
  <2>1. \A w \in Weeks : \E f \in Yesterday.fetches : f.run = 1 /\ f.week = w
    <3> TAKE w \in Weeks
    <3> DEFINE f == [run |-> 1, week |-> w, final |-> FALSE]
    <3>1. f \in Yesterday.fetches BY <1>4
    <3>2. f.run = 1 /\ f.week = w OBVIOUS
    <3> QED BY <3>1, <3>2
  <2>2. Covered(Yesterday, 1, {})
    BY <2>1, <1>1, <1>2, <1>3 DEF Covered
  <2> QED BY <2>2, <1>2, <1>3 DEF Whole
<1> QED BY <1>3, <1>8, <1>9 DEF NoView

\* A commit: the version moves on, and no one else was writing.
LEMMA CommitIsolated ==
    ASSUME TypeOK, Isolation, NEW c \in Conns, NEW new \in Databases,
           NEW next \in {"none", "begun"}, tx[c] = "writing", Commit(c, new, next),
           Extends(db, new), Whole(new)
    PROVE  /\ TransactionsTyped' /\ Isolation' /\ Whole(db)'
           /\ Extends(db, db')
           /\ \A o \in Conns : tx[o] = "writing" => o = c
<1>1. db.version \in Nat /\ writer = c
  BY DEF TypeOK, Databases
<1>2. /\ db' \in Databases /\ db'.version = db.version + 1
      /\ db'.runs = new.runs /\ db'.fetches = new.fetches
  BY <1>1 DEF Commit, Databases
<1>3. Extends(db, db')
  BY <1>2 DEF Extends
<1>4. Whole(db)'
  BY <1>2 DEF Whole, Covered
<1>5. \A o \in Conns : tx[o] = "writing" => o = c
  BY <1>1 DEF TypeOK
<1>6. TransactionsTyped'
  <2>1. writer' = Nobody /\ Nobody \notin Conns
    BY ConnsAssumption DEF Commit, Conns
  <2>2. tx' \in [Conns -> {"none", "begun", "reading", "writing"}]
    BY DEF Commit, TypeOK
  <2>3. view' \in [Conns -> Databases]
    BY NoViewFacts DEF Commit, TypeOK
  <2>4. \A o \in Conns : tx'[o] # "writing"
    BY <1>5 DEF Commit, TypeOK
  <2> QED BY <1>2, <2>1, <2>2, <2>3, <2>4 DEF TransactionsTyped
<1>7. Isolation'
  <2> SUFFICES ASSUME NEW o \in Conns
               PROVE  /\ view'[o].version <= db'.version
                      /\ tx'[o] = "reading" /\ view'[o].version = db'.version => view'[o] = db'
                      /\ tx'[o] = "writing" => /\ view'[o].version = db'.version
                                               /\ Extends(db', view'[o])
                                               /\ Whole(view'[o])
    BY DEF Isolation
  <2>1. CASE o = c
    <3>1. view'[o] = NoView /\ tx'[o] = next
      BY <2>1 DEF Commit, TypeOK
    <3> QED BY <3>1, <1>1, <1>2, NoViewFacts
  <2>2. CASE o # c
    <3>1. view'[o] = view[o] /\ tx'[o] = tx[o] /\ tx[o] # "writing"
      BY <2>2, <1>5 DEF Commit, TypeOK
    <3>2. view[o].version \in Nat /\ view[o].version <= db.version
      BY DEF Isolation, TypeOK, Databases
    <3> QED BY <3>1, <3>2, <1>1, <1>2
  <2> QED BY <2>1, <2>2
<1> QED BY <1>3, <1>4, <1>5, <1>6, <1>7

LEMMA RollbackIsolated ==
    ASSUME TypeOK, Isolation, NEW c \in Conns, Rollback(c)
    PROVE  TransactionsTyped' /\ Isolation'
<1>1. TransactionsTyped'
  BY NoViewFacts, ConnsAssumption DEF TypeOK, TransactionsTyped, Rollback, Conns
<1>2. Isolation'
  <2> SUFFICES ASSUME NEW o \in Conns
               PROVE  /\ view'[o].version <= db'.version
                      /\ tx'[o] = "reading" /\ view'[o].version = db'.version => view'[o] = db'
                      /\ tx'[o] = "writing" => /\ view'[o].version = db'.version
                                               /\ Extends(db', view'[o])
                                               /\ Whole(view'[o])
    BY DEF Isolation
  <2>1. db.version \in Nat
    BY DEF TypeOK, Databases
  <2>2. CASE o = c
    BY <2>1, <2>2, NoViewFacts DEF Rollback, TypeOK
  <2>3. CASE o # c
    BY <2>3 DEF Rollback, TypeOK, Isolation
  <2> QED BY <2>2, <2>3
<1> QED BY <1>1, <1>2

-----------------------------------------------------------------------------
\* Nothing of an ingest is disturbed while the database only grows around it.
LEMMA IngestUndisturbed ==
    ASSUME NEW i \in Ingests, IngestUnderway(i), TypeOK,
           pc'[i] = pc[i], job'[i] = job[i], tx'[i] = tx[i], view'[i] = view[i],
           Extends(db, db')
    PROVE  IngestUnderway(i)'
<1>1. \A r, ws : Covered(Sees(i), r, ws) => Covered(Sees(i)', r, ws)
  BY ExtendsCovers DEF Sees
<1> QED BY <1>1 DEF IngestUnderway, Ended

\* ... nor of a digest, unless it is writing.
LEMMA DigestUndisturbed ==
    ASSUME NEW d \in Digests, DigestUnderway(d), TypeOK,
           pc'[d] = pc[d], verdict'[d] = verdict[d], tx'[d] = tx[d], view'[d] = view[d],
           tx[d] = "writing" => UNCHANGED db
    PROVE  DigestUnderway(d)'
BY DEF DigestUnderway, IsNewest, Covering, Ended

\* One connection moves: what is left to show is about it alone.
LEMMA OneMoves ==
    ASSUME IInv, NEW c \in Conns, NEW step \in Steps, Goes(c, step),
           \A o \in Conns \ {c} : tx'[o] = tx[o] /\ view'[o] = view[o],
           \A i \in Ingests \ {c} : job'[i] = job[i],
           \A d \in Digests \ {c} : verdict'[d] = verdict[d],
           Extends(db, db'),
           \A o \in Conns \ {c} : tx[o] = "writing" => UNCHANGED db,
           TransactionsTyped', Isolation', Whole(db)',
           job' \in [Ingests -> Jobs], verdict' \in [Digests -> Verdicts], slateFinal' \in BOOLEAN,
           c \in Ingests => IngestUnderway(c)',
           c \in Digests => DigestUnderway(c)'
    PROVE  IInv'
<1>1. TypeOK /\ Underway /\ DigestsUnderway
  BY DEF IInv
<1>2. pc' \in [Conns -> Steps] /\ \A o \in Conns \ {c} : pc'[o] = pc[o]
  BY <1>1 DEF Goes, TypeOK
<1>3. TypeOK'
  BY <1>2 DEF TypeOK, TransactionsTyped
<1>4. ASSUME NEW i \in Ingests PROVE IngestUnderway(i)'
  <2>1. CASE i = c BY <2>1
  <2>2. CASE i # c
    <3>1. i \in Conns \ {c} BY <2>2 DEF Conns
    <3> QED BY <3>1, <2>2, <1>1, <1>2, IngestUndisturbed DEF Underway
  <2> QED BY <2>1, <2>2
<1>5. ASSUME NEW d \in Digests PROVE DigestUnderway(d)'
  <2>1. CASE d = c BY <2>1
  <2>2. CASE d # c
    <3>1. d \in Conns \ {c} BY <2>2 DEF Conns
    <3> QED BY <3>1, <2>2, <1>1, <1>2, DigestUndisturbed DEF DigestsUnderway
  <2> QED BY <2>1, <2>2
<1> QED BY <1>3, <1>4, <1>5 DEF IInv, Underway, DigestsUnderway

\* An ingest is no digest.
LEMMA IngestsAndDigests ==
    /\ \A i \in Ingests : i \in Conns /\ i \notin Digests
    /\ \A d \in Digests : d \in Conns /\ d \notin Ingests
BY ConnsAssumption DEF Conns

-----------------------------------------------------------------------------
\* The ingest's steps.

LEMMA OpenIngestKeeps ==
    ASSUME IInv, NEW i \in Ingests, OpenIngest(i)
    PROVE  IInv'
<1>1. TypeOK /\ Isolation /\ Whole(db) /\ IngestUnderway(i) /\ i \in Conns /\ i \notin Digests
  BY IngestsAndDigests DEF IInv, Underway
<1>2. tx[i] = "none" /\ Begin(i) /\ Goes(i, "league")
  BY <1>1 DEF OpenIngest, Idle, IngestUnderway
<1>3. TransactionsTyped' /\ Isolation' /\ Whole(db)' /\ Extends(db, db')
  <2>1. UNCHANGED <<db, writer, view>> BY DEF OpenIngest
  <2> QED BY <1>1, <1>2, <2>1, BeginIsolated DEF Extends, Whole, Covered
<1>4. IngestUnderway(i)'
  BY <1>1, <1>2 DEF OpenIngest, Idle, IngestUnderway, Begin, Goes, TypeOK, Ended
<1> QED BY <1>1, <1>2, <1>3, <1>4, OneMoves DEF OpenIngest, Begin, TypeOK, Steps

LEMMA CheckIdentityKeeps ==
    ASSUME IInv, NEW i \in Ingests, CheckIdentity(i)
    PROVE  IInv'
<1>1. TypeOK /\ Isolation /\ Whole(db) /\ IngestUnderway(i) /\ i \in Conns /\ i \notin Digests
  BY IngestsAndDigests DEF IInv, Underway
<1>2. tx[i] = "begun" /\ ReadFirst(i) /\ Goes(i, "start") /\ UNCHANGED <<db, writer, job>>
  BY <1>1 DEF CheckIdentity, IngestUnderway
<1>3. TransactionsTyped' /\ Isolation' /\ Whole(db)' /\ Extends(db, db')
  BY <1>1, <1>2, ReadFirstIsolated DEF Extends, Whole, Covered
<1>4. IngestUnderway(i)'
  BY <1>1, <1>2 DEF CheckIdentity, IngestUnderway, ReadFirst, Goes, TypeOK, Ended
<1> QED BY <1>1, <1>2, <1>3, <1>4, OneMoves DEF CheckIdentity, ReadFirst, TypeOK, Steps

LEMMA StartRunKeeps ==
    ASSUME IInv, NEW i \in Ingests, StartRun(i)
    PROVE  IInv'
<1>1. TypeOK /\ Isolation /\ Whole(db) /\ IngestUnderway(i) /\ i \in Conns /\ i \notin Digests
  BY IngestsAndDigests DEF IInv, Underway
<1>2. pc[i] = "start" /\ tx[i] = "reading" /\ Sees(i) = view[i]
  BY <1>1 DEF StartRun, IngestUnderway, Sees
<1>3. PICK weeks \in SUBSET Weeks, skipsNba \in BOOLEAN :
        /\ Write(i, WithRun(view[i], weeks, skipsNba))
        /\ job' = [job EXCEPT ![i] =
               [left |-> weeks, run |-> Len(view[i].runs) + 1, stats |-> NoStats]]
  BY WeeksAssumption DEF StartRun
<1> DEFINE new == WithRun(view[i], weeks, skipsNba)
<1>4. MayWrite(i) BY <1>3 DEF Write
<1>5. /\ view[i] \in Databases /\ view[i].version = db.version
      /\ Extends(db, view[i]) /\ Whole(view[i])
  BY <1>1, <1>2, <1>4, WriterSeesAll
<1>6. /\ new \in Databases /\ new.version = db.version
      /\ Extends(db, new) /\ Whole(new)
      /\ Covered(new, Len(view[i].runs) + 1, weeks)
  BY <1>5, WithRunFacts, ExtendsTransitive
<1>7. Len(view[i].runs) \in Nat
  BY <1>5 DEF Databases
<1>8. TransactionsTyped' /\ Isolation'
  BY <1>1, <1>3, <1>6, WriteIsolated
<1>9. UNCHANGED db /\ Whole(db)' /\ Extends(db, db')
  BY <1>1, <1>3 DEF Write, Whole, Covered, Extends
<1>10. /\ job' \in [Ingests -> Jobs]
       /\ job'[i].left = weeks /\ job'[i].run = Len(view[i].runs) + 1
  <2> DEFINE mine == [left |-> weeks, run |-> Len(view[i].runs) + 1, stats |-> NoStats]
  <2>1. job \in [Ingests -> Jobs] /\ job' = [job EXCEPT ![i] = mine]
    BY <1>1, <1>3 DEF TypeOK
  <2>2. mine \in Jobs
    BY <1>7, WeeksAssumption DEF Jobs, NoStats
  <2> QED BY <2>1, <2>2
<1>11. pc'[i] = "fetch" /\ tx'[i] = "writing" /\ view'[i] = new
  BY <1>1, <1>3 DEF StartRun, Goes, Write, TypeOK
<1>12. IngestUnderway(i)'
  BY <1>6, <1>10, <1>11 DEF IngestUnderway, Sees, Ended
<1>13. \A o \in Conns \ {i} : tx'[o] = tx[o] /\ view'[o] = view[o]
  BY <1>1, <1>3 DEF Write, TypeOK
<1>14. \A j \in Ingests \ {i} : job'[j] = job[j]
  BY <1>1, <1>3 DEF TypeOK
<1>15. UNCHANGED <<verdict, slateFinal>> /\ Goes(i, "fetch") /\ "fetch" \in Steps
  BY DEF StartRun, Steps
<1> QED BY <1>1, <1>8, <1>9, <1>10, <1>12, <1>13, <1>14, <1>15, OneMoves DEF TypeOK

LEMMA FetchWeekKeeps ==
    ASSUME IInv, NEW i \in Ingests, FetchWeek(i)
    PROVE  IInv'
<1>1. TypeOK /\ Isolation /\ Whole(db) /\ IngestUnderway(i) /\ i \in Conns /\ i \notin Digests
  BY IngestsAndDigests DEF IInv, Underway
<1>2. PICK w \in job[i].left :
        job' = [job EXCEPT ![i].left = @ \ {w},
                           ![i].stats = [week |-> w, final |-> slateFinal]]
  BY DEF FetchWeek
<1>3. job[i] \in Jobs /\ w \in Weeks /\ slateFinal \in BOOLEAN
  BY <1>1 DEF TypeOK, Jobs
<1>4. /\ job'[i] = [job[i] EXCEPT !.left = @ \ {w},
                                  !.stats = [week |-> w, final |-> slateFinal]]
      /\ \A j \in Ingests \ {i} : job'[j] = job[j]
      /\ job' \in [Ingests -> Jobs]
  BY <1>1, <1>2, <1>3 DEF TypeOK, Jobs
<1>5. job'[i].left \cup {job'[i].stats.week} = job[i].left /\ job'[i].run = job[i].run
  BY <1>2, <1>3, <1>4 DEF Jobs
<1>6. /\ UNCHANGED <<db, writer, tx, view, verdict, slateFinal>>
      /\ pc[i] = "fetch" /\ pc'[i] = "store" /\ Goes(i, "store") /\ "store" \in Steps
  BY <1>1 DEF FetchWeek, Goes, TypeOK, Steps
<1>7. TransactionsTyped' /\ Isolation' /\ Whole(db)' /\ Extends(db, db')
  BY <1>1, <1>6 DEF TypeOK, TransactionsTyped, Isolation, Whole, Covered, Extends
<1>8. IngestUnderway(i)'
  <2>1. Sees(i)' = Sees(i) BY <1>6 DEF Sees
  <2>2. Covered(Sees(i), job[i].run, job[i].left) /\ tx[i] \in {"begun", "writing"}
    BY <1>1, <1>6 DEF IngestUnderway
  <2> QED BY <2>1, <2>2, <1>5, <1>6 DEF IngestUnderway, Ended
<1> QED BY <1>1, <1>4, <1>6, <1>7, <1>8, OneMoves DEF TypeOK

LEMMA StoreWeekKeeps ==
    ASSUME IInv, NEW i \in Ingests, StoreWeek(i)
    PROVE  IInv'
<1>1. TypeOK /\ Isolation /\ Whole(db) /\ IngestUnderway(i) /\ i \in Conns /\ i \notin Digests
  BY IngestsAndDigests DEF IInv, Underway
<1> DEFINE new == WithStats(Sees(i), job[i].run, job[i].stats)
<1>2. /\ pc[i] = "store" /\ Write(i, new) /\ MayWrite(i)
      /\ UNCHANGED <<job, verdict, slateFinal>> /\ Goes(i, "checkpoint") /\ "checkpoint" \in Steps
  BY DEF StoreWeek, Write, Steps
<1>3. /\ Sees(i) \in Databases /\ Sees(i).version = db.version
      /\ Extends(db, Sees(i)) /\ Whole(Sees(i))
  BY <1>1, <1>2, WriterSeesAll
<1>4. Covered(Sees(i), job[i].run, job[i].left \cup {job[i].stats.week})
  BY <1>1, <1>2 DEF IngestUnderway
<1>5. /\ job[i].run \in Nat \ {0}
      /\ job[i].stats \in [week: Weeks, final: BOOLEAN]
  BY <1>1, <1>3, <1>4 DEF TypeOK, Jobs, Covered, Databases
<1>6. /\ new \in Databases /\ new.version = db.version
      /\ Extends(db, new) /\ Whole(new) /\ Covered(new, job[i].run, job[i].left)
  BY <1>3, <1>4, <1>5, WithStatsFacts, ExtendsTransitive
<1>7. TransactionsTyped' /\ Isolation'
  BY <1>1, <1>2, <1>6, WriteIsolated
<1>8. UNCHANGED db /\ Whole(db)' /\ Extends(db, db')
  BY <1>1, <1>2 DEF Write, Whole, Covered, Extends
<1>9. pc'[i] = "checkpoint" /\ tx'[i] = "writing" /\ view'[i] = new /\ job'[i] = job[i]
  BY <1>1, <1>2 DEF Goes, Write, TypeOK
<1>10. IngestUnderway(i)'
  BY <1>6, <1>9 DEF IngestUnderway, Sees, Ended
<1>11. \A o \in Conns \ {i} : tx'[o] = tx[o] /\ view'[o] = view[o]
  BY <1>1, <1>2 DEF Write, TypeOK
<1> QED BY <1>1, <1>2, <1>7, <1>8, <1>10, <1>11, OneMoves DEF TypeOK

LEMMA CheckpointKeeps ==
    ASSUME IInv, NEW i \in Ingests, Checkpoint(i)
    PROVE  IInv'
<1>1. TypeOK /\ Isolation /\ Whole(db) /\ IngestUnderway(i) /\ i \in Conns /\ i \notin Digests
  BY IngestsAndDigests DEF IInv, Underway
<1> DEFINE step == IF job[i].left = {} THEN "kinds" ELSE "fetch"
<1>2. /\ pc[i] = "checkpoint" /\ Commit(i, view[i], "begun") /\ Goes(i, step) /\ step \in Steps
      /\ UNCHANGED <<job, verdict, slateFinal>>
  BY DEF Checkpoint, Steps
<1>3. tx[i] = "writing" /\ Covered(view[i], job[i].run, job[i].left)
  BY <1>1, <1>2 DEF IngestUnderway, Sees
<1>4. view[i] \in Databases /\ Extends(db, view[i]) /\ Whole(view[i])
  BY <1>1, <1>3 DEF TypeOK, Isolation
<1>5. /\ TransactionsTyped' /\ Isolation' /\ Whole(db)' /\ Extends(db, db')
      /\ \A o \in Conns : tx[o] = "writing" => o = i
  BY <1>1, <1>2, <1>3, <1>4, CommitIsolated
<1>6. db'.runs = view[i].runs /\ db'.fetches = view[i].fetches
  BY <1>2, <1>4 DEF Commit, Databases
<1>7. pc'[i] = step /\ tx'[i] = "begun" /\ job'[i] = job[i]
  BY <1>1, <1>2 DEF Goes, Commit, TypeOK
<1>8. Covered(Sees(i)', job[i].run, job[i].left)
  BY <1>3, <1>6, <1>7 DEF Sees, Covered
<1>9. IngestUnderway(i)'
  BY <1>7, <1>8 DEF IngestUnderway, Ended
<1>10. \A o \in Conns \ {i} : tx'[o] = tx[o] /\ view'[o] = view[o]
  BY <1>1, <1>2 DEF Commit, TypeOK
<1> QED BY <1>1, <1>2, <1>5, <1>9, <1>10, OneMoves DEF TypeOK

LEMMA RefreshRowKindsKeeps ==
    ASSUME IInv, NEW i \in Ingests, RefreshRowKinds(i)
    PROVE  IInv'
<1>1. TypeOK /\ Isolation /\ Whole(db) /\ IngestUnderway(i) /\ i \in Conns /\ i \notin Digests
  BY IngestsAndDigests DEF IInv, Underway
<1>2. /\ pc[i] = "kinds" /\ Write(i, Sees(i)) /\ MayWrite(i)
      /\ UNCHANGED <<job, verdict, slateFinal>> /\ Goes(i, "finish") /\ "finish" \in Steps
  BY DEF RefreshRowKinds, Write, Steps
<1>3. /\ Sees(i) \in Databases /\ Sees(i).version = db.version
      /\ Extends(db, Sees(i)) /\ Whole(Sees(i))
  BY <1>1, <1>2, WriterSeesAll
<1>4. Covered(Sees(i), job[i].run, job[i].left) /\ job[i].left = {}
  BY <1>1, <1>2 DEF IngestUnderway
<1>5. TransactionsTyped' /\ Isolation'
  BY <1>1, <1>2, <1>3, WriteIsolated
<1>6. UNCHANGED db /\ Whole(db)' /\ Extends(db, db')
  BY <1>1, <1>2 DEF Write, Whole, Covered, Extends
<1>7. pc'[i] = "finish" /\ tx'[i] = "writing" /\ view'[i] = Sees(i) /\ job'[i] = job[i]
  BY <1>1, <1>2 DEF Goes, Write, TypeOK
<1>8. Sees(i)' = view'[i]
  BY <1>7 DEF Sees
<1>9. IngestUnderway(i)'
  BY <1>4, <1>7, <1>8 DEF IngestUnderway, Ended
<1>10. \A o \in Conns \ {i} : tx'[o] = tx[o] /\ view'[o] = view[o]
  BY <1>1, <1>2 DEF Write, TypeOK
<1> QED BY <1>1, <1>2, <1>5, <1>6, <1>9, <1>10, OneMoves DEF TypeOK

LEMMA FinishRunKeeps ==
    ASSUME IInv, NEW i \in Ingests, FinishRun(i)
    PROVE  IInv'
<1>1. TypeOK /\ Isolation /\ Whole(db) /\ IngestUnderway(i) /\ i \in Conns /\ i \notin Digests
  BY IngestsAndDigests DEF IInv, Underway
<1> DEFINE new == WithComplete(view[i], job[i].run)
<1>2. /\ pc[i] = "finish" /\ Commit(i, new, "none") /\ Goes(i, "done") /\ "done" \in Steps
      /\ UNCHANGED <<job, verdict, slateFinal>>
  BY DEF FinishRun, Steps, Ended
<1>3. tx[i] = "writing" /\ Covered(view[i], job[i].run, {})
  BY <1>1, <1>2 DEF IngestUnderway, Sees
<1>4. view[i] \in Databases /\ Extends(db, view[i]) /\ Whole(view[i])
  BY <1>1, <1>3 DEF TypeOK, Isolation
<1>5. new \in Databases /\ Extends(db, new) /\ Whole(new)
  BY <1>3, <1>4, WithCompleteFacts, ExtendsTransitive DEF Covered
<1>6. /\ TransactionsTyped' /\ Isolation' /\ Whole(db)' /\ Extends(db, db')
      /\ \A o \in Conns : tx[o] = "writing" => o = i
  BY <1>1, <1>2, <1>3, <1>5, CommitIsolated
<1>7. pc'[i] = "done"
  BY <1>1, <1>2 DEF Goes, TypeOK
<1>8. IngestUnderway(i)'
  BY <1>7 DEF IngestUnderway, Ended
<1>9. \A o \in Conns \ {i} : tx'[o] = tx[o] /\ view'[o] = view[o]
  BY <1>1, <1>2 DEF Commit, TypeOK
<1> QED BY <1>1, <1>2, <1>6, <1>8, <1>9, OneMoves DEF TypeOK

-----------------------------------------------------------------------------
\* The digest's steps.

\* The run a digest trusts is the newest.
LEMMA TrustedIsNewest ==
    ASSUME NEW d, Trusted(d) # 0
    PROVE  IsNewest(d, ThisWeek, Trusted(d))
BY DEF Trusted, Vouches

LEMMA ReadMorningKeeps ==
    ASSUME IInv, NEW d \in Digests, ReadMorning(d)
    PROVE  IInv'
<1>1. TypeOK /\ Isolation /\ Whole(db) /\ DigestUnderway(d) /\ d \in Conns /\ d \notin Ingests
  BY IngestsAndDigests DEF IInv, DigestsUnderway
<1> DEFINE given == [cites |-> IF slateFinal THEN Trusted(db) ELSE 0,
                     read  |-> db.rows[ThisWeek]]
<1>2. /\ tx[d] = "none" /\ ReadFirst(d) /\ Goes(d, "persist") /\ "persist" \in Steps
      /\ verdict' = [verdict EXCEPT ![d] = given] /\ UNCHANGED <<db, writer, job, slateFinal>>
  BY <1>1 DEF ReadMorning, Idle, DigestUnderway, Steps
<1>3. TransactionsTyped' /\ Isolation' /\ Whole(db)' /\ Extends(db, db')
  BY <1>1, <1>2, ReadFirstIsolated DEF Extends, Whole, Covered
<1>4. given \in Verdicts
  <2>1. db \in Databases BY <1>1 DEF TypeOK
  <2>2. Trusted(db) \in Nat
    BY <2>1 DEF Trusted, Databases
  <2>3. db.rows[ThisWeek] \in Rows
    BY <2>1, WeeksAssumption DEF Databases
  <2> QED BY <2>2, <2>3 DEF Verdicts
<1>5. pc'[d] = "persist" /\ tx'[d] = "reading" /\ view'[d] = db /\ verdict'[d] = given
  BY <1>1, <1>2 DEF Goes, ReadFirst, TypeOK
<1>6. given.cites # 0 => IsNewest(db, ThisWeek, given.cites)
  BY TrustedIsNewest
<1>7. DigestUnderway(d)'
  BY <1>5, <1>6 DEF DigestUnderway, IsNewest, Covering, Ended
<1>8. \A o \in Conns \ {d} : tx'[o] = tx[o] /\ view'[o] = view[o]
  BY <1>1, <1>2 DEF ReadFirst, TypeOK
<1>9. verdict' \in [Digests -> Verdicts] /\ \A o \in Digests \ {d} : verdict'[o] = verdict[o]
  BY <1>1, <1>2, <1>4 DEF TypeOK
<1> QED BY <1>1, <1>2, <1>3, <1>7, <1>8, <1>9, OneMoves DEF TypeOK

LEMMA PersistKeeps ==
    ASSUME IInv, NEW d \in Digests, Persist(d)
    PROVE  IInv'
<1>1. TypeOK /\ Isolation /\ Whole(db) /\ DigestUnderway(d) /\ d \in Conns /\ d \notin Ingests
  BY IngestsAndDigests DEF IInv, DigestsUnderway
<1> DEFINE new == WithDigest(Sees(d), verdict[d])
<1>2. /\ pc[d] = "persist" /\ Write(d, new) /\ MayWrite(d)
      /\ UNCHANGED <<job, verdict, slateFinal>> /\ Goes(d, "commit") /\ "commit" \in Steps
  BY DEF Persist, Write, Steps
<1>3. Sees(d) = db /\ view[d] = db /\ db \in Databases
  BY <1>1, <1>2, WriterSeesAll DEF DigestUnderway, Sees
<1>4. verdict[d] \in Verdicts
  BY <1>1 DEF TypeOK
<1>5. /\ new \in Databases /\ new.version = db.version /\ Extends(db, new) /\ Whole(new)
      /\ new.runs = db.runs /\ new.rows = db.rows
  BY <1>1, <1>3, <1>4, WithDigestFacts
<1>6. TransactionsTyped' /\ Isolation'
  BY <1>1, <1>2, <1>5, WriteIsolated
<1>7. UNCHANGED db /\ Whole(db)' /\ Extends(db, db')
  BY <1>1, <1>2 DEF Write, Whole, Covered, Extends
<1>8. pc'[d] = "commit" /\ tx'[d] = "writing" /\ view'[d] = new /\ verdict'[d] = verdict[d]
  BY <1>1, <1>2 DEF Goes, Write, TypeOK
<1>9. DigestUnderway(d)'
  BY <1>1, <1>2, <1>3, <1>5, <1>7, <1>8 DEF DigestUnderway, IsNewest, Covering, Ended
<1>10. \A o \in Conns \ {d} : tx'[o] = tx[o] /\ view'[o] = view[o]
  BY <1>1, <1>2 DEF Write, TypeOK
<1> QED BY <1>1, <1>2, <1>6, <1>7, <1>9, <1>10, OneMoves DEF TypeOK

LEMMA CommitDigestKeeps ==
    ASSUME IInv, NEW d \in Digests, CommitDigest(d)
    PROVE  IInv'
<1>1. TypeOK /\ Isolation /\ Whole(db) /\ DigestUnderway(d) /\ d \in Conns /\ d \notin Ingests
  BY IngestsAndDigests DEF IInv, DigestsUnderway
<1>2. /\ pc[d] = "commit" /\ Commit(d, view[d], "none") /\ Goes(d, "done") /\ "done" \in Steps
      /\ UNCHANGED <<job, verdict, slateFinal>>
  BY DEF CommitDigest, Steps, Ended
<1>3. tx[d] = "writing"
  BY <1>1, <1>2 DEF DigestUnderway
<1>4. view[d] \in Databases /\ Extends(db, view[d]) /\ Whole(view[d])
  BY <1>1, <1>3 DEF TypeOK, Isolation
<1>5. /\ TransactionsTyped' /\ Isolation' /\ Whole(db)' /\ Extends(db, db')
      /\ \A o \in Conns : tx[o] = "writing" => o = d
  BY <1>1, <1>2, <1>3, <1>4, CommitIsolated
<1>6. pc'[d] = "done"
  BY <1>1, <1>2 DEF Goes, TypeOK
<1>7. DigestUnderway(d)'
  BY <1>6 DEF DigestUnderway, Ended
<1>8. \A o \in Conns \ {d} : tx'[o] = tx[o] /\ view'[o] = view[o]
  BY <1>1, <1>2 DEF Commit, TypeOK
<1> QED BY <1>1, <1>2, <1>5, <1>7, <1>8, OneMoves DEF TypeOK

-----------------------------------------------------------------------------
\* The ways to end early.

LEMMA RollbackKeeps ==
    ASSUME IInv, NEW c \in Conns, NEW step \in {"failed", "refused", "timedout"},
           Rollback(c), Goes(c, step), UNCHANGED <<job, verdict, slateFinal>>,
           step = "refused" /\ c \in Ingests => job[c].run = 0
    PROVE  IInv'
<1>1. TypeOK /\ Isolation /\ Whole(db)
  BY DEF IInv
<1>2. TransactionsTyped' /\ Isolation' /\ UNCHANGED db
  BY <1>1, RollbackIsolated DEF Rollback
<1>3. Whole(db)' /\ Extends(db, db')
  BY <1>1, <1>2 DEF Whole, Covered, Extends
<1>4. pc'[c] = step /\ step \in Steps
  BY <1>1 DEF Goes, TypeOK, Steps, Ended
<1>5. c \in Ingests => IngestUnderway(c)'
  BY <1>4 DEF IngestUnderway, Ended
<1>6. c \in Digests => DigestUnderway(c)'
  BY <1>4 DEF DigestUnderway, Ended
<1>7. \A o \in Conns \ {c} : tx'[o] = tx[o] /\ view'[o] = view[o]
  BY <1>1 DEF Rollback, TypeOK
<1> QED BY <1>1, <1>2, <1>3, <1>4, <1>5, <1>6, <1>7, OneMoves DEF TypeOK

LEMMA RefusedKeeps ==
    ASSUME IInv, NEW c \in Conns, Refused(c)
    PROVE  IInv'
<1>1. ASSUME c \in Ingests PROVE job[c].run = 0
  BY <1>1 DEF IInv, Underway, IngestUnderway, Refused, IsRefused
<1> QED BY <1>1, RollbackKeeps DEF Refused

\* The invariant holds at the start, and every step keeps it.
LEMMA Initially == Init => IInv
<1> SUFFICES ASSUME Init PROVE IInv
  OBVIOUS
<1>1. db = NoView /\ NoView \in Databases /\ NoView.version = 0 /\ Whole(db)
  BY NoViewFacts DEF Init, NoView
<1>2. TypeOK
  <2>1. NoJob \in Jobs
    BY WeeksAssumption DEF NoJob, NoStats, Jobs
  <2>2. [cites |-> 0, read |-> Yesterday.rows[ThisWeek]] \in Verdicts
    BY <1>1, WeeksAssumption DEF Verdicts, Databases, NoView
  <2> QED BY <1>1, <2>1, <2>2, ConnsAssumption DEF Init, TypeOK, Steps, Conns
<1>3. Isolation
  BY <1>1 DEF Init, Isolation
<1>4. Underway
  BY DEF Init, Underway, IngestUnderway, NoJob, Ended, Conns
<1>5. DigestsUnderway
  BY DEF Init, DigestsUnderway, DigestUnderway, Ended, Conns
<1> QED BY <1>1, <1>2, <1>3, <1>4, <1>5 DEF IInv

LEMMA NextKeeps == IInv /\ [Next]_vars => IInv'
<1> SUFFICES ASSUME IInv, [Next]_vars PROVE IInv'
  OBVIOUS
<1>1. ASSUME NEW i \in Ingests, OpenIngest(i) \/ IngestStep(i) PROVE IInv'
  BY <1>1, OpenIngestKeeps, CheckIdentityKeeps, StartRunKeeps, FetchWeekKeeps, StoreWeekKeeps,
     CheckpointKeeps, RefreshRowKindsKeeps, FinishRunKeeps DEF IngestStep
<1>2. ASSUME NEW d \in Digests, ReadMorning(d) \/ DigestStep(d) PROVE IInv'
  BY <1>2, ReadMorningKeeps, PersistKeeps, CommitDigestKeeps DEF DigestStep
<1>3. ASSUME NEW c \in Conns, Refused(c) \/ TimesOut(c) \/ Dies(c) PROVE IInv'
  BY <1>3, RefusedKeeps, RollbackKeeps DEF TimesOut, Dies
<1>4. CASE SlateCompletes \/ UNCHANGED vars
  <2>1. /\ UNCHANGED <<db, writer, tx, view, pc, job, verdict>>
        /\ slateFinal' \in BOOLEAN
    BY <1>4 DEF SlateCompletes, vars, IInv, TypeOK
  <2>2. TypeOK'
    BY <2>1 DEF IInv, TypeOK
  <2>3. Isolation' /\ Whole(db)'
    BY <2>1 DEF IInv, Isolation, Whole, Covered, Extends
  <2>4. Underway' /\ DigestsUnderway'
    BY <2>1 DEF IInv, Underway, IngestUnderway, DigestsUnderway, DigestUnderway, Sees, Covered,
       IsNewest, Covering
  <2> QED BY <2>2, <2>3, <2>4 DEF IInv
<1> QED BY <1>1, <1>2, <1>3, <1>4 DEF Next

-----------------------------------------------------------------------------
\* The strengthening: what every transaction sees and where every process is.
THEOREM Invariance == Spec => []IInv
BY Initially, NextKeeps, PTL DEF Spec

\* The shape of every variable, and the one writer (lockin/store/db.py session).
THEOREM TypeCorrect == Spec => []TypeOK
<1>1. IInv => TypeOK
  BY DEF IInv
<1> QED BY <1>1, Invariance, PTL

\* A run recorded as complete fetched every week it covers, whichever processes
\* run at once and wherever they die (lockin/store/runs.py start and finish).
THEOREM CompleteRunsAreWhole == Spec => []CompleteIsWhole
<1>1. IInv => CompleteIsWhole
  BY DEF IInv, CompleteIsWhole, Whole, Covered
<1> QED BY <1>1, Invariance, PTL

\* An ingest past its first write is never refused at once (lockin/store/db.py
\* checkpoint).
THEOREM OnlyWaitsUnderway == Spec => []UnderwayOnlyWaits
<1>1. IInv => UnderwayOnlyWaits
  BY DEF IInv, Underway, IngestUnderway, UnderwayOnlyWaits
<1> QED BY <1>1, Invariance, PTL

\* A digest's advice is current at the moment it commits (lockin/cli.py digest,
\* one transaction from the reading to the record).
THEOREM AdviceStaysCurrent == Spec => AdviceIsCurrent
<1>1. IInv /\ [Next]_vars =>
        [\A d \in Digests :
            pc[d] = "commit" /\ pc'[d] = "done" /\ verdict[d].cites # 0 =>
                /\ IsNewest(db, ThisWeek, verdict[d].cites)
                /\ db.rows[ThisWeek] = verdict[d].read]_vars
  <2> SUFFICES ASSUME IInv, NEW d \in Digests, pc[d] = "commit", verdict[d].cites # 0
               PROVE  /\ IsNewest(db, ThisWeek, verdict[d].cites)
                      /\ db.rows[ThisWeek] = verdict[d].read
    OBVIOUS
  <2> QED BY DEF IInv, DigestsUnderway, DigestUnderway, IsNewest, Covering
<1> QED BY <1>1, Invariance, PTL DEF Spec, AdviceIsCurrent

-----------------------------------------------------------------------------
\* SharedStore implements AtomicStore: the database is only ever changed as if each
\* commit were one step that saw it whole.

\* What a transaction is about to commit, as a change of what is committed.

Working == {"fetch", "store", "checkpoint", "kinds", "finish"}
InHand  == {"store", "checkpoint"}

\* The run of an ingest that has committed before.
Going(i) ==
    /\ job[i].run \in DOMAIN db.runs
    /\ db.runs[job[i].run].status = "running"
    /\ job[i].left \subseteq db.runs[job[i].run].weeks
    /\ pc[i] \in InHand => job[i].stats.week \in db.runs[job[i].run].weeks

\* The run of an ingest that has yet to commit.
Fresh(i, weeks) ==
    /\ job[i].run = Len(db.runs) + 1
    /\ job[i].left \subseteq weeks
    /\ pc[i] \in InHand => job[i].stats.week \in weeks

Stage(i) ==
    /\ pc[i] \in {"fetch", "store"} /\ tx[i] = "begun" => Going(i)
    /\ pc[i] \in {"fetch", "store"} /\ tx[i] = "writing" =>
          \E weeks \in SUBSET Weeks, skipsNba \in BOOLEAN :
              Fresh(i, weeks) /\ view[i] = WithRun(db, weeks, skipsNba)
    /\ pc[i] = "checkpoint" =>
          \/ Going(i) /\ view[i] = WithStats(db, job[i].run, job[i].stats)
          \/ \E weeks \in SUBSET Weeks, skipsNba \in BOOLEAN :
                /\ Fresh(i, weeks)
                /\ view[i] = WithStats(WithRun(db, weeks, skipsNba), job[i].run, job[i].stats)
    /\ pc[i] = "kinds" => tx[i] = "begun" /\ Going(i)
    /\ pc[i] = "finish" => Going(i) /\ view[i] = db
    /\ job[i].stats.final => slateFinal

\* No two ingests at work have the same run.
OwnRuns ==
    \A i, j \in Ingests :
        i # j /\ pc[i] \in Working /\ pc[j] \in Working => job[i].run # job[j].run

DigestStage(d) ==
    /\ pc[d] \in {"persist", "commit"} /\ verdict[d].cites # 0 => slateFinal
    /\ pc[d] = "persist" /\ verdict[d].cites # 0 => Vouches(view[d], verdict[d].cites)
    /\ pc[d] = "commit" =>
          /\ view[d] = WithDigest(db, verdict[d])
          /\ verdict[d].read = db.rows[ThisWeek]
          /\ verdict[d].cites # 0 => Vouches(db, verdict[d].cites)

RInv ==
    /\ \A i \in Ingests : Stage(i)
    /\ OwnRuns
    /\ \A d \in Digests : DigestStage(d)

-----------------------------------------------------------------------------
\* What others may do while a connection stands still: nothing, or commit
\* beside it without touching its run.
RunUntouched(i) ==
    pc[i] \in Working /\ job[i].run \in DOMAIN db.runs =>
        /\ job[i].run \in DOMAIN db'.runs
        /\ db'.runs[job[i].run] = db.runs[job[i].run]

LEMMA StageUndisturbed ==
    ASSUME NEW i \in Ingests, Stage(i), IngestUnderway(i),
           pc'[i] = pc[i], job'[i] = job[i], tx'[i] = tx[i], view'[i] = view[i],
           slateFinal => slateFinal',
           UNCHANGED db \/ (tx[i] # "writing" /\ RunUntouched(i))
    PROVE  Stage(i)'
<1>1. Going(i) /\ pc[i] \in Working => Going(i)'
  BY DEF Going, RunUntouched
<1>2. CASE UNCHANGED db
  <2>1. \A weeks : Fresh(i, weeks) => Fresh(i, weeks)'
    BY <1>2 DEF Fresh
  <2>2. \A weeks, skipsNba : WithRun(db, weeks, skipsNba)' = WithRun(db, weeks, skipsNba)
    BY <1>2 DEF WithRun
  <2> QED BY <1>1, <1>2, <2>1, <2>2 DEF Stage, Working
<1>3. CASE tx[i] # "writing" /\ RunUntouched(i)
  <2>1. pc[i] \notin {"checkpoint", "finish"}
    BY <1>3 DEF IngestUnderway
  <2> QED BY <1>1, <1>3, <2>1 DEF Stage, Working
<1> QED BY <1>2, <1>3

LEMMA DigestStageUndisturbed ==
    ASSUME NEW d \in Digests, DigestStage(d), DigestUnderway(d),
           pc'[d] = pc[d], verdict'[d] = verdict[d], tx'[d] = tx[d], view'[d] = view[d],
           slateFinal => slateFinal',
           UNCHANGED db \/ tx[d] # "writing"
    PROVE  DigestStage(d)'
<1>1. CASE UNCHANGED db
  BY <1>1 DEF DigestStage
<1>2. CASE tx[d] # "writing"
  BY <1>2 DEF DigestStage, DigestUnderway
<1> QED BY <1>1, <1>2

\* One connection moves: what is left to show is about it alone.
LEMMA OneStages ==
    ASSUME IInv, RInv, NEW c \in Conns,
           \A o \in Conns \ {c} : pc'[o] = pc[o] /\ tx'[o] = tx[o] /\ view'[o] = view[o],
           \A i \in Ingests \ {c} : job'[i] = job[i],
           \A d \in Digests \ {c} : verdict'[d] = verdict[d],
           slateFinal => slateFinal',
           \A o \in Conns \ {c} : UNCHANGED db \/ tx[o] # "writing",
           \A i \in Ingests \ {c} : RunUntouched(i),
           c \in Ingests => /\ Stage(c)'
                            /\ pc'[c] \in Working => \A j \in Ingests \ {c} :
                                  pc[j] \in Working => job[j].run # job'[c].run,
           c \in Digests => DigestStage(c)'
    PROVE  RInv'
<1>1. ASSUME NEW i \in Ingests PROVE Stage(i)'
  <2>1. CASE i = c BY <2>1
  <2>2. CASE i # c
    <3>1. i \in Conns \ {c} /\ Stage(i) /\ IngestUnderway(i)
      BY <2>2 DEF Conns, IInv, Underway, RInv
    <3> QED BY <2>2, <3>1, StageUndisturbed
  <2> QED BY <2>1, <2>2
<1>2. ASSUME NEW d \in Digests PROVE DigestStage(d)'
  <2>1. CASE d = c BY <2>1
  <2>2. CASE d # c
    <3>1. d \in Conns \ {c} /\ DigestStage(d) /\ DigestUnderway(d)
      BY <2>2 DEF Conns, IInv, DigestsUnderway, RInv
    <3> QED BY <2>2, <3>1, DigestStageUndisturbed
  <2> QED BY <2>1, <2>2
<1>3. OwnRuns'
  <2> SUFFICES ASSUME NEW i \in Ingests, NEW j \in Ingests, i # j,
                      pc'[i] \in Working, pc'[j] \in Working
               PROVE  job'[i].run # job'[j].run
    BY DEF OwnRuns
  <2>1. \A o \in Ingests \ {c} : pc'[o] = pc[o] /\ job'[o] = job[o]
    BY DEF Conns
  <2>2. CASE i # c /\ j # c
    BY <2>1, <2>2 DEF RInv, OwnRuns
  <2>3. CASE i = c
    BY <2>1, <2>3
  <2>4. CASE j = c
    BY <2>1, <2>4
  <2> QED BY <2>2, <2>3, <2>4
<1> QED BY <1>1, <1>2, <1>3 DEF RInv

\* Beside a connection that writes, or while nothing is committed.
LEMMA QuietDatabase ==
    ASSUME UNCHANGED db
    PROVE  /\ \A o \in Conns : UNCHANGED db \/ tx[o] # "writing"
           /\ \A i \in Ingests : RunUntouched(i)
BY DEF RunUntouched

LEMMA OneWriter ==
    ASSUME TypeOK, NEW c \in Conns, tx[c] = "writing"
    PROVE  \A o \in Conns \ {c} : tx[o] # "writing"
BY DEF TypeOK

\* The connection that may write to a view it has read sees what is committed.
LEMMA UpgradeSeesAll ==
    ASSUME IInv, NEW c \in Conns, MayWrite(c), tx[c] # "writing"
    PROVE  Sees(c) = db /\ \A o \in Conns : tx[o] # "writing"
<1>1. Sees(c) = db
  BY DEF IInv, MayWrite, Sees, Isolation
<1>2. writer = Nobody
  BY DEF MayWrite
<1> QED BY <1>1, <1>2, ConnsAssumption DEF IInv, TypeOK, Conns
-----------------------------------------------------------------------------
\* The ingest's steps.

\* What a statement changes, and what it leaves.
LEMMA WithRunRuns ==
    ASSUME NEW d \in Databases, NEW weeks \in SUBSET Weeks, NEW skipsNba \in BOOLEAN
    PROVE  LET e == WithRun(d, weeks, skipsNba)
           IN /\ e.runs = Append(d.runs, NewRun(weeks, skipsNba))
              /\ e.fetches = d.fetches /\ e.rows = d.rows /\ e.digests = d.digests
BY DEF WithRun, Databases

LEMMA WithStatsRows ==
    ASSUME NEW d \in Databases, NEW run, NEW got
    PROVE  LET e == WithStats(d, run, got)
           IN /\ e.runs = d.runs /\ e.digests = d.digests
              /\ e.fetches = d.fetches \cup {[run |-> run, week |-> got.week, final |-> got.final]}
              /\ e.rows = [d.rows EXCEPT ![got.week] = [run |-> run, final |-> got.final]]
BY DEF WithStats, Databases

LEMMA CommitRecords ==
    ASSUME TypeOK, NEW c, NEW new \in Databases, NEW next, Commit(c, new, next)
    PROVE  /\ db'.runs = new.runs /\ db'.fetches = new.fetches
           /\ db'.rows = new.rows /\ db'.digests = new.digests
BY DEF Commit, Databases, TypeOK

LEMMA StartRunStages ==
    ASSUME IInv, RInv, NEW i \in Ingests, StartRun(i)
    PROVE  RInv'
<1>1. TypeOK /\ IngestUnderway(i) /\ i \in Conns /\ i \notin Digests
  BY IngestsAndDigests DEF IInv, Underway
<1>2. PICK weeks \in SUBSET Weeks, skipsNba \in BOOLEAN :
        /\ Write(i, WithRun(view[i], weeks, skipsNba))
        /\ job' = [job EXCEPT ![i] =
               [left |-> weeks, run |-> Len(view[i].runs) + 1, stats |-> NoStats]]
  BY WeeksAssumption DEF StartRun
<1>3. tx[i] = "reading" /\ Sees(i) = view[i] /\ MayWrite(i)
  BY <1>1, <1>2 DEF StartRun, IngestUnderway, Sees, Write
<1>4. view[i] = db /\ \A o \in Conns : tx[o] # "writing"
  BY <1>1, <1>3, UpgradeSeesAll
<1>5. /\ job'[i].left = weeks /\ job'[i].run = Len(db.runs) + 1 /\ job'[i].stats = NoStats
      /\ \A j \in Ingests \ {i} : job'[j] = job[j]
  BY <1>1, <1>2, <1>4 DEF TypeOK
<1>6. /\ UNCHANGED <<db, slateFinal, verdict>>
      /\ pc'[i] = "fetch" /\ tx'[i] = "writing" /\ view'[i] = WithRun(db, weeks, skipsNba)
      /\ \A o \in Conns \ {i} : pc'[o] = pc[o] /\ tx'[o] = tx[o] /\ view'[o] = view[o]
  BY <1>1, <1>2, <1>4 DEF StartRun, Goes, Write, TypeOK
<1>7. Stage(i)'
  <2>1. Fresh(i, weeks)'
    BY <1>5, <1>6 DEF Fresh, InHand
  <2>2. WithRun(db, weeks, skipsNba)' = WithRun(db, weeks, skipsNba)
    BY <1>6 DEF WithRun
  <2>3. ~ job'[i].stats.final
    BY <1>5 DEF NoStats
  <2> QED BY <1>2, <1>6, <2>1, <2>2, <2>3 DEF Stage
<1>8. ASSUME NEW j \in Ingests \ {i}, pc[j] \in Working PROVE job[j].run # job'[i].run
  <2>1. tx[j] # "writing" /\ IngestUnderway(j) /\ Stage(j)
    BY <1>4 DEF IInv, Underway, RInv, Conns
  <2>2. Going(j)
    BY <1>8, <2>1 DEF Stage, Working, IngestUnderway
  <2>3. Len(db.runs) \in Nat /\ DOMAIN db.runs = 1..Len(db.runs)
    BY <1>1 DEF TypeOK, Databases
  <2> QED BY <1>5, <2>2, <2>3 DEF Going
<1> QED BY <1>1, <1>5, <1>6, <1>7, <1>8, QuietDatabase, OneStages

LEMMA FetchWeekStages ==
    ASSUME IInv, RInv, NEW i \in Ingests, FetchWeek(i)
    PROVE  RInv'
<1>1. TypeOK /\ IngestUnderway(i) /\ Stage(i) /\ i \in Conns /\ i \notin Digests
  BY IngestsAndDigests DEF IInv, Underway, RInv
<1>2. PICK w \in job[i].left :
        job' = [job EXCEPT ![i].left = @ \ {w},
                           ![i].stats = [week |-> w, final |-> slateFinal]]
  BY DEF FetchWeek
<1>3. /\ job'[i].left \subseteq job[i].left /\ job'[i].run = job[i].run
      /\ job'[i].stats.week = w /\ job'[i].stats.final = slateFinal
      /\ \A j \in Ingests \ {i} : job'[j] = job[j]
  BY <1>1, <1>2 DEF TypeOK, Jobs
<1>4. /\ UNCHANGED <<db, tx, view, slateFinal, verdict>>
      /\ pc[i] = "fetch" /\ pc'[i] = "store"
      /\ \A o \in Conns \ {i} : pc'[o] = pc[o]
  BY <1>1 DEF FetchWeek, Goes, TypeOK
<1>5. Stage(i)'
  <2>1. Going(i) => Going(i)'
    BY <1>2, <1>3, <1>4 DEF Going
  <2>2. \A weeks : Fresh(i, weeks) => Fresh(i, weeks)'
    BY <1>2, <1>3, <1>4 DEF Fresh
  <2>3. \A weeks, skipsNba : WithRun(db, weeks, skipsNba)' = WithRun(db, weeks, skipsNba)
    BY <1>4 DEF WithRun
  <2> QED BY <1>1, <1>3, <1>4, <2>1, <2>2, <2>3 DEF Stage
<1>6. \A j \in Ingests \ {i} : pc[j] \in Working => job[j].run # job'[i].run
  BY <1>3, <1>4 DEF RInv, OwnRuns, Working
<1> QED BY <1>1, <1>3, <1>4, <1>5, <1>6, QuietDatabase, OneStages

LEMMA StoreWeekStages ==
    ASSUME IInv, RInv, NEW i \in Ingests, StoreWeek(i)
    PROVE  RInv'
<1>1. TypeOK /\ IngestUnderway(i) /\ Stage(i) /\ i \in Conns /\ i \notin Digests
  BY IngestsAndDigests DEF IInv, Underway, RInv
<1> DEFINE new == WithStats(Sees(i), job[i].run, job[i].stats)
<1>2. /\ pc[i] = "store" /\ Write(i, new) /\ MayWrite(i)
      /\ UNCHANGED <<db, job, verdict, slateFinal>>
  BY DEF StoreWeek, Write
<1>3. /\ pc'[i] = "checkpoint" /\ view'[i] = new
      /\ \A o \in Conns \ {i} : pc'[o] = pc[o] /\ tx'[o] = tx[o] /\ view'[o] = view[o]
  BY <1>1, <1>2 DEF StoreWeek, Goes, Write, TypeOK
<1>4. Stage(i)'
  <2>2. CASE tx[i] = "begun"
    <3>1. Going(i) /\ new = WithStats(db, job[i].run, job[i].stats)
      BY <1>1, <1>2, <2>2 DEF Stage, Sees
    <3>2. Going(i)'
      BY <1>2, <1>3, <3>1 DEF Going, InHand
    <3>3. view'[i] = WithStats(db, job[i].run, job[i].stats)'
      BY <1>2, <1>3, <3>1 DEF WithStats
    <3> QED BY <1>1, <1>2, <1>3, <3>2, <3>3 DEF Stage
  <2>3. CASE tx[i] = "writing"
    <3>1. PICK weeks \in SUBSET Weeks, skipsNba \in BOOLEAN :
            Fresh(i, weeks) /\ view[i] = WithRun(db, weeks, skipsNba)
      BY <1>1, <1>2, <2>3 DEF Stage
    <3>2. Fresh(i, weeks)'
      BY <1>2, <1>3, <3>1 DEF Fresh, InHand
    <3>3. view'[i] = WithStats(WithRun(db, weeks, skipsNba), job[i].run, job[i].stats)'
      BY <1>2, <1>3, <2>3, <3>1 DEF Sees, WithStats, WithRun
    <3> QED BY <1>1, <1>2, <1>3, <3>1, <3>2, <3>3 DEF Stage
  <2> QED BY <1>1, <1>2, <2>2, <2>3 DEF IngestUnderway
<1>5. \A j \in Ingests \ {i} : pc[j] \in Working => job[j].run # job'[i].run
  BY <1>2 DEF RInv, OwnRuns, Working
<1> QED BY <1>1, <1>2, <1>3, <1>4, <1>5, QuietDatabase, OneStages
\* What a checkpoint makes of the recorded runs: the run's week, after the run
\* itself if it is new.
CheckpointChange(i) ==
    \/ /\ Going(i)
       /\ db'.runs = db.runs
    \/ \E weeks \in SUBSET Weeks, skipsNba \in BOOLEAN :
          /\ Fresh(i, weeks)
          /\ db'.runs = Append(db.runs, NewRun(weeks, skipsNba))

LEMMA CheckpointCommits ==
    ASSUME IInv, RInv, NEW i \in Ingests, Checkpoint(i)
    PROVE  /\ CheckpointChange(i)
           /\ db'.fetches = db.fetches \cup {[run |-> job[i].run, week |-> job[i].stats.week,
                                              final |-> job[i].stats.final]}
           /\ db'.rows = [db.rows EXCEPT ![job[i].stats.week] =
                             [run |-> job[i].run, final |-> job[i].stats.final]]
           /\ db'.digests = db.digests
           /\ job[i].stats.week \in Weeks
<1>1. TypeOK /\ Stage(i) /\ i \in Conns /\ db \in Databases /\ view[i] \in Databases
  BY IngestsAndDigests DEF IInv, RInv, TypeOK
<1>2. pc[i] = "checkpoint" /\ Commit(i, view[i], "begun")
  BY DEF Checkpoint
<1>3. /\ db'.runs = view[i].runs /\ db'.fetches = view[i].fetches
      /\ db'.rows = view[i].rows /\ db'.digests = view[i].digests
  BY <1>1, <1>2, CommitRecords
<1>4. job[i].stats.week \in Weeks
  BY <1>1 DEF TypeOK, Jobs
<1>5. CASE Going(i) /\ view[i] = WithStats(db, job[i].run, job[i].stats)
  BY <1>1, <1>3, <1>4, <1>5, WithStatsRows DEF CheckpointChange
<1>6. CASE \E weeks \in SUBSET Weeks, skipsNba \in BOOLEAN :
              /\ Fresh(i, weeks)
              /\ view[i] = WithStats(WithRun(db, weeks, skipsNba), job[i].run, job[i].stats)
  <2>1. PICK weeks \in SUBSET Weeks, skipsNba \in BOOLEAN :
              /\ Fresh(i, weeks)
              /\ view[i] = WithStats(WithRun(db, weeks, skipsNba), job[i].run, job[i].stats)
    BY <1>6
  <2>2. WithRun(db, weeks, skipsNba) \in Databases
    BY <1>1, WithRunFacts
  <2>3. /\ view[i].runs = Append(db.runs, NewRun(weeks, skipsNba))
        /\ view[i].digests = db.digests
        /\ view[i].fetches = db.fetches \cup {[run |-> job[i].run, week |-> job[i].stats.week,
                                               final |-> job[i].stats.final]}
        /\ view[i].rows = [db.rows EXCEPT ![job[i].stats.week] =
                              [run |-> job[i].run, final |-> job[i].stats.final]]
    <3> DEFINE begun == WithRun(db, weeks, skipsNba)
    <3>1. /\ begun.runs = Append(db.runs, NewRun(weeks, skipsNba))
          /\ begun.fetches = db.fetches /\ begun.rows = db.rows /\ begun.digests = db.digests
      BY <1>1, WithRunRuns
    <3>2. view[i] = WithStats(begun, job[i].run, job[i].stats) /\ begun \in Databases
      BY <2>1, <2>2
    <3> HIDE DEF begun
    <3> QED BY <3>1, <3>2, WithStatsRows
  <2> QED BY <1>3, <1>4, <2>1, <2>3 DEF CheckpointChange
<1> QED BY <1>1, <1>2, <1>5, <1>6 DEF Stage

\* The runs recorded are still there, as they were.
LEMMA CheckpointKeepsRuns ==
    ASSUME TypeOK, NEW i \in Ingests, CheckpointChange(i)
    PROVE  \A r \in DOMAIN db.runs : r \in DOMAIN db'.runs /\ db'.runs[r] = db.runs[r]
<1>1. db.runs \in Seq(Runs)
  BY DEF TypeOK, Databases
<1>2. CASE db'.runs = db.runs
  BY <1>2
<1>3. ASSUME NEW weeks \in SUBSET Weeks, NEW skipsNba \in BOOLEAN,
             db'.runs = Append(db.runs, NewRun(weeks, skipsNba))
      PROVE  \A r \in DOMAIN db.runs : r \in DOMAIN db'.runs /\ db'.runs[r] = db.runs[r]
  <2>1. NewRun(weeks, skipsNba) \in Runs
    BY DEF NewRun, Runs
  <2> QED BY <1>1, <1>3, <2>1
<1> QED BY <1>2, <1>3 DEF CheckpointChange

LEMMA CheckpointStages ==
    ASSUME IInv, RInv, NEW i \in Ingests, Checkpoint(i)
    PROVE  RInv'
<1>1. TypeOK /\ IngestUnderway(i) /\ Stage(i) /\ i \in Conns /\ i \notin Digests
  BY IngestsAndDigests DEF IInv, Underway, RInv
<1>2. /\ pc[i] = "checkpoint" /\ Commit(i, view[i], "begun") /\ tx[i] = "writing"
      /\ UNCHANGED <<job, verdict, slateFinal>>
  BY <1>1 DEF Checkpoint, IngestUnderway
<1>3. /\ pc'[i] \in {"kinds", "fetch"} /\ tx'[i] = "begun"
      /\ \A o \in Conns \ {i} : pc'[o] = pc[o] /\ tx'[o] = tx[o] /\ view'[o] = view[o]
  BY <1>1, <1>2 DEF Checkpoint, Goes, Commit, TypeOK
<1>4. CheckpointChange(i)
  BY CheckpointCommits
<1>5. Going(i)'
  <2>1. CASE Going(i) /\ db'.runs = db.runs
    BY <1>2, <1>3, <2>1 DEF Going, InHand
  <2>2. ASSUME NEW weeks \in SUBSET Weeks, NEW skipsNba \in BOOLEAN, Fresh(i, weeks),
               db'.runs = Append(db.runs, NewRun(weeks, skipsNba))
        PROVE  Going(i)'
    <3>1. NewRun(weeks, skipsNba) \in Runs /\ NewRun(weeks, skipsNba).weeks = weeks
          /\ NewRun(weeks, skipsNba).status = "running"
      BY DEF NewRun, Runs
    <3>2. db.runs \in Seq(Runs)
      BY <1>1 DEF TypeOK, Databases
    <3>3. /\ job[i].run \in DOMAIN db'.runs
          /\ db'.runs[job[i].run] = NewRun(weeks, skipsNba)
      BY <2>2, <3>1, <3>2 DEF Fresh
    <3> QED BY <1>2, <1>3, <2>2, <3>1, <3>3 DEF Going, Fresh, InHand
  <2> QED BY <1>4, <2>1, <2>2 DEF CheckpointChange
<1>6. Stage(i)'
  BY <1>1, <1>2, <1>3, <1>5 DEF Stage
<1>7. \A j \in Ingests : RunUntouched(j)
  BY <1>1, <1>4, CheckpointKeepsRuns DEF RunUntouched
<1>8. \A j \in Ingests \ {i} : pc[j] \in Working => job[j].run # job'[i].run
  BY <1>2 DEF RInv, OwnRuns, Working
<1>9. \A o \in Conns \ {i} : tx[o] # "writing"
  BY <1>1, <1>2, OneWriter
<1> QED BY <1>1, <1>2, <1>3, <1>6, <1>7, <1>8, <1>9, OneStages

LEMMA RefreshRowKindsStages ==
    ASSUME IInv, RInv, NEW i \in Ingests, RefreshRowKinds(i)
    PROVE  RInv'
<1>1. TypeOK /\ Stage(i) /\ i \in Conns /\ i \notin Digests
  BY IngestsAndDigests DEF IInv, RInv
<1>2. /\ pc[i] = "kinds" /\ Write(i, Sees(i)) /\ Sees(i) = db /\ Going(i)
      /\ UNCHANGED <<db, job, verdict, slateFinal>>
  BY <1>1 DEF RefreshRowKinds, Write, Stage, Sees
<1>3. /\ pc'[i] = "finish" /\ view'[i] = db
      /\ \A o \in Conns \ {i} : pc'[o] = pc[o] /\ tx'[o] = tx[o] /\ view'[o] = view[o]
  BY <1>1, <1>2 DEF RefreshRowKinds, Goes, Write, TypeOK
<1>4. Stage(i)'
  <2>1. Going(i)'
    BY <1>2, <1>3 DEF Going, InHand
  <2> QED BY <1>1, <1>2, <1>3, <2>1 DEF Stage
<1>5. \A j \in Ingests \ {i} : pc[j] \in Working => job[j].run # job'[i].run
  BY <1>2 DEF RInv, OwnRuns, Working
<1> QED BY <1>1, <1>2, <1>3, <1>4, <1>5, QuietDatabase, OneStages

\* The one run that is completed is the ingest's own.
LEMMA FinishRunCommits ==
    ASSUME IInv, RInv, NEW i \in Ingests, FinishRun(i)
    PROVE  /\ Going(i)
           /\ db'.runs = [db.runs EXCEPT ![job[i].run].status = "complete"]
           /\ db'.fetches = db.fetches /\ db'.rows = db.rows /\ db'.digests = db.digests
           /\ \A w \in db.runs[job[i].run].weeks :
                 \E f \in db.fetches : f.run = job[i].run /\ f.week = w
<1>1. /\ TypeOK /\ Stage(i) /\ IngestUnderway(i) /\ db \in Databases
  BY DEF IInv, Underway, RInv, TypeOK
<1>2. pc[i] = "finish" /\ Going(i) /\ view[i] = db /\ Sees(i) = db /\ job[i].left = {}
  BY <1>1 DEF FinishRun, Stage, IngestUnderway, Sees
<1> DEFINE new == WithComplete(db, job[i].run)
<1>3. Commit(i, new, "none")
  BY <1>2 DEF FinishRun
<1>4. /\ new \in Databases
      /\ new.runs = [db.runs EXCEPT ![job[i].run].status = "complete"]
      /\ new.fetches = db.fetches /\ new.rows = db.rows /\ new.digests = db.digests
  BY <1>1, <1>2, WithCompleteFacts DEF Going, WithComplete, Databases
<1>5. Covered(db, job[i].run, {})
  BY <1>1, <1>2 DEF IngestUnderway
<1> QED BY <1>1, <1>2, <1>3, <1>4, <1>5, CommitRecords DEF Covered

LEMMA FinishRunStages ==
    ASSUME IInv, RInv, NEW i \in Ingests, FinishRun(i)
    PROVE  RInv'
<1>1. TypeOK /\ IngestUnderway(i) /\ Stage(i) /\ i \in Conns /\ i \notin Digests
  BY IngestsAndDigests DEF IInv, Underway, RInv
<1>2. /\ pc[i] = "finish" /\ tx[i] = "writing" /\ UNCHANGED <<job, verdict, slateFinal>>
  BY <1>1 DEF FinishRun, IngestUnderway
<1>3. /\ pc'[i] = "done"
      /\ \A o \in Conns \ {i} : pc'[o] = pc[o] /\ tx'[o] = tx[o] /\ view'[o] = view[o]
  BY <1>1 DEF FinishRun, Goes, Commit, TypeOK
<1>4. Stage(i)'
  BY <1>1, <1>2, <1>3 DEF Stage
<1>5. ASSUME NEW j \in Ingests \ {i} PROVE RunUntouched(j)
  <2>1. pc[j] \in Working => job[j].run # job[i].run
    BY <1>2 DEF RInv, OwnRuns, Working
  <2> QED BY <2>1, FinishRunCommits DEF RunUntouched
<1>6. \A o \in Conns \ {i} : tx[o] # "writing"
  BY <1>1, <1>2, OneWriter
<1>7. pc'[i] \notin Working
  BY <1>3 DEF Working
<1> QED BY <1>1, <1>2, <1>3, <1>4, <1>5, <1>6, <1>7, OneStages
-----------------------------------------------------------------------------
\* The digest's steps, and the ways to end.

LEMMA TrustedVouches ==
    ASSUME NEW d, Trusted(d) # 0
    PROVE  Vouches(d, Trusted(d))
BY DEF Trusted

LEMMA ReadMorningStages ==
    ASSUME IInv, RInv, NEW d \in Digests, ReadMorning(d)
    PROVE  RInv'
<1>1. TypeOK /\ d \in Conns /\ d \notin Ingests
  BY IngestsAndDigests DEF IInv
<1>2. /\ UNCHANGED <<db, job, slateFinal>>
      /\ verdict'[d].cites = (IF slateFinal THEN Trusted(db) ELSE 0)
      /\ \A o \in Digests \ {d} : verdict'[o] = verdict[o]
  BY <1>1 DEF ReadMorning, TypeOK
<1>3. /\ pc'[d] = "persist" /\ view'[d] = db
      /\ \A o \in Conns \ {d} : pc'[o] = pc[o] /\ tx'[o] = tx[o] /\ view'[o] = view[o]
  BY <1>1 DEF ReadMorning, Goes, ReadFirst, TypeOK
<1>4. DigestStage(d)'
  BY <1>2, <1>3, TrustedVouches DEF DigestStage, Vouches, IsNewest, Covering
<1> QED BY <1>1, <1>2, <1>3, <1>4, QuietDatabase, OneStages

LEMMA PersistStages ==
    ASSUME IInv, RInv, NEW d \in Digests, Persist(d)
    PROVE  RInv'
<1>1. TypeOK /\ DigestUnderway(d) /\ DigestStage(d) /\ d \in Conns /\ d \notin Ingests
  BY IngestsAndDigests DEF IInv, DigestsUnderway, RInv
<1>2. /\ pc[d] = "persist" /\ MayWrite(d) /\ tx[d] = "reading"
      /\ Write(d, WithDigest(Sees(d), verdict[d]))
      /\ UNCHANGED <<db, job, verdict, slateFinal>>
  BY <1>1 DEF Persist, Write, DigestUnderway
<1>3. Sees(d) = db /\ view[d] = db
  BY <1>1, <1>2, UpgradeSeesAll DEF Sees
<1>4. /\ pc'[d] = "commit" /\ view'[d] = WithDigest(db, verdict[d])
      /\ \A o \in Conns \ {d} : pc'[o] = pc[o] /\ tx'[o] = tx[o] /\ view'[o] = view[o]
  BY <1>1, <1>2, <1>3 DEF Persist, Goes, Write, TypeOK
<1>5. DigestStage(d)'
  <2>1. view'[d] = WithDigest(db, verdict[d])'
    BY <1>2, <1>4 DEF WithDigest
  <2>2. verdict[d].read = db.rows[ThisWeek]
    BY <1>1, <1>2, <1>3 DEF DigestUnderway
  <2>3. verdict[d].cites # 0 => slateFinal /\ Vouches(db, verdict[d].cites)
    BY <1>1, <1>2, <1>3 DEF DigestStage
  <2> QED BY <1>2, <1>4, <2>1, <2>2, <2>3 DEF DigestStage, Vouches, IsNewest, Covering
<1> QED BY <1>1, <1>2, <1>4, <1>5, QuietDatabase, OneStages

\* What the digest commits is one row more.
LEMMA CommitDigestCommits ==
    ASSUME IInv, RInv, NEW d \in Digests, CommitDigest(d)
    PROVE  /\ db'.runs = db.runs /\ db'.fetches = db.fetches /\ db'.rows = db.rows
           /\ db'.digests = Append(db.digests, verdict[d])
           /\ verdict[d] \in Verdicts
           /\ verdict[d].read = db.rows[ThisWeek]
           /\ verdict[d].cites # 0 => slateFinal /\ Vouches(db, verdict[d].cites)
<1>1. /\ TypeOK /\ DigestStage(d) /\ pc[d] = "commit" /\ db \in Databases
      /\ verdict[d] \in Verdicts
  BY DEF IInv, RInv, TypeOK, CommitDigest
<1> DEFINE new == WithDigest(db, verdict[d])
<1>2. Commit(d, new, "none")
  BY <1>1 DEF CommitDigest, DigestStage
<1>3. /\ new \in Databases
      /\ new.runs = db.runs /\ new.fetches = db.fetches /\ new.rows = db.rows
      /\ new.digests = Append(db.digests, verdict[d])
  BY <1>1, WithDigestFacts DEF WithDigest, Databases
<1> QED BY <1>1, <1>2, <1>3, CommitRecords DEF DigestStage

LEMMA CommitDigestStages ==
    ASSUME IInv, RInv, NEW d \in Digests, CommitDigest(d)
    PROVE  RInv'
<1>1. TypeOK /\ DigestUnderway(d) /\ d \in Conns /\ d \notin Ingests
  BY IngestsAndDigests DEF IInv, DigestsUnderway
<1>2. tx[d] = "writing" /\ UNCHANGED <<job, verdict, slateFinal>>
  BY <1>1 DEF CommitDigest, DigestUnderway
<1>3. /\ pc'[d] = "done"
      /\ \A o \in Conns \ {d} : pc'[o] = pc[o] /\ tx'[o] = tx[o] /\ view'[o] = view[o]
  BY <1>1 DEF CommitDigest, Goes, Commit, TypeOK
<1>4. DigestStage(d)'
  BY <1>3 DEF DigestStage
<1>5. \A i \in Ingests : RunUntouched(i)
  BY CommitDigestCommits DEF RunUntouched
<1>6. \A o \in Conns \ {d} : tx[o] # "writing"
  BY <1>1, <1>2, OneWriter
<1> QED BY <1>1, <1>2, <1>3, <1>4, <1>5, <1>6, OneStages

\* Before its run an ingest has fetched nothing, and after its end it has none.
LEMMA OpeningStages ==
    ASSUME IInv, RInv, NEW i \in Ingests, OpenIngest(i) \/ CheckIdentity(i)
    PROVE  RInv'
<1>1. TypeOK /\ Stage(i) /\ i \in Conns /\ i \notin Digests
  BY IngestsAndDigests DEF IInv, RInv
<1>2. /\ UNCHANGED <<db, job, verdict, slateFinal>> /\ pc'[i] \in {"league", "start"}
      /\ \A o \in Conns \ {i} : pc'[o] = pc[o] /\ tx'[o] = tx[o] /\ view'[o] = view[o]
  BY <1>1 DEF OpenIngest, CheckIdentity, Begin, ReadFirst, Goes, TypeOK
<1>3. Stage(i)' /\ pc'[i] \notin Working
  BY <1>1, <1>2 DEF Stage, Working
<1> QED BY <1>1, <1>2, <1>3, QuietDatabase, OneStages

LEMMA EndingStages ==
    ASSUME IInv, RInv, NEW c \in Conns, Refused(c) \/ TimesOut(c) \/ Dies(c)
    PROVE  RInv'
<1>1. /\ UNCHANGED <<db, job, verdict, slateFinal>> /\ pc'[c] \in {"refused", "timedout", "failed"}
      /\ \A o \in Conns \ {c} : pc'[o] = pc[o] /\ tx'[o] = tx[o] /\ view'[o] = view[o]
  BY DEF Refused, TimesOut, Dies, Rollback, Goes, IInv, TypeOK
<1>2. ASSUME c \in Ingests PROVE Stage(c)' /\ pc'[c] \notin Working
  BY <1>1, <1>2 DEF Stage, Working, RInv
<1>3. ASSUME c \in Digests PROVE DigestStage(c)'
  BY <1>1, <1>3 DEF DigestStage
<1> QED BY <1>1, <1>2, <1>3, QuietDatabase, OneStages

LEMMA InitiallyStaged == Init => RInv
BY ConnsAssumption DEF Init, RInv, Stage, OwnRuns, DigestStage, Working, NoJob, NoStats, Conns

LEMMA NextStages == IInv /\ RInv /\ [Next]_vars => RInv'
<1> SUFFICES ASSUME IInv, RInv, [Next]_vars PROVE RInv'
  OBVIOUS
<1>1. ASSUME NEW i \in Ingests, OpenIngest(i) \/ IngestStep(i) PROVE RInv'
  BY <1>1, OpeningStages, StartRunStages, FetchWeekStages, StoreWeekStages, CheckpointStages,
     RefreshRowKindsStages, FinishRunStages DEF IngestStep
<1>2. ASSUME NEW d \in Digests, ReadMorning(d) \/ DigestStep(d) PROVE RInv'
  BY <1>2, ReadMorningStages, PersistStages, CommitDigestStages DEF DigestStep
<1>3. ASSUME NEW c \in Conns, Refused(c) \/ TimesOut(c) \/ Dies(c) PROVE RInv'
  BY <1>3, EndingStages
<1>4. CASE SlateCompletes \/ UNCHANGED vars
  <2>1. UNCHANGED <<db, writer, tx, view, pc, job, verdict>> /\ (slateFinal => slateFinal')
    BY <1>4 DEF SlateCompletes, vars
  <2>2. \A i \in Ingests : Stage(i)'
    BY <2>1, StageUndisturbed DEF RInv, IInv, Underway
  <2>3. \A d \in Digests : DigestStage(d)'
    BY <2>1, DigestStageUndisturbed DEF RInv, IInv, DigestsUnderway
  <2>4. OwnRuns'
    BY <2>1 DEF RInv, OwnRuns
  <2> QED BY <2>2, <2>3, <2>4 DEF RInv
<1> QED BY <1>1, <1>2, <1>3, <1>4 DEF Next
-----------------------------------------------------------------------------
\* Every step is a step of AtomicStore, or none: only commits change what it sees.

LEMMA InitRefines == Init => Atomic!Init
<1> SUFFICES ASSUME Init PROVE Atomic!Init
  OBVIOUS
<1>1. db = Yesterday /\ slateFinal = FALSE
  BY DEF Init
<1>2. /\ db.runs = <<[weeks |-> Weeks, status |-> "complete", skipsNba |-> FALSE]>>
      /\ db.fetches = {[run |-> 1, week |-> w, final |-> FALSE] : w \in Weeks}
      /\ db.rows = [w \in Weeks |-> [run |-> 1, final |-> FALSE]]
      /\ db.digests = <<>>
  BY <1>1 DEF Yesterday
<1> QED BY <1>1, <1>2 DEF Atomic!Init

LEMMA CheckpointRefines ==
    ASSUME IInv, RInv, NEW i \in Ingests, Checkpoint(i)
    PROVE  Atomic!Next
<1> DEFINE w == job[i].stats.week
           final == job[i].stats.final
<1>1. CheckpointChange(i) /\ w \in Weeks /\ db'.digests = db.digests
  BY CheckpointCommits
<1>2. UNCHANGED slateFinal /\ final \in BOOLEAN /\ pc[i] = "checkpoint"
  BY DEF Checkpoint, IInv, TypeOK, Jobs
<1>3. final => slateFinal
  BY DEF RInv, Stage
<1>4. Atomic!Holds(job[i].run, w, final)
  BY <1>3, CheckpointCommits DEF Atomic!Holds
<1>5. CASE Going(i) /\ db'.runs = db.runs
  <2>1. Atomic!NextWeek(job[i].run, w, final)
    BY <1>1, <1>2, <1>4, <1>5 DEF Atomic!NextWeek, Going, InHand
  <2> QED BY <1>1, <1>2, <1>5, <2>1 DEF Atomic!Next, Going
<1>6. ASSUME NEW weeks \in SUBSET Weeks, NEW skipsNba \in BOOLEAN, Fresh(i, weeks),
             db'.runs = Append(db.runs, NewRun(weeks, skipsNba))
      PROVE  Atomic!Next
  <2>1. w \in weeks /\ job[i].run = Len(db.runs) + 1
    BY <1>2, <1>6 DEF Fresh, InHand
  <2>2. Atomic!FirstWeek(weeks, skipsNba, w, final)
    BY <1>1, <1>2, <1>4, <1>6, <2>1 DEF Atomic!FirstWeek, NewRun
  <2> QED BY <1>2, <2>1, <2>2 DEF Atomic!Next
<1> QED BY <1>1, <1>5, <1>6 DEF CheckpointChange

LEMMA FinishRunRefines ==
    ASSUME IInv, RInv, NEW i \in Ingests, FinishRun(i)
    PROVE  Atomic!Next
<1>1. UNCHANGED slateFinal
  BY DEF FinishRun
<1>2. job[i].run \in DOMAIN db.runs /\ Atomic!Complete(job[i].run)
  BY <1>1, FinishRunCommits DEF Atomic!Complete, Going
<1> QED BY <1>2 DEF Atomic!Next

LEMMA CommitDigestRefines ==
    ASSUME IInv, RInv, NEW d \in Digests, CommitDigest(d)
    PROVE  Atomic!Next
<1> DEFINE cites == verdict[d].cites
<1>1. UNCHANGED slateFinal
  BY DEF CommitDigest
<1>2. verdict[d] = [cites |-> cites, read |-> db.rows[ThisWeek]]
  BY CommitDigestCommits DEF Verdicts
<1>3. DOMAIN db.runs = 1..Len(db.runs) /\ Len(db.runs) \in Nat
  BY DEF IInv, TypeOK, Databases
<1>4. cites # 0 => cites \in DOMAIN db.runs /\ Atomic!Vouches(cites)
  BY CommitDigestCommits DEF Vouches, FetchedFinal, IsNewest, Covering, Atomic!Vouches
<1>5. Atomic!Advise(cites)
  BY <1>1, <1>2, <1>4, CommitDigestCommits DEF Atomic!Advise
<1>6. cites \in 0..Len(db.runs)
  BY <1>3, <1>4
<1> QED BY <1>5, <1>6 DEF Atomic!Next

LEMMA NextRefines == IInv /\ RInv /\ [Next]_vars => [Atomic!Next]_Atomic!vars
<1> SUFFICES ASSUME IInv, RInv, [Next]_vars PROVE [Atomic!Next]_Atomic!vars
  OBVIOUS
<1>1. CASE UNCHANGED <<db, slateFinal>>
  BY <1>1 DEF Atomic!vars
<1>2. CASE SlateCompletes
  BY <1>2 DEF SlateCompletes, Atomic!Next, Atomic!SlateCompletes
<1>3. ASSUME NEW i \in Ingests, OpenIngest(i) \/ IngestStep(i), ~ UNCHANGED <<db, slateFinal>>
      PROVE  Atomic!Next
  <2>1. Checkpoint(i) \/ FinishRun(i)
    BY <1>3 DEF IngestStep, OpenIngest, CheckIdentity, StartRun, FetchWeek, StoreWeek,
       RefreshRowKinds, Write
  <2> QED BY <2>1, CheckpointRefines, FinishRunRefines
<1>4. ASSUME NEW d \in Digests, ReadMorning(d) \/ DigestStep(d), ~ UNCHANGED <<db, slateFinal>>
      PROVE  Atomic!Next
  <2>1. CommitDigest(d)
    BY <1>4 DEF DigestStep, ReadMorning, Persist, Write
  <2> QED BY <2>1, CommitDigestRefines
<1>5. ASSUME NEW c \in Conns, Refused(c) \/ TimesOut(c) \/ Dies(c)
      PROVE  UNCHANGED <<db, slateFinal>>
  BY <1>5 DEF Refused, TimesOut, Dies, Rollback
<1>6. UNCHANGED vars => UNCHANGED <<db, slateFinal>>
  BY DEF vars
<1> QED BY <1>1, <1>2, <1>3, <1>4, <1>5, <1>6 DEF Next

-----------------------------------------------------------------------------
\* What every transaction is about to commit, in every behaviour.
THEOREM StagedInvariance == Spec => []RInv
BY InitiallyStaged, NextStages, Invariance, PTL DEF Spec

\* The shared database behaves as the atomic one: for any ingests, digests and
\* weeks, whatever overlaps, waits, is refused or dies (lockin/store/db.py session
\* and checkpoint, lockin/ingest/run.py, lockin/digest.py stats_evidence, persist).
THEOREM CommitsLookAtomic == Spec => CommitsAreAtomic
BY InitRefines, NextRefines, Invariance, StagedInvariance, PTL
   DEF Spec, CommitsAreAtomic, Atomic!Spec

-----------------------------------------------------------------------------
\* What the week's rows are: of a run on record that covers the week and fetched it
\* once, and its fetch was as the rows say.

\* The weeks an ingest has yet to commit.
Due(i) == job[i].left \cup (IF pc[i] \in InHand THEN {job[i].stats.week} ELSE {})

Unfetched(i) ==
    pc[i] \in Working =>
        /\ \A f \in db.fetches : f.run = job[i].run => f.week \notin Due(i)
        /\ pc[i] \in InHand => job[i].stats.week \notin job[i].left

FetchOf(w, row) == [run |-> row.run, week |-> w, final |-> row.final]

FetchedInv ==
    /\ \A i \in Ingests : Unfetched(i)
    /\ \A f \in db.fetches : f.run \in DOMAIN db.runs
    /\ \A f, g \in db.fetches : f.run = g.run /\ f.week = g.week => f.final = g.final
    /\ \A w \in Weeks : /\ FetchOf(w, db.rows[w]) \in db.fetches
                        /\ w \in db.runs[db.rows[w].run].weeks
    /\ VouchedRowsAreNoNewer

LEMMA InitiallyFetched == Init => FetchedInv
<1> SUFFICES ASSUME Init PROVE FetchedInv
  OBVIOUS
<1>1. /\ db.runs = <<[weeks |-> Weeks, status |-> "complete", skipsNba |-> FALSE]>>
      /\ db.fetches = {[run |-> 1, week |-> w, final |-> FALSE] : w \in Weeks}
      /\ db.rows = [w \in Weeks |-> [run |-> 1, final |-> FALSE]]
      /\ db.digests = <<>>
  BY DEF Init, Yesterday
<1>2. \A i \in Ingests : pc[i] \notin Working
  BY DEF Init, Working, Conns
<1>3. VouchedRowsAreNoNewer
  BY <1>1 DEF VouchedRowsAreNoNewer
<1> DEFINE first == [weeks |-> Weeks, status |-> "complete", skipsNba |-> FALSE]
<1>4. db.runs = <<first>>
  BY <1>1
<1>5. first.weeks = Weeks
  OBVIOUS
<1> HIDE DEF first
<1>6. 1 \in DOMAIN db.runs /\ db.runs[1] = first
  BY <1>4
<1>7. \A f \in db.fetches : f.run = 1 /\ f.final = FALSE
  BY <1>1
<1>8. ASSUME NEW w \in Weeks
      PROVE  /\ FetchOf(w, db.rows[w]) \in db.fetches
             /\ w \in db.runs[db.rows[w].run].weeks
  <2>1. db.rows[w] = [run |-> 1, final |-> FALSE]
    BY <1>1
  <2>2. FetchOf(w, db.rows[w]) = [run |-> 1, week |-> w, final |-> FALSE]
    BY <2>1 DEF FetchOf
  <2>3. FetchOf(w, db.rows[w]) \in db.fetches
    BY <1>1, <2>2
  <2>4. db.rows[w].run = 1
    BY <2>1
  <2> QED BY <1>5, <1>6, <2>3, <2>4
<1>9. /\ \A f \in db.fetches : f.run \in DOMAIN db.runs
      /\ \A f, g \in db.fetches : f.run = g.run /\ f.week = g.week => f.final = g.final
  BY <1>6, <1>7
<1> QED BY <1>2, <1>3, <1>9, <1>8 DEF FetchedInv, Unfetched

\* A step that leaves the database alone: the weeks due only dwindle.
LEMMA QuietFetched ==
    ASSUME FetchedInv, UNCHANGED db,
           \A i \in Ingests : Unfetched(i)'
    PROVE  FetchedInv'
BY DEF FetchedInv, VouchedRowsAreNoNewer, FetchOf

LEMMA StartRunFetched ==
    ASSUME IInv, RInv, FetchedInv, NEW i \in Ingests, StartRun(i)
    PROVE  FetchedInv'
<1>1. TypeOK /\ IngestUnderway(i) /\ i \in Conns
  BY DEF IInv, Underway, Conns
<1>2. PICK weeks \in SUBSET Weeks, skipsNba \in BOOLEAN :
        /\ Write(i, WithRun(view[i], weeks, skipsNba))
        /\ job' = [job EXCEPT ![i] =
               [left |-> weeks, run |-> Len(view[i].runs) + 1, stats |-> NoStats]]
  BY WeeksAssumption DEF StartRun
<1>3. tx[i] = "reading" /\ Sees(i) = view[i] /\ MayWrite(i)
  BY <1>1, <1>2 DEF StartRun, IngestUnderway, Sees, Write
<1>4. view[i] = db
  BY <1>1, <1>3, UpgradeSeesAll
<1>5. /\ job'[i].run = Len(db.runs) + 1
      /\ \A j \in Ingests \ {i} : job'[j] = job[j] /\ pc'[j] = pc[j]
      /\ pc'[i] = "fetch" /\ UNCHANGED db
  BY <1>1, <1>2, <1>4 DEF TypeOK, StartRun, Goes, Write, Conns
<1>6. \A f \in db.fetches : f.run # Len(db.runs) + 1
  BY <1>1 DEF FetchedInv, TypeOK, Databases
<1>7. \A j \in Ingests : Unfetched(j)'
  BY <1>5, <1>6 DEF FetchedInv, Unfetched, Due, InHand
<1> QED BY <1>5, <1>7, QuietFetched

LEMMA FetchWeekFetched ==
    ASSUME IInv, RInv, FetchedInv, NEW i \in Ingests, FetchWeek(i)
    PROVE  FetchedInv'
<1>1. TypeOK /\ i \in Conns
  BY DEF IInv, Conns
<1>2. PICK w \in job[i].left :
        job' = [job EXCEPT ![i].left = @ \ {w},
                           ![i].stats = [week |-> w, final |-> slateFinal]]
  BY DEF FetchWeek
<1>3. /\ job'[i].left = job[i].left \ {w} /\ job'[i].run = job[i].run
      /\ job'[i].stats.week = w
      /\ \A j \in Ingests \ {i} : job'[j] = job[j] /\ pc'[j] = pc[j]
      /\ pc[i] = "fetch" /\ pc'[i] = "store" /\ UNCHANGED db
  BY <1>1, <1>2 DEF TypeOK, Jobs, FetchWeek, Goes, Conns
<1>4. \A j \in Ingests \ {i} : Unfetched(j)'
  BY <1>3 DEF FetchedInv, Unfetched, Due
<1>5. Unfetched(i) /\ Due(i) = job[i].left /\ Due(i)' = Due(i)
  BY <1>2, <1>3 DEF FetchedInv, Due, InHand
<1>6. Unfetched(i)'
  BY <1>3, <1>5 DEF Unfetched, Working
<1> QED BY <1>3, <1>4, <1>6, QuietFetched

\* An ingest that leaves its run and its weeks alone.
LEMMA SameJobFetched ==
    ASSUME FetchedInv, UNCHANGED <<db, job>>,
           \A i \in Ingests : pc'[i] \in Working =>
               /\ pc[i] \in Working
               /\ pc[i] \in InHand <=> pc'[i] \in InHand
    PROVE  FetchedInv'
<1>1. \A i \in Ingests : Unfetched(i)'
  BY DEF FetchedInv, Unfetched, Due
<1> QED BY <1>1, QuietFetched

LEMMA CheckpointFetched ==
    ASSUME IInv, RInv, FetchedInv, NEW i \in Ingests, Checkpoint(i)
    PROVE  FetchedInv'
<1> DEFINE r == job[i].run
           w == job[i].stats.week
           final == job[i].stats.final
           new == [run |-> r, week |-> w, final |-> final]
<1>1. /\ TypeOK /\ i \in Conns /\ CheckpointChange(i) /\ w \in Weeks
      /\ db'.fetches = db.fetches \cup {new}
      /\ db'.rows = [db.rows EXCEPT ![w] = [run |-> r, final |-> final]]
      /\ db'.digests = db.digests
      /\ db.rows \in [Weeks -> Rows] /\ db.runs \in Seq(Runs)
  BY CheckpointCommits DEF IInv, Conns, TypeOK, Databases
<1>2. /\ pc[i] = "checkpoint" /\ pc'[i] \in {"kinds", "fetch"} /\ UNCHANGED job
      /\ \A j \in Ingests \ {i} : pc'[j] = pc[j]
  BY <1>1 DEF Checkpoint, Goes, TypeOK, Conns
<1>3. /\ DOMAIN db.runs \subseteq DOMAIN db'.runs
      /\ \A s \in DOMAIN db.runs : db'.runs[s] = db.runs[s]
      /\ r \in DOMAIN db'.runs /\ w \in db'.runs[r].weeks
  <2>1. CASE Going(i) /\ db'.runs = db.runs
    BY <1>2, <2>1 DEF Going, InHand
  <2>2. ASSUME NEW weeks \in SUBSET Weeks, NEW skipsNba \in BOOLEAN, Fresh(i, weeks),
               db'.runs = Append(db.runs, NewRun(weeks, skipsNba))
        PROVE  <1>3!:
    <3>1. /\ Len(db.runs) \in Nat /\ DOMAIN db.runs = 1..Len(db.runs)
          /\ DOMAIN db'.runs = 1..(Len(db.runs) + 1)
          /\ \A s \in DOMAIN db.runs : db'.runs[s] = db.runs[s]
          /\ db'.runs[Len(db.runs) + 1] = NewRun(weeks, skipsNba)
      BY <1>1, <2>2
    <3>2. r = Len(db.runs) + 1 /\ w \in weeks
      BY <1>2, <2>2 DEF Fresh, InHand
    <3> QED BY <3>1, <3>2 DEF NewRun
  <2> QED BY <1>1, <2>1, <2>2 DEF CheckpointChange
<1>4. \A f \in db.fetches : f.run = r => f.week # w
  BY <1>2 DEF FetchedInv, Unfetched, Due, Working, InHand
<1> HIDE DEF r, w, final
<1>5. \A f \in db'.fetches : f.run \in DOMAIN db'.runs
  BY <1>1, <1>3 DEF FetchedInv
<1>6. \A f, g \in db'.fetches : f.run = g.run /\ f.week = g.week => f.final = g.final
  BY <1>1, <1>4 DEF FetchedInv
<1>7. ASSUME NEW x \in Weeks
      PROVE  /\ FetchOf(x, db'.rows[x]) \in db'.fetches
             /\ x \in db'.runs[db'.rows[x].run].weeks
  <2>1. CASE x = w
    <3>1. db'.rows[x] = [run |-> r, final |-> final]
      BY <1>1, <2>1
    <3> QED BY <1>1, <1>3, <2>1, <3>1 DEF FetchOf
  <2>2. CASE x # w
    <3>1. db'.rows[x] = db.rows[x]
      BY <1>1, <2>2
    <3>2. FetchOf(x, db.rows[x]) \in db.fetches /\ x \in db.runs[db.rows[x].run].weeks
      BY DEF FetchedInv
    <3>3. db.rows[x].run \in DOMAIN db.runs
      BY <3>2 DEF FetchedInv, FetchOf
    <3> QED BY <1>1, <1>3, <3>1, <3>2, <3>3
  <2> QED BY <2>1, <2>2
<1>8. VouchedRowsAreNoNewer'
  BY <1>1 DEF FetchedInv, VouchedRowsAreNoNewer
<1>9. ASSUME NEW j \in Ingests PROVE Unfetched(j)'
  <2>1. CASE j = i
    <3>1. Due(j)' = job[i].left /\ pc'[j] \notin InHand
      BY <1>2, <2>1 DEF Due, InHand
    <3>2. w \notin job[i].left /\ \A f \in db.fetches : f.run = r => f.week \notin job[i].left
      BY <1>2 DEF FetchedInv, Unfetched, Due, Working, InHand, w, r
    <3> QED BY <1>1, <1>2, <2>1, <3>1, <3>2 DEF Unfetched, r
  <2>2. CASE j # i
    <3>1. pc[j] \in Working => job[j].run # r
      BY <1>2, <2>2 DEF RInv, OwnRuns, Working, r
    <3>2. Unfetched(j) /\ pc'[j] = pc[j] /\ job'[j] = job[j]
      BY <1>2, <2>2 DEF FetchedInv
    <3> QED BY <1>1, <3>1, <3>2 DEF Unfetched, Due
  <2> QED BY <2>1, <2>2
<1>10. (\A x \in Weeks : /\ FetchOf(x, db.rows[x]) \in db.fetches
                         /\ x \in db.runs[db.rows[x].run].weeks)'
  BY <1>7 DEF FetchOf
<1> QED BY <1>5, <1>6, <1>8, <1>9, <1>10 DEF FetchedInv

LEMMA FinishRunFetched ==
    ASSUME IInv, RInv, FetchedInv, NEW i \in Ingests, FinishRun(i)
    PROVE  FetchedInv'
<1>1. /\ TypeOK /\ i \in Conns /\ Going(i)
      /\ db'.runs = [db.runs EXCEPT ![job[i].run].status = "complete"]
      /\ db'.fetches = db.fetches /\ db'.rows = db.rows /\ db'.digests = db.digests
      /\ db.runs \in Seq(Runs)
  BY FinishRunCommits DEF IInv, Conns, TypeOK, Databases
<1>2. UNCHANGED job /\ pc'[i] = "done" /\ \A j \in Ingests \ {i} : pc'[j] = pc[j]
  BY <1>1 DEF FinishRun, Goes, TypeOK, Conns
<1>3. /\ DOMAIN db'.runs = DOMAIN db.runs
      /\ \A s \in DOMAIN db.runs : db'.runs[s].weeks = db.runs[s].weeks
  BY <1>1 DEF Going, Runs
<1>4. \A j \in Ingests : Unfetched(j)'
  BY <1>1, <1>2 DEF FetchedInv, Unfetched, Due, Working
<1>5. VouchedRowsAreNoNewer'
  BY <1>1 DEF FetchedInv, VouchedRowsAreNoNewer
<1>6. \A x \in Weeks : db.rows[x].run \in DOMAIN db.runs
  BY DEF FetchedInv, FetchOf
<1>7. (\A x \in Weeks : /\ FetchOf(x, db.rows[x]) \in db.fetches
                        /\ x \in db.runs[db.rows[x].run].weeks)'
  BY <1>1, <1>3, <1>6 DEF FetchedInv, FetchOf
<1>8. /\ \A f \in db'.fetches : f.run \in DOMAIN db'.runs
      /\ \A f, g \in db'.fetches : f.run = g.run /\ f.week = g.week => f.final = g.final
  BY <1>1, <1>3 DEF FetchedInv
<1> QED BY <1>4, <1>5, <1>7, <1>8 DEF FetchedInv

\* A digest records rows that are its run's, of the fetch that vouches for it, or
\* those of a run before.
LEMMA CommitDigestFetched ==
    ASSUME IInv, RInv, FetchedInv, NEW d \in Digests, CommitDigest(d)
    PROVE  FetchedInv'
<1> DEFINE given == verdict[d]
           row == db.rows[ThisWeek]
<1>1. /\ TypeOK /\ d \in Conns /\ d \notin Ingests
      /\ db'.runs = db.runs /\ db'.fetches = db.fetches /\ db'.rows = db.rows
      /\ db'.digests = Append(db.digests, given)
      /\ given \in Verdicts /\ given.read = row
      /\ given.cites # 0 => Vouches(db, given.cites)
      /\ db.digests \in Seq(Verdicts) /\ db.runs \in Seq(Runs) /\ ThisWeek \in Weeks
  BY CommitDigestCommits, IngestsAndDigests, WeeksAssumption DEF IInv, TypeOK, Databases
<1>2. UNCHANGED job /\ \A j \in Ingests : pc'[j] = pc[j]
  BY <1>1 DEF CommitDigest, Goes, TypeOK, Conns
<1>3. /\ FetchOf(ThisWeek, row) \in db.fetches /\ ThisWeek \in db.runs[row.run].weeks
      /\ row.run \in DOMAIN db.runs
  BY <1>1 DEF FetchedInv, FetchOf
<1> HIDE DEF given, row
<1>4. ASSUME given.cites # 0
      PROVE  given.read.run <= given.cites /\ (given.read.run = given.cites => given.read.final)
  <2>1. IsNewest(db, ThisWeek, given.cites) /\ FetchedFinal(db, given.cites, ThisWeek)
    BY <1>1, <1>4 DEF Vouches
  <2>2. row.run <= given.cites
    BY <1>3, <2>1 DEF IsNewest, Covering
  <2>3. row.run = given.cites => row.final
    BY <1>3, <2>1 DEF FetchedFinal, FetchOf, FetchedInv
  <2> QED BY <1>1, <2>2, <2>3
<1>5. VouchedRowsAreNoNewer'
  <2> SUFFICES ASSUME NEW n \in DOMAIN db'.digests, db'.digests[n].cites # 0
               PROVE  /\ db'.digests[n].read.run <= db'.digests[n].cites
                      /\ db'.digests[n].read.run = db'.digests[n].cites => db'.digests[n].read.final
    BY DEF VouchedRowsAreNoNewer
  <2>1. CASE n \in DOMAIN db.digests
    <3>1. db'.digests[n] = db.digests[n]
      BY <1>1, <2>1
    <3> QED BY <2>1, <3>1 DEF FetchedInv, VouchedRowsAreNoNewer
  <2>2. CASE n \notin DOMAIN db.digests
    <3>1. db'.digests[n] = given
      BY <1>1, <2>2
    <3> QED BY <1>4, <3>1
  <2> QED BY <2>1, <2>2
<1>6. \A j \in Ingests : Unfetched(j)'
  BY <1>1, <1>2 DEF FetchedInv, Unfetched, Due
<1>7. (\A x \in Weeks : /\ FetchOf(x, db.rows[x]) \in db.fetches
                        /\ x \in db.runs[db.rows[x].run].weeks)'
  BY <1>1 DEF FetchedInv, FetchOf
<1>8. /\ \A f \in db'.fetches : f.run \in DOMAIN db'.runs
      /\ \A f, g \in db'.fetches : f.run = g.run /\ f.week = g.week => f.final = g.final
  BY <1>1 DEF FetchedInv
<1> QED BY <1>5, <1>6, <1>7, <1>8 DEF FetchedInv

LEMMA NextFetched == IInv /\ RInv /\ FetchedInv /\ [Next]_vars => FetchedInv'
<1> SUFFICES ASSUME IInv, RInv, FetchedInv, [Next]_vars PROVE FetchedInv'
  OBVIOUS
<1>1. ASSUME NEW i \in Ingests, OpenIngest(i) \/ IngestStep(i) PROVE FetchedInv'
  <2>1. CASE OpenIngest(i) \/ CheckIdentity(i) \/ StoreWeek(i) \/ RefreshRowKinds(i)
    <3>1. UNCHANGED <<db, job>>
      BY <2>1 DEF OpenIngest, CheckIdentity, StoreWeek, RefreshRowKinds, Write
    <3>2. \A j \in Ingests : pc'[j] \in Working =>
             /\ pc[j] \in Working
             /\ pc[j] \in InHand <=> pc'[j] \in InHand
      BY <2>1 DEF OpenIngest, CheckIdentity, StoreWeek, RefreshRowKinds, Goes, Working, InHand,
                  IInv, TypeOK, Conns
    <3> QED BY <3>1, <3>2, SameJobFetched
  <2> QED BY <1>1, <2>1, StartRunFetched, FetchWeekFetched, CheckpointFetched, FinishRunFetched
          DEF IngestStep
<1>2. ASSUME NEW d \in Digests, ReadMorning(d) \/ DigestStep(d) PROVE FetchedInv'
  <2>1. CASE ReadMorning(d) \/ Persist(d)
    <3>1. UNCHANGED <<db, job>>
      BY <2>1 DEF ReadMorning, Persist, Write
    <3>2. \A j \in Ingests : pc'[j] = pc[j]
      BY <2>1, IngestsAndDigests DEF ReadMorning, Persist, Goes, IInv, TypeOK, Conns
    <3> QED BY <3>1, <3>2, SameJobFetched
  <2> QED BY <1>2, <2>1, CommitDigestFetched DEF DigestStep
<1>3. ASSUME NEW c \in Conns, Refused(c) \/ TimesOut(c) \/ Dies(c) PROVE FetchedInv'
  <2>1. UNCHANGED <<db, job>>
    BY <1>3 DEF Refused, TimesOut, Dies, Rollback
  <2>2. \A j \in Ingests : pc'[j] = pc[j] \/ pc'[j] \notin Working
    BY <1>3 DEF Refused, TimesOut, Dies, Goes, Working, IInv, TypeOK, Conns
  <2> QED BY <2>1, <2>2, SameJobFetched
<1>4. CASE SlateCompletes \/ UNCHANGED vars
  <2>1. UNCHANGED <<db, job, pc>>
    BY <1>4 DEF SlateCompletes, vars
  <2> QED BY <2>1, SameJobFetched
<1> QED BY <1>1, <1>2, <1>3, <1>4 DEF Next

\* The rows a digest advised from are those of the run it cites, fetched when the
\* slate was over, or of one before it, never of a newer run it did not cite
\* (lockin/digest.py stats_evidence; lockin/ingest/run.py, the checkpoint a week).
THEOREM VouchedRows == Spec => []VouchedRowsAreNoNewer
<1>1. FetchedInv => VouchedRowsAreNoNewer
  BY DEF FetchedInv
<1> QED BY <1>1, InitiallyFetched, NextFetched, Invariance, StagedInvariance, PTL DEF Spec
=============================================================================
