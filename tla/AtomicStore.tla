------------------------------ MODULE AtomicStore ------------------------------
(***************************************************************************)
(* What one season's database promises those who read it, were every commit *)
(* of an ingest and every morning's digest a single step: no transactions,  *)
(* no lock, no views, and nobody who dies half way. SharedStore implements  *)
(* it: no interleaving of ingests and digests commits anything else.        *)
(***************************************************************************)
EXTENDS Integers, Sequences

CONSTANTS
    Weeks,     \* fantasy weeks an ingest may cover
    ThisWeek   \* the week this morning's digest is about

VARIABLES
    runs,       \* the ingest runs recorded, in the order of their first commits
    fetches,    \* which run fetched which week, and whether the slate was final
    rows,       \* rows[w]: the run whose box scores the week holds
    digests,    \* the digests recorded: the run each cites, the rows it read
    slateFinal  \* last night's games are over

vars == <<runs, fetches, rows, digests, slateFinal>>

Init ==
    /\ runs = <<[weeks |-> Weeks, status |-> "complete", skipsNba |-> FALSE]>>
    /\ fetches = {[run |-> 1, week |-> w, final |-> FALSE] : w \in Weeks}
    /\ rows = [w \in Weeks |-> [run |-> 1, final |-> FALSE]]
    /\ digests = <<>>
    /\ slateFinal = FALSE

\* Run r's box scores of week w, requested once the slate was final or before.
Holds(r, w, final) ==
    /\ final => slateFinal
    /\ rows' = [rows EXCEPT ![w] = [run |-> r, final |-> final]]
    /\ fetches' = fetches \cup {[run |-> r, week |-> w, final |-> final]}

\* A run is first seen with its first week.
FirstWeek(weeks, skipsNba, w, final) ==
    /\ w \in weeks
    /\ runs' = Append(runs, [weeks |-> weeks, status |-> "running", skipsNba |-> skipsNba])
    /\ Holds(Len(runs) + 1, w, final)
    /\ UNCHANGED <<digests, slateFinal>>

\* A run still going adds another of its weeks.
NextWeek(r, w, final) ==
    /\ runs[r].status = "running"
    /\ w \in runs[r].weeks
    /\ Holds(r, w, final)
    /\ UNCHANGED <<runs, digests, slateFinal>>

\* Only a run that has fetched every week it covers is called complete.
Complete(r) ==
    /\ runs[r].status = "running"
    /\ \A w \in runs[r].weeks : \E f \in fetches : f.run = r /\ f.week = w
    /\ runs' = [runs EXCEPT ![r].status = "complete"]
    /\ UNCHANGED <<fetches, rows, digests, slateFinal>>

\* The newest run of the week, and it is one to trust.
Vouches(r) ==
    /\ runs[r].status = "complete" /\ ~ runs[r].skipsNba
    /\ ThisWeek \in runs[r].weeks
    /\ \A s \in DOMAIN runs : ThisWeek \in runs[s].weeks => s <= r
    /\ [run |-> r, week |-> ThisWeek, final |-> TRUE] \in fetches

\* A morning's digest reads and is recorded at one moment. It may abstain.
Advise(cites) ==
    /\ cites # 0 => slateFinal /\ cites \in DOMAIN runs /\ Vouches(cites)
    /\ digests' = Append(digests, [cites |-> cites, read |-> rows[ThisWeek]])
    /\ UNCHANGED <<runs, fetches, rows, slateFinal>>

SlateCompletes ==
    /\ ~ slateFinal
    /\ slateFinal' = TRUE
    /\ UNCHANGED <<runs, fetches, rows, digests>>

Next ==
    \/ \E weeks \in SUBSET Weeks, skipsNba, final \in BOOLEAN : \E w \in weeks :
          FirstWeek(weeks, skipsNba, w, final)
    \/ \E r \in DOMAIN runs, final \in BOOLEAN : \E w \in Weeks : NextWeek(r, w, final)
    \/ \E r \in DOMAIN runs : Complete(r)
    \/ \E cites \in 0..Len(runs) : Advise(cites)
    \/ SlateCompletes

Spec == Init /\ [][Next]_vars
================================================================================
