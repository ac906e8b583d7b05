------------------------------- MODULE CronGuard -------------------------------
(***************************************************************************)
(* One scheduled job under scripts/cron-guard: the guard runs the job's      *)
(* command, pushes an alert when it fails, and stamps the time when it       *)
(* succeeds, so that the run which ends an outage can report the gap.        *)
(*                                                                         *)
(* External to the repository: cron, the command, and ntfy, which may take a *)
(* push or not: curl's outcome changes nothing in the guard, so a push is     *)
(* here one that was tried.                                                *)
(*                                                                         *)
(* Abstracted: the log, the wording, and the time a step takes within a      *)
(* half-day.                                                                *)
(***************************************************************************)
EXTENDS Crontab

VARIABLES
    clock,  \* the time, in half-days
    stamp,  \* logs/.cron-guard/<job>.ok: when the job last ran clean
    pc,     \* pc[t]: the step of the run fired at t
    now,    \* now[t]: NOW of that run, taken when its command succeeded
    tried   \* times a push was tried

vars == <<clock, stamp, pc, now, tried>>

Ended      == {"clean", "failed", "killed"}
Running(t) == pc[t] \notin Ended \cup {"idle"}
Goes(t, step) == pc' = [pc EXCEPT ![t] = step]

-----------------------------------------------------------------------------
\* alert: curl, whose outcome goes to the log and never fails the run.
Alert == tried' = tried \cup {clock}
Quiet == tried' = tried

\* Cron fires the guard, which runs the command.
Fire(t) ==
    /\ t = clock
    /\ pc[t] = "idle"
    /\ Goes(t, "command")
    /\ Quiet
    /\ UNCHANGED <<clock, stamp, now>>

\* Nonzero: alert, and exit with the command's status. The stamp stands.
CommandFails(t) ==
    /\ pc[t] = "command"
    /\ Alert
    /\ Goes(t, "failed")
    /\ UNCHANGED <<clock, stamp, now>>

\* CommandSucceeds, the stamp written before it is compared.
CommandSucceedsStamped(t) ==
    /\ pc[t] = "command"
    /\ now'   = [now EXCEPT ![t] = clock]
    /\ stamp' = clock
    /\ Goes(t, "compare")
    /\ Quiet
    /\ UNCHANGED clock

\* Zero: take NOW.
CommandSucceeds(t) ==
    /\ pc[t] = "command"
    /\ now' = [now EXCEPT ![t] = clock]
    /\ Goes(t, "compare")
    /\ Quiet
    /\ UNCHANGED <<clock, stamp>>

\* Report the gap since the last stamp, when it is too long. A missing or
\* unreadable stamp reports nothing.
Compare(t) ==
    /\ pc[t] = "compare"
    /\ IF stamp # NoStamp /\ now[t] - stamp > MaxGap THEN Alert ELSE Quiet
    /\ Goes(t, "stamp")
    /\ UNCHANGED <<clock, stamp, now>>

\* Stamp the run, whether or not the report was taken. A full disk leaves the
\* file empty, and the guard exits 0 all the same.
WriteStamp(t) ==
    /\ pc[t] = "stamp"
    /\ stamp' \in {now[t], NoStamp}
    /\ Goes(t, "clean")
    /\ Quiet
    /\ UNCHANGED <<clock, now>>

\* mkdir or mktemp fails (exit 70, no alert), or the machine goes down.
Killed(t) ==
    /\ Running(t)
    /\ Goes(t, "killed")
    /\ Quiet
    /\ UNCHANGED <<clock, stamp, now>>

-----------------------------------------------------------------------------
\* What follows the command takes seconds.
Tick ==
    /\ clock < Horizon
    /\ \A t \in Firing : pc[t] \notin {"compare", "stamp"}
    /\ clock' = clock + 1
    /\ Quiet
    /\ UNCHANGED <<stamp, pc, now>>

\* The job has run clean once, at time 0.
Init ==
    /\ clock = 0
    /\ stamp = 0
    /\ pc    = [t \in Firing |-> "idle"]
    /\ now   = [t \in Firing |-> 0]
    /\ tried = {}

Run(t) ==
    \/ Fire(t)
    \/ CommandFails(t)
    \/ CommandSucceeds(t)
    \/ Compare(t)
    \/ WriteStamp(t)
    \/ Killed(t)

Next == Tick \/ \E t \in Firing : Run(t)

Spec == Init /\ [][Next]_vars

-----------------------------------------------------------------------------
\* The shape of every variable; no stamp is of a time to come.
TypeOK ==
    /\ clock \in Times
    /\ stamp \in 0..clock \cup {NoStamp}
    /\ pc \in [Firing -> Ended \cup {"idle", "command", "compare", "stamp"}]
    /\ now \in [Firing -> Times]
    /\ tried \subseteq Times

\* No stamp is replaced by one more than MaxGap later unless the later run tried
\* to report the gap, also when runs that hung overlap it.
GapIsReported ==
    [][stamp # NoStamp /\ stamp' # NoStamp /\ stamp' - stamp > MaxGap
        => \E x \in tried : x >= stamp']_vars
=============================================================================
