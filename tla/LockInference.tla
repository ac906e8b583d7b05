---------------------------- MODULE LockInference ----------------------------
(***************************************************************************)
(* Reading a manager's locks back out of Sleeper's counted values           *)
(* (lockin/core/locks.py, lockin/state.py).                                 *)
(*                                                                         *)
(* A player's games of a week are a function G from the days he had a game  *)
(* on to records [played, score].  The code keeps them as a list in date    *)
(* order and names a game by its ordinal; here a game is named by its day,  *)
(* which is the same order.  Scores are whole numbers of half-points: the   *)
(* code's tolerance of 0.005 is there for float noise on the half-point     *)
(* grid, where it means equality.                                           *)
(***************************************************************************)
EXTENDS Integers, FiniteSets

NoGame == 0     \* no day: days are positive

Game == [played : BOOLEAN, score : Int]

\* What a locked, riding or benched starter may be read as.
Statuses == {"locked_early", "rode_to_end", "single_game", "no_games",
             "no_lockable_game", "ambiguous", "unresolved"}

MaxDay(S) == CHOOSE d \in S : \A e \in S : e <= d

\* games[-1]: the list is in date order.
LastDay(G) == MaxDay(DOMAIN G)

\* The played games worth the counted value.
Candidates(counted, G) == {d \in DOMAIN G : G[d].played /\ G[d].score = counted}

\* What he counts having never locked: his final game, 0 if unplayed.
RideScore(G) == LET last == G[LastDay(G)]
                IN  IF last.played THEN last.score ELSE 0

Rides(counted, G) == counted = RideScore(G)

Earlier(counted, G) == Candidates(counted, G) \ {LastDay(G)}

\* A LockInference. `confidence` is 1/oneIn, and 0 when oneIn is 0; `early` is
\* locked_early, with "unknown" for None.
Inference(status, matched, candidates, oneIn, early) ==
    [status |-> status, matched |-> matched, candidates |-> candidates,
     oneIn |-> oneIn, early |-> early]

Undetermined(status, oneIn) == Inference(status, NoGame, {}, oneIn, "unknown")

\* Mutant: a zero gets no status of its own.
ReadUnexplainedStrict(counted) == Undetermined("unresolved", 0)

\* No game explains the value: a zero is a player who was in no slot when his
\* games tipped, anything else is evidence nothing here explains.
ReadUnexplained(counted) ==
    IF counted = 0 THEN Undetermined("no_lockable_game", 1)
                   ELSE Undetermined("unresolved", 0)

ReadNoGames(counted) ==
    IF counted = 0 THEN Undetermined("no_games", 1)
                   ELSE Undetermined("unresolved", 0)

ReadSingle(counted, G) ==
    IF Rides(counted, G)
    THEN Inference("single_game", LastDay(G), Candidates(counted, G), 1, "unknown")
    ELSE ReadUnexplained(counted)

\* Mutant: the ride is taken at its word, ties and all.
ReadRideTieBlind(counted, G) ==
    Inference("rode_to_end", LastDay(G), Candidates(counted, G), 1, "no")

ReadRide(counted, G) ==
    LET earlier == Earlier(counted, G)
    IN  IF earlier # {}
        THEN Inference("ambiguous", LastDay(G), Candidates(counted, G),
                       Cardinality(earlier) + 1, "unknown")
        ELSE Inference("rode_to_end", LastDay(G), Candidates(counted, G), 1, "no")

\* Riding does not explain the value, some game does.
ReadLocked(counted, G) ==
    LET candidates == Candidates(counted, G)
    IN  IF \E d \in candidates : candidates = {d}
        THEN Inference("locked_early", CHOOSE d \in candidates : TRUE,
                       candidates, 1, "yes")
        ELSE Inference("ambiguous", NoGame, candidates,
                       Cardinality(candidates), "yes")

ReadSeveral(counted, G) ==
    CASE Rides(counted, G) -> ReadRide(counted, G)
      [] ~Rides(counted, G) /\ Candidates(counted, G) = {} -> ReadUnexplained(counted)
      [] OTHER -> ReadLocked(counted, G)

InferLock(counted, G) ==
    CASE DOMAIN G = {}           -> ReadNoGames(counted)
      [] DOMAIN G = {LastDay(G)} -> ReadSingle(counted, G)
      [] OTHER                   -> ReadSeveral(counted, G)

Resolved(inference) ==
    /\ inference.status \in Statuses \ {"ambiguous", "unresolved"}
    /\ inference.oneIn = 1

-----------------------------------------------------------------------------
\* lockin/state.py: one starter's poll value, read against the week so far.

Undecided == {"rode_to_end", "single_game", "no_lockable_game"}

\* Mutant: every ambiguous value is taken for a lock.
ReadingCertain(counted, G) ==
    LET inference == InferLock(counted, G)
    IN  CASE inference.status \in {"locked_early", "ambiguous"} -> "banked"
          [] inference.status \in Undecided -> "open"
          [] OTHER -> "unresolved"

Reading(counted, G) ==
    LET inference == InferLock(counted, G)
    IN  CASE inference.status = "locked_early" -> "banked"
          [] inference.status = "ambiguous" ->
                 IF inference.early = "yes" THEN "banked" ELSE "ambiguous"
          [] inference.status \in Undecided -> "open"
          [] OTHER -> "unresolved"
=============================================================================
