------------------------------- MODULE MCArchive -------------------------------
(* Values of Archive's constants for TLC: lineups of one or two players.       *)
EXTENDS Archive

Swap == {{"q", "a"}, {"q", "b"}}
Solo == {{"q"}}
SoloSwap == {{"q"}, {"a"}}
================================================================================
