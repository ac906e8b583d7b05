-------------------------------- MODULE MCSlate --------------------------------
\* Two games of one week, and the players' teams, interchangeable by name.
EXTENDS Slate, TLC

Alike == Permutations(Games) \cup Permutations(Teams)
================================================================================
