------------------------------ MODULE MCLiveWeek ------------------------------
\* A week of one or two starters, small enough to run through in full.
EXTENDS LiveWeek

\* Half-points: a scoreless game, and two scores that games can share.
MCScores == {0, 20, 33}
MCPlayedScores == {20, 33}
MCOneScore == {20}
==============================================================================
