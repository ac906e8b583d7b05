------------------------------ MODULE MCRollout ------------------------------
\* A three-day week of two starters against one, in sixteenths of a point.
EXTENDS Rollout

MCSims == {1, 2}
MCMine == {1, 2}
MCTheirs == {3}
MCScores == {16, 48}
Week(a, b, c) == 1 :> a @@ 2 :> b @@ 3 :> c
MCFixtures ==
    {Week({2, 3}, {1, 3}, {3}), Week({1, 2, 3}, {3}, {1, 3}), Week({1, 3}, {1, 2}, {3})}
Draw(a, b) == 1 :> 4 * a @@ 2 :> 4 * b
MCTables ==
    {1 :> <<Draw(4, 12), Draw(0, 10), Draw(6, 11)>>
     @@ 2 :> <<Draw(9, 3), Draw(8, 5), Draw(4, 12)>>
     @@ 3 :> <<Draw(12, 14), Draw(20, 4), Draw(13, 30)>>}
\* Everyone known from the first morning on, a starter who is not, and an opponent.
MCDebuts ==
    {1 :> 1 @@ 2 :> 1 @@ 3 :> 1, 1 :> 1 @@ 2 :> 3 @@ 3 :> 1, 1 :> 1 @@ 2 :> 1 @@ 3 :> 3}
==============================================================================
