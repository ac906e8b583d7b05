---------------------------- MODULE MCSharedStore ----------------------------
\* Two ingests and a digest of one morning, over the week being played and the
\* one before it.
EXTENDS SharedStore

MCWeeks == 1..2

\* A past week fetched again, and every week.
MCCoverages == {{1}, 1..2}
==============================================================================
